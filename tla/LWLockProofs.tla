---------------------------- MODULE LWLockProofs ----------------------------
(***************************************************************************)
(* LWLock keeps its invariant, for any number of threads and bytes: the    *)
(* state word counts its holders exactly, a PGPROC is on at most one list, *)
(* and one that waits is on a list or has its wakeup coming.               *)
(***************************************************************************)
EXTENDS LWLock, FiniteSetTheorems, SequenceTheorems, WellFoundedInduction, TLAPS

-----------------------------------------------------------------------------
(* Parts of a list                                                         *)

\* Induction, with the numbers for which the claim holds as a set.
LEMMA Inductive ==
    ASSUME NEW S, 0 \in S, \A n \in Nat : n \in S => n + 1 \in S
    PROVE  Nat \subseteq S
<1> DEFINE R == OpToRel(<, Nat)
           T == Nat \ S
<1> SUFFICES ASSUME T # {} PROVE FALSE
    OBVIOUS
<1>1. IsWellFoundedOn(R, Nat)
    BY NatLessThanWellFounded
<1>2. \A x, y \in Nat : y < x => <<y, x>> \in R
    BY DEF OpToRel
<1>3. PICK x \in T : \A y \in T : ~ (<<y, x>> \in R)
    <2> HIDE DEF R
    <2> QED
        BY <1>1, WFMin
<1>4. x # 0 /\ x \in Nat
    OBVIOUS
<1>5. x - 1 \in Nat /\ x - 1 < x /\ (x - 1) + 1 = x
    BY <1>4
<1>6. x - 1 \notin T
    BY <1>2, <1>3, <1>4, <1>5, Zenon
<1> QED
    BY <1>5, <1>6

\* f solves the recursion of Only for the first n members.
Picks(f, s, S, n) ==
    f = [i \in 0 .. n |-> IF i = 0 THEN <<>>
                         ELSE IF s[i] \in S THEN Append(f[i - 1], s[i])
                         ELSE f[i - 1]]

\* The recursion that picks the members of a list has a solution.
LEMMA OnlyDefined ==
    ASSUME NEW s, NEW S
    PROVE  \A n \in Nat : \E f : Picks(f, s, S, n)
<1> DEFINE Sol(f, n) == Picks(f, s, S, n)
           N == {n \in Nat : \E f : Sol(f, n)}
<1>1. 0 \in N
    <2>1. Sol([i \in 0 .. 0 |-> <<>>], 0)
        BY DEF Picks
    <2> QED
        BY <2>1
<1>2. ASSUME NEW n \in Nat, n \in N
      PROVE  n + 1 \in N
    <2>1. PICK g : Sol(g, n)
        BY <1>2
    <2> DEFINE v == IF s[n + 1] \in S THEN Append(g[n], s[n + 1]) ELSE g[n]
               h == [i \in 0 .. n + 1 |-> IF i = n + 1 THEN v ELSE g[i]]
    <2>2. \A i \in 0 .. n : g[i] = IF i = 0 THEN <<>>
             ELSE IF s[i] \in S THEN Append(g[i - 1], s[i]) ELSE g[i - 1]
        BY <2>1 DEF Picks
    <2>3. \A i \in 0 .. n : h[i] = g[i]
        OBVIOUS
    <2>4. h[n + 1] = v
        OBVIOUS
    <2>5. ASSUME NEW i \in 0 .. n + 1
          PROVE  h[i] = IF i = 0 THEN <<>>
                    ELSE IF s[i] \in S THEN Append(h[i - 1], s[i]) ELSE h[i - 1]
        <3>1. CASE i = n + 1
            <4>1. i # 0 /\ i - 1 = n /\ n \in 0 .. n
                BY <3>1
            <4> HIDE DEF h
            <4> QED
                BY <2>3, <2>4, <3>1, <4>1
        <3>2. CASE i # n + 1
            <4>1. i \in 0 .. n /\ (i # 0 => i - 1 \in 0 .. n)
                BY <3>2
            <4> HIDE DEF h
            <4> QED
                BY <2>2, <2>3, <4>1
        <3> QED
            BY <3>1, <3>2
    <2>6. Sol(h, n + 1)
        <3>1. h = [i \in 0 .. n + 1 |-> h[i]]
            OBVIOUS
        <3> HIDE DEF h
        <3> QED
            BY <2>5, <3>1 DEF Picks
    <2>7. \E k : Sol(k, n + 1)
        <3> HIDE DEF h, Sol
        <3> QED
            BY <2>6
    <2> HIDE DEF Sol
    <2> QED
        BY <2>7
<1> HIDE DEF N
<1>3. Nat \subseteq N
    BY <1>1, <1>2, Inductive
<1> QED
    BY <1>3 DEF N

\* The members that are picked, in a list without repetition if it had none.
LEMMA OnlyFacts ==
    ASSUME NEW P, NEW s \in Seq(P), NEW S
    PROVE  /\ Only(s, S) \in Seq(P)
           /\ Members(Only(s, S)) = Members(s) \cap S
           /\ Once(s) => Once(Only(s, S))
<1> DEFINE n == Len(s)
           f == CHOOSE g : Picks(g, s, S, n)
<1>1. n \in Nat /\ DOMAIN s = 1 .. n /\ \A i \in 1 .. n : s[i] \in P
    OBVIOUS
<1>2. Picks(f, s, S, n)
    <2> HIDE DEF n
    <2> QED
        BY <1>1, OnlyDefined
<1>3. Only(s, S) = f[n]
    BY DEF Only, Picks
<1> HIDE DEF f, n
<1>4. f[0] = <<>>
    <2>1. 0 \in 0 .. n
        BY <1>1
    <2> QED
        BY <1>2, <2>1 DEF Picks
<1>5. ASSUME NEW i \in 1 .. n
      PROVE  f[i] = IF s[i] \in S THEN Append(f[i - 1], s[i]) ELSE f[i - 1]
    <2>1. i \in 0 .. n /\ i # 0
        BY <1>1
    <2> QED
        BY <1>2, <2>1 DEF Picks
<1> DEFINE Good(i) == /\ f[i] \in Seq(P)
                      /\ \A x : x \in Members(f[i]) <=> x \in S /\ \E j \in 1 .. i : s[j] = x
                      /\ Once(s) => Once(f[i])
           N == {i \in Nat : i <= n => Good(i)}
<1>6. 0 \in N
    <2>1. Members(<<>>) = {} /\ Once(<<>>) /\ <<>> \in Seq(P)
        BY DEF Members, Once
    <2>2. Good(0)
        BY <1>4, <2>1
    <2> QED
        BY <2>2
<1>7. ASSUME NEW i \in Nat, i \in N
      PROVE  i + 1 \in N
    <2> SUFFICES ASSUME i + 1 <= n PROVE Good(i + 1)
        OBVIOUS
    <2>1. i + 1 \in 1 .. n /\ (i + 1) - 1 = i /\ i <= n
        BY <1>1
    <2>2. Good(i)
        BY <1>7, <2>1
    <2>3. f[i + 1] = IF s[i + 1] \in S THEN Append(f[i], s[i + 1]) ELSE f[i]
        BY <1>5, <2>1
    <2>4. \A x : (\E j \in 1 .. i + 1 : s[j] = x) <=> (\E j \in 1 .. i : s[j] = x) \/ x = s[i + 1]
        OBVIOUS
    <2>5. CASE s[i + 1] \notin S
        BY <2>2, <2>3, <2>4, <2>5
    <2>6. CASE s[i + 1] \in S
        <3> DEFINE g == Append(f[i], s[i + 1])
        <3>1. f[i + 1] = g /\ s[i + 1] \in P
            BY <1>1, <2>1, <2>3, <2>6
        <3>2. /\ g \in Seq(P) /\ Len(f[i]) \in Nat /\ DOMAIN f[i] = 1 .. Len(f[i])
              /\ DOMAIN g = 1 .. Len(f[i]) + 1
              /\ \A j \in 1 .. Len(f[i]) : g[j] = f[i][j]
              /\ g[Len(f[i]) + 1] = s[i + 1]
            BY <2>2, <3>1
        <3> HIDE DEF g
        <3>3. \A x : x \in Members(g) <=> x \in Members(f[i]) \/ x = s[i + 1]
            <4> DEFINE m == Len(f[i])
            <4>1. m \in Nat /\ m + 1 \in 1 .. m + 1
                BY <3>2
            <4>2. \A j : j \in 1 .. m + 1 <=> j \in 1 .. m \/ j = m + 1
                BY <4>1
            <4> HIDE DEF m
            <4> QED
                BY <3>2, <4>1, <4>2 DEF Members, m
        <3>4. ASSUME Once(s) PROVE Once(g)
            <4>1. s[i + 1] \notin Members(f[i])
                BY <1>1, <2>1, <2>2, <3>4 DEF Once
            <4>2. Once(f[i])
                BY <2>2, <3>4
            <4>3. \A j \in 1 .. Len(f[i]) : g[j] # s[i + 1]
                BY <3>2, <4>1 DEF Members
            <4> DEFINE m == Len(f[i])
            <4>4. m \in Nat /\ DOMAIN f[i] = 1 .. m /\ DOMAIN g = 1 .. m + 1
                BY <3>2
            <4>5. ASSUME NEW j \in 1 .. m, NEW k \in 1 .. m, g[j] = g[k] PROVE j = k
                BY <3>2, <4>2, <4>4, <4>5 DEF Once
            <4>6. \A j \in 1 .. m : g[j] # g[m + 1]
                BY <3>2, <4>3
            <4> HIDE DEF m
            <4>7. \A j : j \in 1 .. m + 1 <=> j \in 1 .. m \/ j = m + 1
                BY <4>4
            <4> QED
                BY <4>4, <4>5, <4>6, <4>7 DEF Once
        <3> QED
            BY <2>2, <2>4, <2>6, <3>1, <3>2, <3>3, <3>4
    <2> QED
        BY <2>5, <2>6
<1>8. Nat \subseteq N
    <2> HIDE DEF N
    <2> QED
        BY <1>6, <1>7, Inductive
<1>9. Good(n)
    <2>1. n \in N
        BY <1>1, <1>8
    <2>2. n <= n
        BY <1>1
    <2> QED
        BY <2>1, <2>2
<1>10. Members(f[n]) = Members(s) \cap S
    BY <1>1, <1>9 DEF Members
<1> QED
    BY <1>3, <1>9, <1>10

-----------------------------------------------------------------------------
(* The three attempts at the lock, and the sharers of a byte               *)

\* What the attempts have in common.
LEMMA Attempts ==
    ASSUME IInv, NEW p \in Procs,
           AttemptExclusive(p) \/ ReadState(p) \/ AttemptShared(p)
    PROVE  /\ UNCHANGED <<listVars, lwWaiting, semVars, call, wakeup, target, histVars>>
           /\ \A q \in Procs \ {p} :
                 pc'[q] = pc[q] /\ holds'[q] = holds[q] /\ old'[q] = old[q]
           /\ holds[p] = "none"
           /\ \/ /\ pc[p] \in {"first", "first_cas"}
                 /\ pc'[p] \in {"first_cas", "queue", "failed", "acquired"}
              \/ /\ pc[p] \in {"second", "second_cas"}
                 /\ pc'[p] \in {"second_cas", "sleep", "dequeue"}
           /\ pc'[p] \in {"first_cas", "second_cas"} => old'[p] < MaxCount
           /\ pc'[p] \notin {"acquired", "dequeue"} => holds'[p] = "none"
           /\ pc' \in [Procs -> Labels]
           /\ holds' \in [Procs -> {"none", "shared", "exclusive"}]
           /\ old' \in [Procs -> 0 .. MaxCount]
           /\ count' \in [Bytes -> Nat] /\ bits' \subseteq Bytes \cup {High}
<1> USE LWLockAssumption DEF IInv, TypeOK, Goto
<1>1. holds[p] = "none" /\ pc[p] \in Labels /\ ByteOf[p] \in Bytes
    BY DEF PlaceInv, AttemptExclusive, ReadState, AttemptShared
<1>2. ASSUME MustWait(p), pc[p] \in {"first", "first_cas", "second", "second_cas"}
      PROVE  /\ UNCHANGED <<holds, wordVars>> /\ pc' \in [Procs -> Labels]
             /\ \A q \in Procs \ {p} : pc'[q] = pc[q]
             /\ pc[p] \in {"first", "first_cas"} => pc'[p] \in {"queue", "failed"}
             /\ pc[p] \in {"second", "second_cas"} => pc'[p] = "sleep"
    BY <1>1, <1>2 DEF MustWait, Labels
<1>3. ASSUME NEW mode \in {"shared", "exclusive"}, Got(p, mode),
             pc[p] \in {"first", "first_cas", "second", "second_cas"}
      PROVE  /\ holds' \in [Procs -> {"none", "shared", "exclusive"}]
             /\ pc' \in [Procs -> Labels]
             /\ \A q \in Procs \ {p} : pc'[q] = pc[q] /\ holds'[q] = holds[q]
             /\ pc[p] \in {"first", "first_cas"} => pc'[p] = "acquired"
             /\ pc[p] \in {"second", "second_cas"} => pc'[p] = "dequeue"
    BY <1>3 DEF Got, Labels
<1>4. CASE AttemptExclusive(p)
    <2>1. CASE MustWait(p)
        BY <1>1, <1>2, <1>4, <2>1 DEF AttemptExclusive, wordVars
    <2>2. CASE Got(p, "exclusive") /\ bits' = ExclusiveBits /\ UNCHANGED count
        BY <1>1, <1>3, <1>4, <2>2 DEF AttemptExclusive, ExclusiveBits
    <2> QED
        BY <1>4, <2>1, <2>2 DEF AttemptExclusive
<1>5. CASE ReadState(p)
    <2>1. CASE MustWait(p) /\ UNCHANGED old
        BY <1>1, <1>2, <1>5, <2>1 DEF ReadState, wordVars
    <2>2. CASE ~ MustWait(p) \/ ~ UNCHANGED old
        <3>1. /\ bits = {} /\ count[ByteOf[p]] < MaxCount
              /\ old' = [old EXCEPT ![p] = count[ByteOf[p]]]
              /\ Goto(p, IF pc[p] = "first" THEN "first_cas" ELSE "second_cas")
              /\ UNCHANGED <<holds, wordVars>>
            BY <1>1, <1>5, <2>2 DEF ReadState, ByteFull
        <3>2. count[ByteOf[p]] \in 0 .. MaxCount
            BY <1>1, <3>1
        <3>3. pc[p] \in {"first", "second"}
            BY <1>5 DEF ReadState
        <3>4. UNCHANGED <<listVars, lwWaiting, semVars, call, wakeup, target, histVars>>
            BY <1>5 DEF ReadState
        <3> QED
            BY <1>1, <3>1, <3>2, <3>3, <3>4 DEF wordVars, Labels
    <2> QED
        BY <2>1, <2>2
<1>6. CASE AttemptShared(p)
    <2>0. /\ pc[p] \in {"first_cas", "second_cas"} /\ old[p] < MaxCount
          /\ UNCHANGED <<listVars, lwWaiting, semVars, call, wakeup, target, histVars>>
        BY <1>6 DEF AttemptShared, PlaceInv
    <2>1. CASE MustWait(p) /\ old' = [old EXCEPT ![p] = 0]
        <3>1. 0 \in 0 .. MaxCount
            OBVIOUS
        <3> QED
            BY <1>1, <1>2, <2>0, <2>1, <3>1 DEF wordVars
    <2>2. CASE /\ count' = [count EXCEPT ![ByteOf[p]] = @ + 1]
               /\ Got(p, "shared")
               /\ old' = [old EXCEPT ![p] = 0]
               /\ UNCHANGED bits
        <3>1. 0 \in 0 .. MaxCount /\ count' \in [Bytes -> Nat]
            BY <2>2
        <3> QED
            BY <1>1, <1>3, <2>0, <2>2, <3>1
    <2>3. CASE /\ ~ByteFull(ByteOf[p]) /\ count[ByteOf[p]] # old[p]
               /\ old' = [old EXCEPT ![p] = count[ByteOf[p]]]
               /\ UNCHANGED <<pc, holds, wordVars>>
        <3>1. count[ByteOf[p]] \in 0 .. MaxCount /\ count[ByteOf[p]] < MaxCount
            BY <1>1, <2>3 DEF ByteFull
        <3> QED
            BY <1>1, <2>0, <2>3, <3>1 DEF wordVars
    <2> QED
        BY <1>6, <2>1, <2>2, <2>3 DEF AttemptShared
<1> QED
    BY <1>4, <1>5, <1>6

\* The sharers of a byte can be counted.
LEMMA SharersFinite ==
    \A b : IsFiniteSet(Sharers(b)) /\ Cardinality(Sharers(b)) \in Nat
<1> SUFFICES ASSUME NEW b
             PROVE  IsFiniteSet(Sharers(b)) /\ Cardinality(Sharers(b)) \in Nat
    OBVIOUS
<1>1. Sharers(b) \subseteq Procs
    BY DEF Sharers
<1>2. IsFiniteSet(Sharers(b))
    BY <1>1, LWLockAssumption, FS_Subset
<1> QED
    BY <1>2, FS_CardinalityType

\* A byte that counts a holder is not zero, and one that is has none.
LEMMA SharersCounted ==
    ASSUME IInv, NEW p \in Procs
    PROVE  /\ holds[p] = "shared" => count[ByteOf[p]] > 0
           /\ count[ByteOf[p]] = 0 => holds[p] # "shared" /\ pc[p] # "downgrade"
<1> DEFINE b == ByteOf[p]
<1>1. b \in Bytes /\ count[b] = Cardinality(Sharers(b))
    BY LWLockAssumption DEF IInv, StateWordExact
<1>2. ASSUME holds[p] = "shared" \/ pc[p] = "downgrade"
      PROVE  count[b] # 0 /\ count[b] \in Nat
    <2>1. p \in Sharers(b)
        BY <1>2 DEF Sharers
    <2> QED
        BY <1>1, <2>1, SharersFinite, FS_EmptySet
<1> QED
    BY <1>2


-----------------------------------------------------------------------------
(* The parts of the invariant                                              *)

\* Every step keeps the types.
LEMMA TypeStep ==
    ASSUME IInv, [Next]_vars
    PROVE  TypeOK'
<1>1. ASSUME NEW p \in Procs, AttemptExclusive(p) PROVE TypeOK'
    BY <1>1, Attempts DEF IInv, TypeOK, listVars, semVars, histVars
<1>2. ASSUME NEW p \in Procs, ReadState(p) PROVE TypeOK'
    BY <1>2, Attempts DEF IInv, TypeOK, listVars, semVars, histVars
<1>3. ASSUME NEW p \in Procs, AttemptShared(p) PROVE TypeOK'
    BY <1>3, Attempts DEF IInv, TypeOK, listVars, semVars, histVars
<1>4. ASSUME NEW p \in Procs, LWLockDequeueSelf(p) PROVE TypeOK'
    <2>1. waiters' \in Seq(Procs)
        BY <1>4, OnlyFacts DEF LWLockDequeueSelf, IInv, TypeOK
    <2>2. hasWaiters' \in BOOLEAN
        BY <1>4 DEF LWLockDequeueSelf
    <2>3. lwWaiting' \in [Procs -> BOOLEAN]
        BY <1>4 DEF LWLockDequeueSelf, IInv, TypeOK
    <2>4. pc' \in [Procs -> Labels]
        <3>1. PICK l \in Labels : pc' = [pc EXCEPT ![p] = l]
            BY <1>4 DEF LWLockDequeueSelf, AfterDequeue, Goto, Labels
        <3> QED
            BY <3>1 DEF IInv, TypeOK
    <2> QED
        BY <1>4, <2>1, <2>2, <2>3, <2>4 DEF LWLockDequeueSelf, IInv, TypeOK,
           wordVars, semVars, histVars
<1>5. ASSUME NEW p \in Procs, AwaitWakeup(p) PROVE TypeOK'
    <2>1. sem' \in [Procs -> Nat] /\ extraWaits' \in [Procs -> Nat]
        <3>1. sem[p] - 1 \in Nat /\ sem' = [sem EXCEPT ![p] = sem[p] - 1]
            BY <1>5 DEF AwaitWakeup, IInv, TypeOK
        <3>2. sem' \in [Procs -> Nat]
            BY <3>1 DEF IInv, TypeOK
        <3>3. extraWaits' = extraWaits \/ extraWaits' = [extraWaits EXCEPT ![p] = extraWaits[p] + 1]
            BY <1>5 DEF AwaitWakeup
        <3>4. extraWaits' \in [Procs -> Nat]
            <4>1. extraWaits \in [Procs -> Nat] /\ extraWaits[p] + 1 \in Nat
                BY DEF IInv, TypeOK
            <4> QED
                BY <3>3, <4>1
        <3> QED
            BY <3>2, <3>4
    <2>2. pc' \in [Procs -> Labels]
        BY <1>5 DEF AwaitWakeup, AfterDequeue, Goto, IInv, TypeOK, Labels
    <2> QED
        BY <1>5, <2>1, <2>2 DEF AwaitWakeup, IInv, TypeOK, wordVars, listVars, histVars
<1>6. ASSUME NEW p \in Procs, Sleep(p) PROVE TypeOK'
    <2>1. sem' \in [Procs -> Nat] /\ extraWaits' \in [Procs -> Nat]
        <3>1. sem[p] - 1 \in Nat /\ sem' = [sem EXCEPT ![p] = sem[p] - 1]
            BY <1>6 DEF Sleep, IInv, TypeOK
        <3>2. sem' \in [Procs -> Nat]
            BY <3>1 DEF IInv, TypeOK
        <3>3. extraWaits' = extraWaits \/ extraWaits' = [extraWaits EXCEPT ![p] = extraWaits[p] + 1]
            BY <1>6 DEF Sleep
        <3>4. extraWaits' \in [Procs -> Nat]
            <4>1. extraWaits \in [Procs -> Nat] /\ extraWaits[p] + 1 \in Nat
                BY DEF IInv, TypeOK
            <4> QED
                BY <3>3, <4>1
        <3> QED
            BY <3>2, <3>4
    <2>2. pc' \in [Procs -> Labels]
        BY <1>6 DEF Sleep, Goto, IInv, TypeOK, Labels
    <2> QED
        BY <1>6, <2>1, <2>2 DEF Sleep, IInv, TypeOK, wordVars, listVars, histVars
<1>7. ASSUME NEW p \in Procs, LWLockRelease(p) PROVE TypeOK'
    <2>1. ByteOf[p] \in Bytes /\ count' \in [Bytes -> Nat] /\ bits' \subseteq Bytes \cup {High}
        <3>1. ByteOf[p] \in Bytes /\ count[ByteOf[p]] \in Nat
            BY LWLockAssumption DEF IInv, TypeOK
        <3>2. holds[p] = "shared" => count[ByteOf[p]] - 1 \in Nat
            BY <3>1, SharersCounted
        <3> QED
            BY <1>7, <3>1, <3>2 DEF LWLockRelease, IInv, TypeOK
    <2>2. pc' \in [Procs -> Labels] /\ holds' \in [Procs -> {"none", "shared", "exclusive"}]
        BY <1>7 DEF LWLockRelease, Goto, IInv, TypeOK, Labels
    <2> QED
        BY <1>7, <2>1, <2>2 DEF LWLockRelease, IInv, TypeOK, listVars, semVars, histVars
<1>8. ASSUME NEW p \in Procs, LWLockWakeup(p) PROVE TypeOK'
    <2>1. waiters' \in Seq(Procs) /\ wakeup' \in [Procs -> Seq(Procs)]
        BY <1>8, OnlyFacts DEF LWLockWakeup, IInv, TypeOK
    <2>2. hasWaiters' \in BOOLEAN /\ releaseOk' \in BOOLEAN
        BY <1>8 DEF LWLockWakeup
    <2>3. pc' \in [Procs -> Labels]
        BY <1>8 DEF LWLockWakeup, Goto, IInv, TypeOK, Labels
    <2> QED
        BY <1>8, <2>1, <2>2, <2>3 DEF LWLockWakeup, IInv, TypeOK, wordVars, semVars,
           histVars
<1>9. ASSUME NEW p \in Procs, ClearWaiting(p) PROVE TypeOK'
    <2>1. /\ Head(wakeup[p]) \in Procs /\ Tail(wakeup[p]) \in Seq(Procs)
          /\ wakeup[p] # <<>>
        BY <1>9 DEF ClearWaiting, IInv, TypeOK
    <2>2. wakeup' \in [Procs -> Seq(Procs)] /\ target' \in [Procs -> Procs \cup {NoProc}]
        BY <1>9, <2>1 DEF ClearWaiting, IInv, TypeOK
    <2>3. lwWaiting' \in [Procs -> BOOLEAN] /\ pc' \in [Procs -> Labels]
        BY <1>9, <2>1 DEF ClearWaiting, Goto, IInv, TypeOK, Labels
    <2> QED
        BY <1>9, <2>2, <2>3 DEF ClearWaiting, IInv, TypeOK, wordVars, listVars, semVars,
           histVars
<1>10. ASSUME NEW p \in Procs, PGSemaphoreUnlock(p) PROVE TypeOK'
    <2>1. target[p] \in Procs
        BY <1>10 DEF PGSemaphoreUnlock, IInv, TypeOK, PlaceInv
    <2>2. sem' \in [Procs -> Nat] /\ target' \in [Procs -> Procs \cup {NoProc}]
        BY <1>10, <2>1 DEF PGSemaphoreUnlock, IInv, TypeOK
    <2>3. pc' \in [Procs -> Labels]
        BY <1>10 DEF PGSemaphoreUnlock, Goto, IInv, TypeOK, Labels
    <2> QED
        BY <1>10, <2>2, <2>3 DEF PGSemaphoreUnlock, IInv, TypeOK, wordVars, listVars,
           histVars
<1> USE LWLockAssumption DEF IInv, TypeOK, Labels, AllCalls, NoCall, Ops, Goto,
   wordVars, listVars, semVars, histVars
<1>11. ASSUME NEW p \in Procs, NEW c \in Calls[p], Start(p, c) PROVE TypeOK'
    BY <1>11 DEF Start
<1>12. ASSUME NEW p \in Procs, LWLockQueueSelf(p) PROVE TypeOK'
    BY <1>12 DEF LWLockQueueSelf
<1>13. ASSUME NEW p \in Procs, DequeuedByOther(p) PROVE TypeOK'
    BY <1>13 DEF DequeuedByOther
<1>14. ASSUME NEW p \in Procs, Retry(p) PROVE TypeOK'
    BY <1>14 DEF Retry
<1>15. ASSUME NEW p \in Procs, GiveUp(p) PROVE TypeOK'
    BY <1>15 DEF GiveUp
<1>16. ASSUME NEW p \in Procs, Return(p) PROVE TypeOK'
    BY <1>16 DEF Return
<1>17. ASSUME NEW p \in Procs, Timeout(p) PROVE TypeOK'
    BY <1>17 DEF Timeout
<1>18. ASSUME NEW p \in Procs, LWLockDowngrade(p) PROVE TypeOK'
    BY <1>18 DEF LWLockDowngrade
<1>19. ASSUME NEW p \in Procs, DowngradeCount(p) PROVE TypeOK'
    BY <1>19 DEF DowngradeCount
<1>20. ASSUME NEW p \in Procs, WakeupDone(p) PROVE TypeOK'
    BY <1>20 DEF WakeupDone
<1>21. CASE UNCHANGED vars
    BY <1>21 DEF vars
<1> QED
    BY <1>1, <1>2, <1>3, <1>4, <1>5, <1>6, <1>7, <1>8, <1>9, <1>10, <1>11,
       <1>12, <1>13, <1>14, <1>15, <1>16, <1>17, <1>18, <1>19, <1>20, <1>21 DEF
       Next, Acquire, Release

\* Threads are where they may be.
LEMMA PlaceStep ==
    ASSUME IInv, [Next]_vars
    PROVE  PlaceInv'
<1>1. ASSUME NEW p \in Procs, AttemptExclusive(p) PROVE PlaceInv'
    <2>1. ASSUME NEW q \in Procs, q # p PROVE PlaceInv!(q)'
        BY <1>1, <2>1, Attempts DEF IInv, PlaceInv
    <2>2. PlaceInv!(p)'
        BY <1>1, Attempts DEF IInv, PlaceInv
    <2> QED
        BY <2>1, <2>2 DEF PlaceInv
<1>2. ASSUME NEW p \in Procs, ReadState(p) PROVE PlaceInv'
    <2>1. ASSUME NEW q \in Procs, q # p PROVE PlaceInv!(q)'
        BY <1>2, <2>1, Attempts DEF IInv, PlaceInv
    <2>2. PlaceInv!(p)'
        BY <1>2, Attempts DEF IInv, PlaceInv
    <2> QED
        BY <2>1, <2>2 DEF PlaceInv
<1>3. ASSUME NEW p \in Procs, AttemptShared(p) PROVE PlaceInv'
    <2>1. ASSUME NEW q \in Procs, q # p PROVE PlaceInv!(q)'
        BY <1>3, <2>1, Attempts DEF IInv, PlaceInv
    <2>2. PlaceInv!(p)'
        BY <1>3, Attempts DEF IInv, PlaceInv
    <2> QED
        BY <2>1, <2>2 DEF PlaceInv
<1>4. ASSUME NEW p \in Procs, LWLockDequeueSelf(p) PROVE PlaceInv'
    <2>1. /\ pc[p] = "dequeue" /\ UNCHANGED <<holds, old, wakeup, target>>
          /\ \A q \in Procs \ {p} : pc'[q] = pc[q]
          /\ \/ pc'[p] \in {"dequeued", "acquired"}
             \/ pc'[p] = "give_up" /\ holds[p] = "none"
        <3>1. \/ pc' = [pc EXCEPT ![p] = "dequeued"]
              \/ pc' = [pc EXCEPT ![p] = IF holds[p] = "none" THEN "give_up" ELSE "acquired"]
            BY <1>4 DEF LWLockDequeueSelf, AfterDequeue, Goto
        <3>2. pc[p] = "dequeue" /\ UNCHANGED <<holds, old, wakeup, target>>
            BY <1>4 DEF LWLockDequeueSelf
        <3> QED
            <4>1. pc \in [Procs -> Labels]
                BY DEF IInv, TypeOK
            <4>2. CASE pc' = [pc EXCEPT ![p] = "dequeued"]
                BY <3>2, <4>1, <4>2
            <4>3. CASE pc' = [pc EXCEPT ![p] = IF holds[p] = "none" THEN "give_up"
                                              ELSE "acquired"]
                <5>1. pc'[p] = IF holds[p] = "none" THEN "give_up" ELSE "acquired"
                    BY <4>1, <4>3
                <5>2. \A q \in Procs \ {p} : pc'[q] = pc[q]
                    BY <4>1, <4>3
                <5> QED
                    BY <3>2, <5>1, <5>2
            <4> QED
                BY <3>1, <4>2, <4>3
    <2> QED
        BY <2>1 DEF IInv, PlaceInv
<1> USE LWLockAssumption DEF IInv, TypeOK, PlaceInv, Goto, wordVars, listVars,
   semVars, histVars
<1>5. ASSUME NEW p \in Procs, NEW c \in Calls[p], Start(p, c) PROVE PlaceInv'
    BY <1>5 DEF Start
<1>6. ASSUME NEW p \in Procs, LWLockQueueSelf(p) PROVE PlaceInv'
    BY <1>6 DEF LWLockQueueSelf
<1>7. ASSUME NEW p \in Procs, DequeuedByOther(p) PROVE PlaceInv'
    BY <1>7 DEF DequeuedByOther
<1>8. ASSUME NEW p \in Procs, AwaitWakeup(p) PROVE PlaceInv'
    <2>1. /\ pc[p] = "dequeued_sleep" /\ UNCHANGED <<holds, old, wakeup, target>>
          /\ \/ UNCHANGED pc
             \/ pc' = [pc EXCEPT ![p] = IF holds[p] = "none" THEN "give_up" ELSE "acquired"]
        BY <1>8 DEF AwaitWakeup, AfterDequeue
    <2>2. \A q \in Procs \ {p} : pc'[q] = pc[q]
        BY <2>1
    <2>3. pc'[p] \in {"dequeued_sleep", "acquired"} \/ (pc'[p] = "give_up" /\ holds[p] = "none")
        BY <2>1
    <2> QED
        BY <2>1, <2>2, <2>3
<1>9. ASSUME NEW p \in Procs, Sleep(p) PROVE PlaceInv'
    <2>1. /\ pc[p] = "sleep" /\ UNCHANGED <<holds, old, wakeup, target>>
          /\ \/ UNCHANGED pc
             \/ pc' = [pc EXCEPT ![p] = "failed"]
             \/ pc' = [pc EXCEPT ![p] = "retry"]
        BY <1>9 DEF Sleep
    <2>2. \A q \in Procs \ {p} : pc'[q] = pc[q]
        BY <2>1
    <2>3. pc'[p] \in {"sleep", "failed", "retry"}
        BY <2>1
    <2> QED
        BY <2>1, <2>2, <2>3
<1>10. ASSUME NEW p \in Procs, Retry(p) PROVE PlaceInv'
    BY <1>10 DEF Retry
<1>11. ASSUME NEW p \in Procs, GiveUp(p) PROVE PlaceInv'
    BY <1>11 DEF GiveUp
<1>12. ASSUME NEW p \in Procs, Return(p) PROVE PlaceInv'
    BY <1>12 DEF Return
<1>13. ASSUME NEW p \in Procs, Timeout(p) PROVE PlaceInv'
    BY <1>13 DEF Timeout
<1>14. ASSUME NEW p \in Procs, LWLockRelease(p) PROVE PlaceInv'
    BY <1>14 DEF LWLockRelease
<1>15. ASSUME NEW p \in Procs, LWLockDowngrade(p) PROVE PlaceInv'
    BY <1>15 DEF LWLockDowngrade
<1>16. ASSUME NEW p \in Procs, DowngradeCount(p) PROVE PlaceInv'
    BY <1>16 DEF DowngradeCount
<1>17. ASSUME NEW p \in Procs, LWLockWakeup(p) PROVE PlaceInv'
    BY <1>17 DEF LWLockWakeup
<1>18. ASSUME NEW p \in Procs, ClearWaiting(p) PROVE PlaceInv'
    <2>1. Head(wakeup[p]) \in Procs
        BY <1>18 DEF ClearWaiting
    <2>2. /\ pc[p] = "waking" /\ pc'[p] = "post" /\ target'[p] = Head(wakeup[p])
          /\ \A q \in Procs \ {p} :
                pc'[q] = pc[q] /\ target'[q] = target[q] /\ wakeup'[q] = wakeup[q]
          /\ UNCHANGED <<holds, old>>
        BY <1>18 DEF ClearWaiting
    <2>3. target'[p] # NoProc /\ holds'[p] = holds[p] /\ old'[p] = old[p]
        BY <2>1, <2>2
    <2>4. ASSUME NEW q \in Procs
          PROVE  /\ pc'[q] \in {"idle", "first", "first_cas", "queue", "second",
                               "second_cas", "sleep", "retry", "give_up", "failed"}
                       => holds'[q] = "none"
                 /\ pc'[q] = "downgrade" => holds'[q] = "exclusive"
                 /\ pc'[q] \in {"first_cas", "second_cas"} => old'[q] < MaxCount
                 /\ wakeup'[q] # <<>> => pc'[q] \in {"waking", "post"}
                 /\ target'[q] # NoProc <=> pc'[q] = "post"
        <3>1. CASE q = p
            BY <2>2, <2>3, <3>1
        <3>2. CASE q # p
            BY <2>2, <3>2
        <3> QED
            BY <3>1, <3>2
    <2> QED
        BY <2>4
<1>19. ASSUME NEW p \in Procs, PGSemaphoreUnlock(p) PROVE PlaceInv'
    BY <1>19 DEF PGSemaphoreUnlock
<1>20. ASSUME NEW p \in Procs, WakeupDone(p) PROVE PlaceInv'
    BY <1>20 DEF WakeupDone
<1>21. CASE UNCHANGED vars
    BY <1>21 DEF vars
<1> QED
    BY <1>1, <1>2, <1>3, <1>4, <1>5, <1>6, <1>7, <1>8, <1>9, <1>10, <1>11,
       <1>12, <1>13, <1>14, <1>15, <1>16, <1>17, <1>18, <1>19, <1>20, <1>21 DEF
       Next, Acquire, Release

-----------------------------------------------------------------------------
(* The state word                                                          *)

\* Steps that leave the word and its holders alone.
LEMMA WordFrame ==
    ASSUME IInv, UNCHANGED <<bits, count, holds>>,
           \A p \in Procs : pc'[p] = "downgrade" <=> pc[p] = "downgrade"
    PROVE  StateWordExact'
<1>1. \A b : Sharers(b)' = Sharers(b)
    BY DEF Sharers
<1> QED
    BY <1>1 DEF IInv, StateWordExact

\* An exclusive locker that finds no bit of LW_LOCK_MASK set is alone.
LEMMA ExclusiveStep ==
    ASSUME IInv, NEW p \in Procs, AttemptExclusive(p)
    PROVE  StateWordExact'
<1>1. /\ \A q \in Procs \ {p} : pc'[q] = pc[q] /\ holds'[q] = holds[q]
      /\ pc[p] # "downgrade" /\ pc'[p] # "downgrade"
    BY Attempts
<1>2. CASE MustWait(p)
    BY <1>1, <1>2, WordFrame DEF MustWait, wordVars
<1>3. CASE Free /\ bits' = ExclusiveBits /\ Got(p, "exclusive") /\ UNCHANGED count
    <2>1. holds'[p] = "exclusive"
        BY <1>3 DEF Got, IInv, TypeOK
    <2>2. \A q \in Procs : holds[q] = "none" /\ pc[q] # "downgrade"
        <3> SUFFICES ASSUME NEW q \in Procs
                     PROVE  holds[q] = "none" /\ pc[q] # "downgrade"
            OBVIOUS
        <3>1. holds[q] # "shared" /\ pc[q] # "downgrade"
            BY <1>3, SharersCounted, LWLockAssumption DEF Free
        <3>2. holds[q] # "exclusive"
            BY <1>3 DEF Free, IInv, StateWordExact, ExclusiveBits
        <3> QED
            BY <3>1, <3>2 DEF IInv, TypeOK
    <2>3. \A q \in Procs : (q # p => holds'[q] = "none") /\ pc'[q] # "downgrade"
        BY <1>1, <2>2
    <2>4. ASSUME NEW b \in Bytes PROVE Sharers(b)' = Sharers(b)
        BY <2>1, <2>2, <2>3 DEF Sharers
    <2> QED
        BY <1>3, <2>1, <2>3, <2>4 DEF IInv, StateWordExact, ExclusiveBits
<1> QED
    BY <1>2, <1>3 DEF AttemptExclusive

\* A shared locker whose byte is as it was adds one to it: no exclusive bit is set
\* in this byte, so in none.
LEMMA SharedStep ==
    ASSUME IInv, NEW p \in Procs, AttemptShared(p)
    PROVE  StateWordExact'
<1> DEFINE b == ByteOf[p]
<1>1. /\ \A q \in Procs \ {p} : pc'[q] = pc[q] /\ holds'[q] = holds[q]
      /\ holds[p] = "none" /\ pc[p] # "downgrade" /\ pc'[p] # "downgrade"
      /\ pc[p] \in {"first_cas", "second_cas"}
    BY Attempts DEF AttemptShared
<1>2. CASE UNCHANGED <<holds, wordVars>>
    BY <1>1, <1>2, WordFrame DEF wordVars
<1>3. CASE /\ b \notin bits /\ count[b] = old[p]
           /\ count' = [count EXCEPT ![b] = @ + 1]
           /\ Got(p, "shared") /\ UNCHANGED bits
    <2>1. b \in Bytes /\ holds'[p] = "shared"
        BY <1>3, LWLockAssumption DEF Got, IInv, TypeOK
    <2>2. bits = {} /\ \A q \in Procs : holds[q] # "exclusive"
        BY <1>3, <2>1, LWLockAssumption DEF IInv, StateWordExact, ExclusiveBits
    <2>3. \A q \in Procs : holds'[q] # "exclusive"
        BY <1>1, <2>1, <2>2
    <2>4. Sharers(b)' = Sharers(b) \cup {p} /\ p \notin Sharers(b)
        BY <1>1, <2>1 DEF Sharers
    <2>5. Cardinality(Sharers(b)') = Cardinality(Sharers(b)) + 1
        BY <2>4, SharersFinite, FS_AddElement
    <2>6. ASSUME NEW c \in Bytes, c # b PROVE Sharers(c)' = Sharers(c)
        BY <1>1, <2>6 DEF Sharers
    <2>7. old[p] < MaxCount /\ count[b] \in Nat
        BY <1>1, <2>1 DEF IInv, PlaceInv, TypeOK
    <2>8. ASSUME NEW c \in Bytes
          PROVE  count'[c] = Cardinality(Sharers(c)') /\ count'[c] <= MaxCount
        <3>1. CASE c = b
            <4>1. count'[b] = count[b] + 1
                BY <1>3, <2>1 DEF IInv, TypeOK
            <4>2. count[b] = Cardinality(Sharers(b))
                BY <2>1 DEF IInv, StateWordExact
            <4> QED
                BY <1>3, <2>5, <2>7, <3>1, <4>1, <4>2, LWLockAssumption
        <3>2. CASE c # b
            <4>1. count'[c] = count[c]
                BY <1>3, <3>2 DEF IInv, TypeOK
            <4> QED
                BY <2>6, <3>2, <4>1 DEF IInv, StateWordExact
        <3> QED
            BY <3>1, <3>2
    <2> QED
        BY <1>3, <2>2, <2>3, <2>8 DEF StateWordExact
<1> QED
    BY <1>2, <1>3 DEF AttemptShared, MustWait

\* A release takes the holder out of the word.
LEMMA ReleaseStep ==
    ASSUME IInv, NEW p \in Procs, LWLockRelease(p)
    PROVE  StateWordExact'
<1> DEFINE b == ByteOf[p]
<1>1. /\ \A q \in Procs \ {p} : pc'[q] = pc[q] /\ holds'[q] = holds[q]
      /\ pc[p] = "holding" /\ pc'[p] # "downgrade" /\ holds'[p] = "none"
      /\ b \in Bytes
    BY LWLockAssumption DEF LWLockRelease, Goto, IInv, TypeOK
<1>2. CASE holds[p] = "exclusive" /\ bits' = bits \ ExclusiveBits /\ UNCHANGED count
    <2>1. \A q \in Procs : holds'[q] = "none"
        BY <1>1, <1>2 DEF IInv, StateWordExact
    <2>2. bits' = {}
        BY <1>2 DEF IInv, StateWordExact
    <2>3. ASSUME NEW c \in Bytes PROVE Sharers(c)' = Sharers(c)
        BY <1>1, <1>2 DEF Sharers
    <2> QED
        BY <1>2, <2>1, <2>2, <2>3 DEF IInv, StateWordExact
<1>3. CASE /\ holds[p] = "shared" /\ UNCHANGED bits
           /\ count' = [count EXCEPT ![b] = @ - 1]
    <2>1. \A q \in Procs : holds[q] # "exclusive" /\ holds'[q] # "exclusive"
        BY <1>1, <1>3 DEF IInv, StateWordExact
    <2>2. Sharers(b)' = Sharers(b) \ {p} /\ p \in Sharers(b)
        BY <1>1, <1>3 DEF Sharers
    <2>3. Cardinality(Sharers(b)') = Cardinality(Sharers(b)) - 1
        BY <2>2, SharersFinite, FS_RemoveElement
    <2>4. ASSUME NEW c \in Bytes, c # b PROVE Sharers(c)' = Sharers(c)
        BY <1>1, <2>4 DEF Sharers
    <2>5. ASSUME NEW c \in Bytes
          PROVE  count'[c] = Cardinality(Sharers(c)') /\ count'[c] <= MaxCount
        <3>1. CASE c = b
            <4>1. count'[b] = count[b] - 1 /\ count[b] \in Nat
                BY <1>1, <1>3 DEF IInv, TypeOK
            <4>2. count[b] = Cardinality(Sharers(b)) /\ count[b] <= MaxCount
                BY <1>1 DEF IInv, StateWordExact
            <4> QED
                BY <2>3, <3>1, <4>1, <4>2, LWLockAssumption
        <3>2. CASE c # b
            <4>1. count'[c] = count[c]
                BY <1>3, <3>2 DEF IInv, TypeOK
            <4> QED
                BY <2>4, <3>2, <4>1 DEF IInv, StateWordExact
        <3> QED
            BY <3>1, <3>2
    <2> QED
        BY <1>3, <2>1, <2>5 DEF IInv, StateWordExact
<1> QED
    BY <1>2, <1>3 DEF LWLockRelease

\* LWLockDowngrade counts itself in a byte that counts nobody else ...
LEMMA DowngradeCountStep ==
    ASSUME IInv, NEW p \in Procs, DowngradeCount(p)
    PROVE  StateWordExact'
<1> DEFINE b == ByteOf[p]
<1>1. /\ \A q \in Procs \ {p} : pc'[q] = pc[q]
      /\ pc[p] = "holding" /\ pc'[p] = "downgrade" /\ holds[p] = "exclusive"
      /\ b \in Bytes /\ UNCHANGED <<bits, holds>>
      /\ count' = [count EXCEPT ![b] = count[b] + 1]
    BY LWLockAssumption DEF DowngradeCount, Goto, IInv, TypeOK
<1>2. \A c : Sharers(c) = {}
    BY <1>1 DEF Sharers, IInv, StateWordExact, PlaceInv
<1>3. Sharers(b)' = {p} /\ \A c : c # b => Sharers(c)' = {}
    BY <1>1 DEF Sharers, IInv, StateWordExact, PlaceInv
<1>4. \A c \in Bytes : count[c] = 0
    BY <1>2, FS_EmptySet DEF IInv, StateWordExact
<1>5. ASSUME NEW c \in Bytes
      PROVE  count'[c] = Cardinality(Sharers(c)') /\ count'[c] <= MaxCount
    <2>1. CASE c = b
        <3>1. count'[b] = 1
            BY <1>1, <1>4 DEF IInv, TypeOK
        <3>2. Cardinality({p}) = 1
            BY FS_Singleton
        <3> QED
            BY <1>3, <2>1, <3>1, <3>2, LWLockAssumption
    <2>2. CASE c # b
        <3>1. count'[c] = 0
            BY <1>1, <1>4, <2>2 DEF IInv, TypeOK
        <3>2. Sharers(c)' = {} /\ Cardinality({}) = 0
            BY <1>3, <2>2, FS_EmptySet
        <3> QED
            BY <3>1, <3>2, LWLockAssumption
    <2> QED
        BY <2>1, <2>2
<1> QED
    BY <1>1, <1>5 DEF IInv, StateWordExact

\* ... and the word is that of a shared holder when the exclusive bits are gone.
LEMMA DowngradeStep ==
    ASSUME IInv, NEW p \in Procs, LWLockDowngrade(p)
    PROVE  StateWordExact'
<1>1. /\ \A q \in Procs \ {p} : pc'[q] = pc[q] /\ holds'[q] = holds[q]
      /\ pc[p] = "downgrade" /\ pc'[p] # "downgrade" /\ holds'[p] = "shared"
      /\ bits' = bits \ ExclusiveBits /\ UNCHANGED count
    BY DEF LWLockDowngrade, Goto, IInv, TypeOK
<1>2. holds[p] = "exclusive"
    BY <1>1 DEF IInv, PlaceInv
<1>3. bits' = {}
    BY <1>1, <1>2 DEF IInv, StateWordExact
<1>4. \A q \in Procs : holds'[q] # "exclusive"
    BY <1>1, <1>2 DEF IInv, StateWordExact
<1>5. ASSUME NEW c PROVE Sharers(c)' = Sharers(c)
    BY <1>1 DEF Sharers
<1> QED
    BY <1>1, <1>3, <1>4, <1>5 DEF IInv, StateWordExact

\* Every step keeps the word exact.
LEMMA WordStep ==
    ASSUME IInv, [Next]_vars
    PROVE  StateWordExact'
<1> DEFINE Frame == /\ UNCHANGED <<bits, count, holds>>
                    /\ \A q \in Procs : pc'[q] = "downgrade" <=> pc[q] = "downgrade"
<1>1. ASSUME NEW p \in Procs, ReadState(p) PROVE Frame
    <2>1. UNCHANGED <<bits, count, holds>>
        BY <1>1 DEF ReadState, MustWait, wordVars
    <2> QED
        BY <1>1, <2>1, Attempts
<1>2. ASSUME NEW p \in Procs, LWLockDequeueSelf(p) PROVE Frame
    <2>1. UNCHANGED <<bits, count, holds>> /\ pc[p] = "dequeue"
        BY <1>2 DEF LWLockDequeueSelf, wordVars
    <2>2. \E l \in {"dequeued", "give_up", "acquired"} : pc' = [pc EXCEPT ![p] = l]
        BY <1>2 DEF LWLockDequeueSelf, AfterDequeue, Goto
    <2> QED
        BY <2>1, <2>2 DEF IInv, TypeOK
<1>3. ASSUME NEW p \in Procs, AwaitWakeup(p) PROVE Frame
    <2>1. UNCHANGED <<bits, count, holds>> /\ pc[p] = "dequeued_sleep"
        BY <1>3 DEF AwaitWakeup, wordVars
    <2>2. pc' = pc \/ \E l \in {"give_up", "acquired"} : pc' = [pc EXCEPT ![p] = l]
        BY <1>3 DEF AwaitWakeup, AfterDequeue, Goto
    <2> QED
        BY <2>1, <2>2 DEF IInv, TypeOK
<1>4. ASSUME NEW p \in Procs, Sleep(p) PROVE Frame
    <2>1. UNCHANGED <<bits, count, holds>> /\ pc[p] = "sleep"
        BY <1>4 DEF Sleep, wordVars
    <2>2. pc' = pc \/ \E l \in {"failed", "retry"} : pc' = [pc EXCEPT ![p] = l]
        BY <1>4 DEF Sleep, Goto
    <2> QED
        BY <2>1, <2>2 DEF IInv, TypeOK
<1>5. ASSUME NEW p \in Procs,
             \/ \E c \in Calls[p] : Start(p, c)
             \/ LWLockQueueSelf(p) \/ DequeuedByOther(p) \/ Retry(p) \/ GiveUp(p)
             \/ Return(p) \/ Timeout(p) \/ LWLockWakeup(p) \/ ClearWaiting(p)
             \/ PGSemaphoreUnlock(p) \/ WakeupDone(p)
      PROVE  Frame
    BY <1>5 DEF Start, LWLockQueueSelf, DequeuedByOther, Retry, GiveUp, Return, Timeout,
       LWLockWakeup, ClearWaiting, PGSemaphoreUnlock, WakeupDone, Goto, wordVars,
       IInv, TypeOK
<1>6. CASE UNCHANGED vars
    BY <1>6, WordFrame DEF vars, wordVars
<1>7. ASSUME Frame PROVE StateWordExact'
    BY <1>7, WordFrame
<1> HIDE DEF Frame
<1> QED
    BY <1>1, <1>2, <1>3, <1>4, <1>5, <1>6, <1>7, ExclusiveStep, SharedStep, ReleaseStep,
       DowngradeCountStep, DowngradeStep DEF Next, Acquire, Release

-----------------------------------------------------------------------------
(* The lists                                                               *)

\* A thread that is neither waiting nor on a list comes to the head or the end.
LEMMA QueueFacts ==
    ASSUME IInv, NEW p \in Procs, LWLockQueueSelf(p)
    PROVE  /\ Queued' = Queued \cup {p} /\ p \notin Queued
           /\ \A q \in Procs : p \notin Members(wakeup[q])
           /\ Once(waiters')
<1> DEFINE n == Len(waiters)
<1>1. waiters \in Seq(Procs) /\ n \in Nat /\ DOMAIN waiters = 1 .. n
    BY DEF IInv, TypeOK
<1>2. ~ OnList(p)
    BY DEF LWLockQueueSelf, IInv, LinksSound, Waiting
<1>3. p \notin Queued /\ \A q \in Procs : p \notin Members(wakeup[q])
    BY <1>2 DEF OnList
<1>4. Once(waiters) /\ \A i \in 1 .. n : waiters[i] # p
    BY <1>1, <1>3 DEF IInv, ListInv, Queued, Members
<1>5. CASE waiters' = <<p>> \o waiters
    <2>1. /\ DOMAIN waiters' = 1 .. n + 1 /\ waiters'[1] = p
          /\ \A i \in 2 .. n + 1 : waiters'[i] = waiters[i - 1]
        BY <1>1, <1>5
    <2>2. \A i \in 2 .. n + 1 : i - 1 \in 1 .. n
        BY <1>1
    <2>3. \A i \in 1 .. n : i + 1 \in 2 .. n + 1 /\ (i + 1) - 1 = i
        BY <1>1
    <2>4. \A i : i \in 1 .. n + 1 <=> i = 1 \/ i \in 2 .. n + 1
        BY <1>1
    <2>5. \A i, j \in 2 .. n + 1 : i - 1 = j - 1 => i = j
        BY <1>1
    <2> HIDE DEF n
    <2>6. Once(waiters')
        <3> SUFFICES ASSUME NEW i \in 1 .. n + 1, NEW j \in 1 .. n + 1,
                            waiters'[i] = waiters'[j]
                     PROVE  i = j
            BY <2>1 DEF Once
        <3>1. CASE i = 1 \/ j = 1
            BY <1>4, <2>1, <2>2, <2>4, <3>1
        <3>2. CASE i \in 2 .. n + 1 /\ j \in 2 .. n + 1
            <4>1. waiters[i - 1] = waiters[j - 1] /\ i - 1 \in 1 .. n /\ j - 1 \in 1 .. n
                BY <2>1, <2>2, <3>2
            <4> QED
                BY <1>1, <1>4, <2>5, <3>2, <4>1 DEF Once
        <3> QED
            BY <2>4, <3>1, <3>2
    <2>7. Queued' = Queued \cup {p}
        <3>1. ASSUME NEW x \in Queued' PROVE x \in Queued \cup {p}
            <4>1. PICK i \in 1 .. n + 1 : waiters'[i] = x
                BY <2>1, <3>1 DEF Queued, Members
            <4> QED
                BY <1>1, <2>1, <2>2, <2>4, <4>1 DEF Queued, Members
        <3>2. p \in Queued'
            BY <2>1, <2>4 DEF Queued, Members
        <3>3. ASSUME NEW x \in Queued PROVE x \in Queued'
            <4>1. PICK i \in 1 .. n : waiters[i] = x
                BY <1>1, <3>3 DEF Queued, Members
            <4>2. i + 1 \in 1 .. n + 1 /\ waiters'[i + 1] = x
                BY <2>1, <2>3, <2>4, <4>1
            <4> QED
                BY <2>1, <4>2 DEF Queued, Members
        <3> QED
            BY <3>1, <3>2, <3>3
    <2> QED
        BY <1>3, <2>6, <2>7
<1>6. CASE waiters' = Append(waiters, p)
    <2>1. /\ DOMAIN waiters' = 1 .. n + 1 /\ waiters'[n + 1] = p
          /\ \A i \in 1 .. n : waiters'[i] = waiters[i]
        BY <1>1, <1>6
    <2>2. \A i : i \in 1 .. n + 1 <=> i = n + 1 \/ i \in 1 .. n
        BY <1>1
    <2> HIDE DEF n
    <2>3. Once(waiters')
        BY <1>1, <1>4, <2>1, <2>2 DEF Once
    <2>4. Queued' = Queued \cup {p}
        BY <1>1, <2>1, <2>2 DEF Queued, Members
    <2> QED
        BY <1>3, <2>3, <2>4
<1> QED
    BY <1>5, <1>6 DEF LWLockQueueSelf

\* LWLockDequeueSelf takes p off the lock's list, if it is there.
LEMMA DequeueFacts ==
    ASSUME IInv, NEW p \in Procs, LWLockDequeueSelf(p)
    PROVE  Queued' = Queued \ {p} /\ Once(waiters')
<1>1. /\ waiters \in Seq(Procs) /\ Once(waiters)
      /\ waiters' = Only(waiters, Procs \ {p}) /\ Queued \subseteq Procs
    BY DEF LWLockDequeueSelf, IInv, TypeOK, ListInv, Queued, Members
<1>2. Members(waiters') = Members(waiters) \cap (Procs \ {p}) /\ Once(waiters')
    BY <1>1, OnlyFacts
<1> QED
    BY <1>1, <1>2 DEF Queued

\* LWLockWakeup moves the ones it has chosen from the lock's list to its own.
LEMMA WakeupFacts ==
    ASSUME IInv, NEW p \in Procs, LWLockWakeup(p)
    PROVE  /\ Once(waiters') /\ Once(wakeup'[p])
           /\ Queued' = Queued \ ToWake /\ Members(wakeup'[p]) = ToWake
           /\ ToWake \subseteq Queued
           /\ Members(wakeup[p]) = {}
           /\ \A q \in Procs \ {p} : wakeup'[q] = wakeup[q]
<1>1. ToWake \subseteq Queued /\ Queued \subseteq Procs
    BY DEF ToWake, IInv, TypeOK, Queued, Members
<1> DEFINE W == ToWake
<1>2. /\ waiters \in Seq(Procs) /\ Once(waiters)
      /\ waiters' = Only(waiters, Procs \ W)
      /\ wakeup'[p] = Only(waiters, W)
      /\ \A q \in Procs \ {p} : wakeup'[q] = wakeup[q]
    BY DEF LWLockWakeup, IInv, TypeOK, ListInv
<1>3. wakeup[p] = <<>>
    BY DEF LWLockWakeup, IInv, PlaceInv
<1>4. Members(wakeup[p]) = {}
    BY <1>3 DEF Members
<1> HIDE DEF W
<1>5. /\ Members(waiters') = Members(waiters) \cap (Procs \ W) /\ Once(waiters')
      /\ Members(wakeup'[p]) = Members(waiters) \cap W /\ Once(wakeup'[p])
    BY <1>2, OnlyFacts
<1> QED
    BY <1>1, <1>2, <1>4, <1>5 DEF Queued, W

\* ClearWaiting takes its target off the waker's own list.
LEMMA ClearFacts ==
    ASSUME IInv, NEW p \in Procs, ClearWaiting(p)
    PROVE  /\ target'[p] \in Members(wakeup[p]) /\ target'[p] \in Procs
           /\ Members(wakeup'[p]) = Members(wakeup[p]) \ {target'[p]}
           /\ Once(wakeup'[p])
           /\ \A q \in Procs \ {p} : wakeup'[q] = wakeup[q] /\ target'[q] = target[q]
           /\ lwWaiting' = [lwWaiting EXCEPT ![target'[p]] = FALSE]
<1> DEFINE s == wakeup[p]
           n == Len(s)
<1>1. /\ s \in Seq(Procs) /\ s # <<>> /\ n \in Nat \ {0} /\ DOMAIN s = 1 .. n
    BY DEF ClearWaiting, IInv, TypeOK
<1>2. /\ wakeup'[p] = Tail(s) /\ target'[p] = s[1]
      /\ \A q \in Procs \ {p} : wakeup'[q] = wakeup[q] /\ target'[q] = target[q]
      /\ lwWaiting' = [lwWaiting EXCEPT ![target'[p]] = FALSE]
    BY DEF ClearWaiting, IInv, TypeOK
<1>3. /\ DOMAIN Tail(s) = 1 .. n - 1 /\ \A i \in 1 .. n - 1 : Tail(s)[i] = s[i + 1]
    BY <1>1
<1>4. /\ 1 \in 1 .. n
      /\ \A i \in 1 .. n - 1 : i + 1 \in 1 .. n /\ i + 1 # 1
      /\ \A i \in 1 .. n : i # 1 => i - 1 \in 1 .. n - 1 /\ (i - 1) + 1 = i
      /\ \A i, j \in 1 .. n - 1 : i + 1 = j + 1 => i = j
    BY <1>1
<1>5. Once(s)
    BY DEF IInv, ListInv
<1> HIDE DEF n, s
<1>6. Once(Tail(s))
    BY <1>1, <1>3, <1>4, <1>5 DEF Once
<1>7. \A x : x \in Members(Tail(s)) <=> x \in Members(s) /\ x # s[1]
    <2>1. ASSUME NEW x \in Members(Tail(s)) PROVE x \in Members(s) /\ x # s[1]
        <3>1. PICK i \in 1 .. n - 1 : x = s[i + 1]
            BY <1>3, <2>1 DEF Members
        <3> QED
            BY <1>1, <1>4, <1>5, <3>1 DEF Once, Members
    <2>2. ASSUME NEW x \in Members(s), x # s[1] PROVE x \in Members(Tail(s))
        <3>1. PICK i \in 1 .. n : x = s[i]
            BY <1>1, <2>2 DEF Members
        <3>2. i - 1 \in 1 .. n - 1 /\ Tail(s)[i - 1] = x
            BY <1>3, <1>4, <2>2, <3>1
        <3> QED
            BY <1>3, <3>2 DEF Members
    <2> QED
        BY <2>1, <2>2
<1>8. s[1] \in Members(s) /\ s[1] \in Procs
    BY <1>1, <1>4 DEF Members
<1> QED
    BY <1>2, <1>6, <1>7, <1>8 DEF s

\* Which steps change the lists.
LEMMA ListSteps ==
    ASSUME IInv, [Next]_vars
    PROVE  \/ \E p \in Procs : \/ LWLockQueueSelf(p) \/ LWLockDequeueSelf(p)
                               \/ LWLockWakeup(p) \/ ClearWaiting(p)
           \/ UNCHANGED <<waiters, wakeup, lwWaiting>>
<1>1. ASSUME NEW p \in Procs, AttemptExclusive(p) \/ ReadState(p) \/ AttemptShared(p)
      PROVE  UNCHANGED <<waiters, wakeup, lwWaiting>>
    BY <1>1, Attempts DEF listVars
<1>2. ASSUME NEW p \in Procs,
             \/ \E c \in Calls[p] : Start(p, c)
             \/ DequeuedByOther(p) \/ AwaitWakeup(p) \/ Sleep(p) \/ Retry(p)
             \/ GiveUp(p) \/ Return(p) \/ Timeout(p) \/ LWLockRelease(p)
             \/ LWLockDowngrade(p) \/ DowngradeCount(p) \/ PGSemaphoreUnlock(p)
             \/ WakeupDone(p)
      PROVE  UNCHANGED <<waiters, wakeup, lwWaiting>>
    BY <1>2 DEF Start, DequeuedByOther, AwaitWakeup, Sleep, Retry, GiveUp, Return,
       Timeout, LWLockRelease, LWLockDowngrade, DowngradeCount, PGSemaphoreUnlock,
       WakeupDone, listVars
<1>3. CASE UNCHANGED vars
    BY <1>3 DEF vars, listVars
<1> QED
    BY <1>1, <1>2, <1>3 DEF Next, Acquire, Release

\* A PGPROC stays on one list at most, once.
LEMMA ListStep ==
    ASSUME IInv, [Next]_vars
    PROVE  ListInv'
<1>1. ASSUME NEW p \in Procs, LWLockQueueSelf(p) PROVE ListInv'
    <2>1. UNCHANGED wakeup
        BY <1>1 DEF LWLockQueueSelf
    <2> QED
        BY <1>1, <2>1, QueueFacts DEF IInv, ListInv
<1>2. ASSUME NEW p \in Procs, LWLockDequeueSelf(p) PROVE ListInv'
    <2>1. UNCHANGED wakeup
        BY <1>2 DEF LWLockDequeueSelf
    <2> QED
        BY <1>2, <2>1, DequeueFacts DEF IInv, ListInv
<1>3. ASSUME NEW p \in Procs, LWLockWakeup(p) PROVE ListInv'
    <2>1. \A q \in Procs : Once(wakeup'[q])
        BY <1>3, WakeupFacts DEF IInv, ListInv
    <2>2. \A q \in Procs : Queued' \cap Members(wakeup'[q]) = {}
        BY <1>3, WakeupFacts DEF IInv, ListInv
    <2>3. ASSUME NEW q \in Procs, NEW r \in Procs, q # r
          PROVE  Members(wakeup'[q]) \cap Members(wakeup'[r]) = {}
        <3>1. CASE q # p /\ r # p
            BY <1>3, <2>3, <3>1, WakeupFacts DEF IInv, ListInv
        <3>2. CASE q = p \/ r = p
            BY <1>3, <2>3, <3>2, WakeupFacts DEF IInv, ListInv
        <3> QED
            BY <3>1, <3>2
    <2> QED
        BY <1>3, <2>1, <2>2, <2>3, WakeupFacts DEF ListInv
<1>4. ASSUME NEW p \in Procs, ClearWaiting(p) PROVE ListInv'
    <2>1. UNCHANGED waiters
        BY <1>4 DEF ClearWaiting, listVars
    <2>2. \A q \in Procs : Once(wakeup'[q]) /\ Members(wakeup'[q]) \subseteq Members(wakeup[q])
        BY <1>4, ClearFacts DEF IInv, ListInv
    <2>3. \A q \in Procs : Queued' \cap Members(wakeup'[q]) = {}
        BY <2>1, <2>2 DEF IInv, ListInv, Queued
    <2>4. \A q, r \in Procs : q # r => Members(wakeup'[q]) \cap Members(wakeup'[r]) = {}
        BY <2>2 DEF IInv, ListInv
    <2> QED
        BY <2>1, <2>2, <2>3, <2>4 DEF IInv, ListInv
<1>5. CASE UNCHANGED <<waiters, wakeup, lwWaiting>>
    BY <1>5 DEF IInv, ListInv, Queued
<1> QED
    BY <1>1, <1>2, <1>3, <1>4, <1>5, ListSteps

\* Steps that touch no list: whoever goes on waiting is told as before.
LEMMA LinksFrame ==
    ASSUME IInv, UNCHANGED <<waiters, wakeup, lwWaiting, target>>,
           \A q \in Procs : Waiting(q)' <=> Waiting(q),
           \A q \in Procs : sem[q] > 0 => sem'[q] > 0
    PROVE  LinksSound'
<1>1. \A q \in Procs : OnList(q)' <=> OnList(q)
    BY DEF OnList, Queued
<1> QED
    BY <1>1 DEF IInv, LinksSound

\* A waiter that takes its semaphore has been told and goes on, or sleeps on.
LEMMA TakenFrame ==
    ASSUME IInv, NEW p \in Procs,
           UNCHANGED <<waiters, wakeup, lwWaiting, target>>,
           \A q \in Procs \ {p} : pc'[q] = pc[q] /\ sem'[q] = sem[q],
           Waiting(p),
           \/ lwWaiting[p] /\ pc'[p] = pc[p]
           \/ ~lwWaiting[p] /\ ~Waiting(p)'
    PROVE  LinksSound'
<1>1. \A q \in Procs : OnList(q)' <=> OnList(q)
    BY DEF OnList, Queued
<1>2. \A q \in Procs \ {p} : Waiting(q)' <=> Waiting(q)
    BY DEF Waiting
<1>3. lwWaiting[p] => Waiting(p)'
    BY DEF Waiting
<1> QED
    BY <1>1, <1>2, <1>3 DEF IInv, LinksSound

\* Links stay sound.
LEMMA LinksStep ==
    ASSUME IInv, [Next]_vars
    PROVE  LinksSound'
<1>1. ASSUME NEW p \in Procs, LWLockQueueSelf(p) PROVE LinksSound'
    <2>1. /\ UNCHANGED <<wakeup, target, sem>>
          /\ lwWaiting'[p] /\ pc'[p] = "second"
          /\ \A q \in Procs \ {p} : pc'[q] = pc[q] /\ lwWaiting'[q] = lwWaiting[q]
        BY <1>1 DEF LWLockQueueSelf, Goto, IInv, TypeOK, semVars
    <2>2. \A q \in Procs \ {p} : OnList(q)' <=> OnList(q)
        BY <1>1, <2>1, QueueFacts DEF OnList
    <2>3. OnList(p)'
        BY <1>1, QueueFacts DEF OnList
    <2>4. Waiting(p)' /\ \A q \in Procs \ {p} : Waiting(q)' <=> Waiting(q)
        BY <2>1 DEF Waiting
    <2> QED
        BY <2>1, <2>2, <2>3, <2>4 DEF IInv, LinksSound
<1>2. ASSUME NEW p \in Procs, LWLockDequeueSelf(p) PROVE LinksSound'
    <2>1. /\ UNCHANGED <<wakeup, target, sem>> /\ pc[p] = "dequeue"
        BY <1>2 DEF LWLockDequeueSelf, semVars
    <2>2. CASE p \in Queued
        <3>1. /\ ~lwWaiting'[p] /\ pc'[p] \in {"give_up", "acquired"}
              /\ \A q \in Procs \ {p} : pc'[q] = pc[q] /\ lwWaiting'[q] = lwWaiting[q]
            BY <1>2, <2>2 DEF LWLockDequeueSelf, AfterDequeue, Goto, IInv, TypeOK
        <3>2. \A q \in Procs \ {p} : OnList(q)' <=> OnList(q)
            BY <1>2, <2>1, DequeueFacts DEF OnList
        <3>3. ~ OnList(p)'
            BY <1>2, <2>1, <2>2, DequeueFacts DEF OnList, IInv, ListInv
        <3>4. ~ Waiting(p)' /\ \A q \in Procs \ {p} : Waiting(q)' <=> Waiting(q)
            BY <3>1 DEF Waiting
        <3> QED
            BY <2>1, <3>1, <3>2, <3>3, <3>4 DEF IInv, LinksSound
    <2>3. CASE p \notin Queued
        <3>1. /\ UNCHANGED lwWaiting /\ pc'[p] = "dequeued"
              /\ \A q \in Procs \ {p} : pc'[q] = pc[q]
            BY <1>2, <2>3 DEF LWLockDequeueSelf, Goto, IInv, TypeOK
        <3>2. \A q \in Procs : OnList(q)' <=> OnList(q)
            BY <1>2, <2>1, <2>3, DequeueFacts DEF OnList
        <3>3. \A q \in Procs : Waiting(q)' <=> Waiting(q)
            BY <2>1, <3>1 DEF Waiting
        <3> QED
            BY <2>1, <3>1, <3>2, <3>3 DEF IInv, LinksSound
    <2> QED
        BY <2>2, <2>3
<1>3. ASSUME NEW p \in Procs, LWLockWakeup(p) PROVE LinksSound'
    <2>1. /\ UNCHANGED <<lwWaiting, target, sem>> /\ pc[p] = "wakeup" /\ pc'[p] = "waking"
          /\ \A q \in Procs \ {p} : pc'[q] = pc[q]
        BY <1>3 DEF LWLockWakeup, Goto, IInv, TypeOK, semVars
    <2>2. ASSUME NEW q \in Procs PROVE OnList(q)' <=> OnList(q)
        BY <1>3, WakeupFacts DEF OnList
    <2>3. \A q \in Procs : Waiting(q)' <=> Waiting(q)
        BY <2>1 DEF Waiting
    <2> QED
        BY <2>1, <2>2, <2>3 DEF IInv, LinksSound
<1>4. ASSUME NEW p \in Procs, ClearWaiting(p) PROVE LinksSound'
    <2> DEFINE t == target'[p]
    <2>1. /\ UNCHANGED <<waiters, sem>> /\ pc[p] = "waking" /\ pc'[p] = "post"
          /\ \A q \in Procs \ {p} : pc'[q] = pc[q]
          /\ target[p] = NoProc
        BY <1>4 DEF ClearWaiting, Goto, IInv, TypeOK, PlaceInv, listVars, semVars
    <2>2. t \in Procs /\ \A q \in Procs : lwWaiting'[q] = IF q = t THEN FALSE ELSE lwWaiting[q]
        BY <1>4, ClearFacts DEF IInv, TypeOK
    <2>3. \A q \in Procs : Waiting(q)' <=> Waiting(q)
        BY <2>1 DEF Waiting
    <2>4. ASSUME NEW q \in Procs, q # t PROVE OnList(q)' <=> OnList(q)
        BY <1>4, <2>1, <2>4, ClearFacts DEF OnList, Queued
    <2>5. \A q \in Procs : q = t => ~ OnList(q)'
        <3>1. t \in Members(wakeup[p]) /\ t \notin Members(wakeup'[p])
            BY <1>4, ClearFacts
        <3>2. t \notin Queued'
            BY <2>1, <3>1 DEF Queued, IInv, ListInv
        <3>3. ASSUME NEW q \in Procs, q # p PROVE t \notin Members(wakeup'[q])
            <4>1. wakeup'[q] = wakeup[q]
                BY <1>4, <3>3, ClearFacts
            <4> QED
                BY <3>1, <3>3, <4>1 DEF IInv, ListInv
        <3>4. \A q \in Procs : t \notin Members(wakeup'[q])
            BY <3>1, <3>3
        <3> HIDE DEF t
        <3> QED
            BY <3>2, <3>4 DEF OnList
    <2>6. \A q \in Procs : (\E r \in Procs : target[r] = q) => \E r \in Procs : target'[r] = q
        BY <1>4, <2>1, ClearFacts, LWLockAssumption
    <2> HIDE DEF t
    <2>7. \E r \in Procs : target'[r] = t
        BY DEF t
    <2>8. ASSUME NEW q \in Procs PROVE LinksSound!(q)'
        <3>1. CASE q = t
            BY <2>2, <2>5, <2>7, <3>1
        <3>2. CASE q # t
            <4>1. lwWaiting'[q] = lwWaiting[q] /\ sem'[q] = sem[q]
                BY <2>1, <2>2, <3>2
            <4> QED
                BY <2>3, <2>4, <2>6, <3>2, <4>1 DEF IInv, LinksSound
        <3> QED
            BY <3>1, <3>2
    <2> QED
        BY <2>8 DEF LinksSound
<1>5. ASSUME NEW p \in Procs, PGSemaphoreUnlock(p) PROVE LinksSound'
    <2> DEFINE t == target[p]
    <2>1. t \in Procs
        BY <1>5 DEF PGSemaphoreUnlock, IInv, TypeOK, PlaceInv
    <2>2. /\ UNCHANGED <<waiters, wakeup, lwWaiting>> /\ pc[p] = "post" /\ pc'[p] = "waking"
          /\ \A q \in Procs \ {p} : pc'[q] = pc[q] /\ target'[q] = target[q]
          /\ \A q \in Procs : sem'[q] = IF q = t THEN sem[q] + 1 ELSE sem[q]
        BY <1>5, <2>1 DEF PGSemaphoreUnlock, Goto, IInv, TypeOK, listVars
    <2>3. \A q \in Procs : sem[q] \in Nat
        BY DEF IInv, TypeOK
    <2>4. \A q \in Procs : OnList(q)' <=> OnList(q)
        BY <2>2 DEF OnList, Queued
    <2>5. \A q \in Procs : Waiting(q)' <=> Waiting(q)
        BY <2>2 DEF Waiting
    <2>6. ASSUME NEW q \in Procs, sem[q] > 0 \/ \E r \in Procs : target[r] = q
          PROVE  sem'[q] > 0 \/ \E r \in Procs : target'[r] = q
        BY <2>2, <2>3, <2>6
    <2> HIDE DEF t
    <2> QED
        BY <2>2, <2>4, <2>5, <2>6 DEF IInv, LinksSound
<1>6. ASSUME NEW p \in Procs, AwaitWakeup(p) PROVE LinksSound'
    <2>1. /\ UNCHANGED <<waiters, wakeup, lwWaiting, target>> /\ pc[p] = "dequeued_sleep"
          /\ \A q \in Procs \ {p} : pc'[q] = pc[q] /\ sem'[q] = sem[q]
        BY <1>6 DEF AwaitWakeup, AfterDequeue, Goto, IInv, TypeOK, listVars
    <2>2. \/ lwWaiting[p] /\ pc'[p] = pc[p]
          \/ ~lwWaiting[p] /\ pc'[p] \in {"give_up", "acquired"}
        BY <1>6 DEF AwaitWakeup, AfterDequeue, Goto, IInv, TypeOK
    <2>3. /\ Waiting(p)
          /\ \/ lwWaiting[p] /\ pc'[p] = pc[p]
             \/ ~lwWaiting[p] /\ ~Waiting(p)'
        BY <2>1, <2>2 DEF Waiting
    <2> QED
        BY <2>1, <2>3, TakenFrame
<1>7. ASSUME NEW p \in Procs, Sleep(p) PROVE LinksSound'
    <2>1. /\ UNCHANGED <<waiters, wakeup, lwWaiting, target>> /\ pc[p] = "sleep"
          /\ \A q \in Procs \ {p} : pc'[q] = pc[q] /\ sem'[q] = sem[q]
        BY <1>7 DEF Sleep, Goto, IInv, TypeOK, listVars
    <2>2. \/ lwWaiting[p] /\ pc'[p] = pc[p]
          \/ ~lwWaiting[p] /\ pc'[p] \in {"failed", "retry"}
        BY <1>7 DEF Sleep, Goto, IInv, TypeOK
    <2>3. /\ Waiting(p)
          /\ \/ lwWaiting[p] /\ pc'[p] = pc[p]
             \/ ~lwWaiting[p] /\ ~Waiting(p)'
        BY <2>1, <2>2 DEF Waiting
    <2> QED
        BY <2>1, <2>3, TakenFrame
<1>8. ASSUME NEW p \in Procs, AttemptExclusive(p) \/ ReadState(p) \/ AttemptShared(p)
      PROVE  LinksSound'
    <2>1. UNCHANGED <<waiters, wakeup, lwWaiting, target, sem>>
        BY <1>8, Attempts DEF listVars, semVars
    <2>2. \A q \in Procs : Waiting(q)' <=> Waiting(q)
        BY <1>8, Attempts DEF Waiting
    <2> QED
        BY <2>1, <2>2, LinksFrame
<1>9. ASSUME NEW p \in Procs, Return(p) PROVE LinksSound'
    <2>1. /\ UNCHANGED <<waiters, wakeup, lwWaiting, target>>
          /\ \A q \in Procs : Waiting(q)' <=> Waiting(q)
        BY <1>9 DEF Return, Goto, Waiting, IInv, TypeOK, listVars
    <2>2. \A q \in Procs : sem[q] > 0 => sem'[q] > 0
        BY <1>9 DEF Return, IInv, TypeOK
    <2> QED
        BY <2>1, <2>2, LinksFrame
<1>10. ASSUME NEW p \in Procs,
             \/ \E c \in Calls[p] : Start(p, c)
             \/ DequeuedByOther(p) \/ Retry(p) \/ GiveUp(p) \/ Timeout(p)
             \/ LWLockRelease(p) \/ LWLockDowngrade(p) \/ DowngradeCount(p)
             \/ WakeupDone(p)
      PROVE  LinksSound'
    <2>1. UNCHANGED <<waiters, wakeup, lwWaiting, target, sem>>
        BY <1>10 DEF Start, DequeuedByOther, Retry, GiveUp, Timeout, LWLockRelease,
           LWLockDowngrade, DowngradeCount, WakeupDone, listVars, semVars
    <2>2. \A q \in Procs : Waiting(q)' <=> Waiting(q)
        <3> USE DEF Goto, Waiting, IInv, TypeOK
        <3>1. CASE (\E c \in Calls[p] : Start(p, c)) \/ DequeuedByOther(p) \/ Retry(p)
            BY <3>1 DEF Start, DequeuedByOther, Retry
        <3>2. CASE GiveUp(p) \/ Timeout(p) \/ WakeupDone(p)
            BY <3>2 DEF GiveUp, Timeout, WakeupDone
        <3>3. CASE LWLockRelease(p) \/ LWLockDowngrade(p) \/ DowngradeCount(p)
            BY <3>3 DEF LWLockRelease, LWLockDowngrade, DowngradeCount
        <3> QED
            BY <1>10, <3>1, <3>2, <3>3
    <2> QED
        BY <2>1, <2>2, LinksFrame
<1>11. CASE UNCHANGED vars
    <2>1. UNCHANGED <<waiters, wakeup, lwWaiting, target, sem, pc>>
        BY <1>11 DEF vars, listVars, semVars
    <2>2. \A q \in Procs : Waiting(q)' <=> Waiting(q)
        BY <2>1 DEF Waiting
    <2> QED
        BY <2>1, <2>2, LinksFrame
<1> QED
    BY <1>1, <1>2, <1>3, <1>4, <1>5, <1>6, <1>7, <1>8, <1>9, <1>10, <1>11
       DEF Next, Acquire, Release

-----------------------------------------------------------------------------
(* Theorems                                                                *)

\* LWLockInitialize establishes the invariant.
LEMMA InitInv == Init => IInv
<1> SUFFICES ASSUME Init PROVE IInv
    OBVIOUS
<1> USE LWLockAssumption DEF Init
<1>1. TypeOK
    <2>1. waiters \in Seq(Procs) /\ wakeup \in [Procs -> Seq(Procs)]
        OBVIOUS
    <2>2. sem \in [Procs -> Nat] /\ old \in [Procs -> 0 .. MaxCount]
        OBVIOUS
    <2> QED
        BY <2>1, <2>2 DEF TypeOK, Labels
<1>2. PlaceInv
    BY DEF PlaceInv
<1>3. StateWordExact
    <2>1. \A b : Sharers(b) = {}
        BY DEF Sharers
    <2> QED
        <3>1. Cardinality({}) = 0 /\ 0 <= MaxCount
            BY FS_EmptySet
        <3> QED
            BY <2>1, <3>1 DEF StateWordExact
<1>4. Members(<<>>) = {} /\ Once(<<>>)
    BY DEF Members, Once
<1>5. ListInv
    BY <1>4 DEF ListInv, Queued
<1>6. LinksSound
    BY <1>4 DEF LinksSound, OnList, Queued, Waiting
<1> QED
    BY <1>1, <1>2, <1>3, <1>5, <1>6 DEF IInv

(***************************************************************************)
(* Every reachable state of the lock satisfies the inductive invariant: in *)
(* particular a PGPROC is on one list at most, and once.                   *)
(***************************************************************************)
THEOREM Invariance == Spec => []IInv
<1>1. IInv /\ [Next]_vars => IInv'
    BY TypeStep, PlaceStep, WordStep, ListStep, LinksStep DEF IInv
<1> QED
    BY InitInv, <1>1, PTL DEF Spec

(***************************************************************************)
(* Mutual exclusion, and no overflow of a byte: the state word is exact    *)
(* whatever the threads do between their reads and their swaps             *)
(* (LWLockAttemptLock, LWLockRelease, LWLockDowngrade).                    *)
(***************************************************************************)
THEOREM StateWordIsExact == Spec => []StateWordExact
<1>1. IInv => StateWordExact
    BY DEF IInv
<1> QED
    BY Invariance, <1>1, PTL

(***************************************************************************)
(* LWLockQueueSelf never meets a thread that still waits or whose link is  *)
(* in use, and a thread that has been taken off the list finds its wakeup  *)
(* (LWLockDequeueSelf, LWLockWakeup).                                      *)
(***************************************************************************)
THEOREM LinksAreSound == Spec => []LinksSound
<1>1. IInv => LinksSound
    BY DEF IInv
<1> QED
    BY Invariance, <1>1, PTL
=============================================================================
