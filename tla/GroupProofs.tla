----------------------------- MODULE GroupProofs -----------------------------
(***************************************************************************)
(* GroupClearXid serves every request exactly and loses no wakeup, for any *)
(* number of PGPROCs.                                                      *)
(***************************************************************************)
EXTENDS GroupClearXid, FiniteSetTheorems, TLAPS

\* Where a leader is that has released a member and not raised its semaphore.
Clearing == {"clearing_xid", "clearing_sub", "waking"}

\* Where a leader wakes everybody up.
Unrolling == {"releasing"} \cup Clearing

\* Where a leader is.
Leading == {"leading", "walking"} \cup Unrolling

\* p is on a list: it has pushed itself on it and was not taken off yet.
Queued(p) == member[p] /\ pc[p] \in {"waiting"} \cup Leading

(***************************************************************************)
(* own says for everybody on a list whose list it is.  Each list is linked *)
(* by procArrayGroupNext and ends with its leader, which found it empty.   *)
(* The list that still grows starts at procArrayGroupFirst, the detached   *)
(* ones where their leaders say; nobody else points there.  (That a leader *)
(* reaches everybody on its list is FollowerReleased.)                     *)
(***************************************************************************)
OwnInv(own) ==
    /\ \A q \in Procs : (own[q] # NoProc) <=> Queued(q)
    /\ \A q \in Procs : (own[q] = q) <=> (member[q] /\ pc[q] \in Leading)
    /\ \A q \in Procs : own[q] # NoProc => (next[q] = NoProc <=> own[q] = q)

LinkInv(own) ==
    /\ \A q \in Procs : next[q] # NoProc => own[q] # NoProc /\ own[next[q]] = own[q]
    /\ \A q, r \in Procs : next[q] # NoProc /\ next[q] = next[r] => q = r
    /\ \A q \in Procs : next[q] # NoProc => next[q] # first
    /\ \A p, q \in Procs : pc[p] = "walking" /\ next[q] # NoProc => next[q] # head[p]
    /\ \A p, q \in Procs : pc[p] \in Unrolling /\ next[q] # NoProc => next[q] # idx[p]

RootInv(own) ==
    /\ first # NoProc => own[first] # NoProc /\ pc[own[first]] = "leading"
    /\ \A p \in Procs :
          /\ pc[p] = "leading" => first # NoProc /\ own[first] = p /\ member[p]
          /\ pc[p] = "walking" =>
                /\ head[p] # NoProc /\ own[head[p]] = p /\ member[p]
                /\ idx[p] # NoProc => own[idx[p]] = p
          /\ pc[p] \in Unrolling =>
                IF idx[p] = NoProc THEN ~member[p] ELSE own[idx[p]] = p
          /\ pc[p] \in Clearing =>
                head[p] # NoProc /\ (head[p] = p => ~member[p])

\* What ProcArrayEndTransactionInternal or XidCacheRemoveRunningXids does for q.
Cleared(q) ==
    /\ request[q] = "top" => ~advertised[q]
    /\ strays[q] = 0 => completed[q] /\ ~subCached[q]

\* done are those of the detached lists that their leader's walk has passed;
\* what it passed is closed under procArrayGroupNext up to where it is.
DoneInv(own, done) ==
    /\ \A q \in done :
          /\ own[q] # NoProc /\ pc[own[q]] \in {"walking"} \cup Unrolling
          /\ Cleared(q)
          /\ next[q] # NoProc =>
                \/ next[q] \in done
                \/ pc[own[q]] = "walking" /\ next[q] = idx[own[q]]
          /\ strays[q] = 0 /\ request[q] = "top" =>
                IF pc[own[q]] = "walking" THEN hasXact[own[q]] ELSE published[q]
    /\ \A p \in Procs :
          /\ pc[p] = "walking" => head[p] = idx[p] \/ head[p] \in done
          /\ pc[p] \in Unrolling /\ idx[p] # NoProc => idx[p] \in done

ListInv ==
    \E own \in [Procs -> Procs \cup {NoProc}], done \in SUBSET Procs :
       OwnInv(own) /\ LinkInv(own) /\ RootInv(own) /\ DoneInv(own, done)

\* The fields of a PGPROC say what its session asks for, unless a leader that
\* is still busy with its last request has wiped them.
FieldInv ==
    \A p \in Procs :
       /\ pc[p] \in {"idle", "active"} <=> request[p] = "none"
       /\ request[p] = "sub" => p \in Subs
       /\ subCached[p] => p \in Subs
       /\ pc[p] = "removing" => request[p] = "sub"
       /\ pc[p] \in {"entering", "inserting"} => member[p]
       /\ (pc[p] = "inserting" \/ Queued(p)) /\ subLatest[p] => request[p] = "sub"
       /\ strays[p] = 0 =>
             /\ pc[p] = "removing" => memberXid[p] = "sub" /\ subLatest[p]
             /\ pc[p] = "entering" => memberXid[p] = request[p]
             /\ pc[p] = "inserting" \/ Queued(p) =>
                   memberXid[p] = request[p] /\ (request[p] = "sub" => subLatest[p])

\* A transaction that has not asked to end is in the proc array.
RunningInv ==
    \A p \in Procs :
       /\ pc[p] = "active" \/ request[p] = "sub"
       /\ p \in Subs => strays[p] = 0
       => advertised[p]

\* Whoever was released was served.
ReleasedInv ==
    \A p \in Procs :
       pc[p] = "returned" \/ (pc[p] \in {"waiting"} \cup Leading /\ ~member[p]) =>
          /\ Cleared(p)
          /\ strays[p] = 0 /\ request[p] = "top" => published[p]

IInv ==
    /\ TypeOK
    /\ ListInv
    /\ FieldInv
    /\ RunningInv
    /\ ReleasedInv
    /\ WakeupsBalance

(* Types                                                                   *)

\* The type invariant, variable by variable.
Types ==
    /\ advertised \in [Procs -> BOOLEAN] /\ subCached \in [Procs -> BOOLEAN]
    /\ completed \in [Procs -> BOOLEAN] /\ published \in [Procs -> BOOLEAN]
    /\ member \in [Procs -> BOOLEAN] /\ subLatest \in [Procs -> BOOLEAN]
    /\ hasXact \in [Procs -> BOOLEAN]
    /\ lockHolder \in Procs \cup {NoProc} /\ lockShared \in BOOLEAN
    /\ first \in Procs \cup {NoProc}
    /\ next \in [Procs -> Procs \cup {NoProc}]
    /\ idx \in [Procs -> Procs \cup {NoProc}]
    /\ head \in [Procs -> Procs \cup {NoProc}]
    /\ memberXid \in [Procs -> {"none", "top", "sub"}]
    /\ request \in [Procs -> {"none", "top", "sub"}]
    /\ sem \in [Procs -> Nat] /\ extraWaits \in [Procs -> Nat]
    /\ pc \in [Procs -> Pcs]
    /\ strays \in [Procs -> 0 .. 1]

LEMMA TypesOf == TypeOK <=> Types
BY DEF TypeOK, Types

\* A step either belongs to a PGPROC or is a reader's use of ProcArrayLock.
LEMMA Steps ==
    ASSUME [Next]_vars
    PROVE  \/ SharedAcquire \/ SharedRelease \/ UNCHANGED vars
           \/ \E p \in Procs :
                 \/ Begin(p) \/ BeginSub(p) \/ LeftoverWakeup(p) \/ Return(p)
                 \/ \E what \in {"top", "sub"} : Ask(p, what)
                 \/ EndAlone(p) \/ LockForSub(p) \/ RemoveAlone(p)
                 \/ SetMember(p) \/ SetSubFields(p) \/ Insert(p)
                 \/ Absorb(p) \/ Awake(p)
                 \/ Detach(p) \/ ClearMember(p) \/ Publish(p)
                 \/ ReleaseMember(p) \/ ClearMemberXid(p) \/ ClearSubFields(p)
                 \/ Wake(p) \/ Done(p)
BY DEF Next, Serve

LEMMA TypeStep ==
    ASSUME Types, [Next]_vars
    PROVE  Types'
<1> USE GroupAssumption
<1>1. CASE SharedAcquire
    BY <1>1 DEF Types, SharedAcquire, procVars, listVars, cacheVars, semVars, leaderVars
<1>2. CASE SharedRelease
    BY <1>2 DEF Types, SharedRelease, procVars, listVars, cacheVars, semVars, leaderVars
<1>3. CASE UNCHANGED vars
    BY <1>3 DEF Types, vars, procVars, lockVars, listVars, cacheVars, semVars, leaderVars
<1>4. ASSUME NEW p \in Procs,
             \/ Begin(p) \/ BeginSub(p) \/ LeftoverWakeup(p) \/ Return(p)
             \/ \E what \in {"top", "sub"} : Ask(p, what)
             \/ EndAlone(p) \/ LockForSub(p) \/ RemoveAlone(p)
      PROVE  Types'
    <2> USE DEF Types, Goto, Pcs, procVars, lockVars, listVars, cacheVars, semVars,
                leaderVars
    <2>1. CASE Begin(p)
        BY <2>1 DEF Begin
    <2>2. CASE BeginSub(p)
        BY <2>2 DEF BeginSub
    <2>3. CASE LeftoverWakeup(p)
        BY <2>3 DEF LeftoverWakeup
    <2>4. CASE Return(p)
        BY <2>4 DEF Return
    <2>5. CASE \E what \in {"top", "sub"} : Ask(p, what)
        BY <2>5 DEF Ask
    <2>6. CASE EndAlone(p)
        BY <2>6 DEF EndAlone, EndTransaction
    <2>7. CASE LockForSub(p)
        BY <2>7 DEF LockForSub
    <2>8. CASE RemoveAlone(p)
        BY <2>8 DEF RemoveAlone, RemoveRunningXids
    <2> QED
        BY <1>4, <2>1, <2>2, <2>3, <2>4, <2>5, <2>6, <2>7, <2>8
<1>5. ASSUME NEW p \in Procs,
             \/ SetMember(p) \/ SetSubFields(p) \/ Insert(p)
             \/ Absorb(p) \/ Awake(p)
      PROVE  Types'
    <2> USE DEF Types, Goto, Pcs, procVars, lockVars, listVars, cacheVars, semVars,
                leaderVars
    <2>1. CASE SetMember(p)
        BY <2>1 DEF SetMember
    <2>2. CASE SetSubFields(p)
        BY <2>2 DEF SetSubFields
    <2>3. CASE Insert(p)
        BY <2>3 DEF Insert
    <2>4. CASE Absorb(p)
        BY <2>4 DEF Absorb
    <2>5. CASE Awake(p)
        BY <2>5 DEF Awake
    <2> QED
        BY <1>5, <2>1, <2>2, <2>3, <2>4, <2>5
<1>6. ASSUME NEW p \in Procs,
             \/ Detach(p) \/ ClearMember(p) \/ Publish(p)
             \/ ReleaseMember(p) \/ ClearMemberXid(p) \/ ClearSubFields(p)
             \/ Wake(p) \/ Done(p)
      PROVE  Types'
    <2> USE DEF Types, Goto, Pcs, procVars, lockVars, listVars, cacheVars, semVars,
                leaderVars
    <2>1. CASE Detach(p)
        BY <2>1 DEF Detach
    <2>2. CASE ClearMember(p)
        <3> DEFINE m == idx[p]
        <3>1. m \in Procs
            BY <2>2 DEF ClearMember
        <3>2. /\ idx' = [idx EXCEPT ![p] = next[m]]
              /\ UNCHANGED <<published, head, pc, request, lockVars, listVars, cacheVars,
                            semVars>>
            BY <2>2 DEF ClearMember
        <3>3. CASE RemoveRunningXids(m) /\ UNCHANGED hasXact
            <4> HIDE DEF m
            <4> QED
                BY <3>1, <3>2, <3>3 DEF RemoveRunningXids
        <3>4. CASE /\ EndTransaction(m, memberXid[m] # "none")
                   /\ hasXact' = [hasXact EXCEPT ![p] = TRUE]
            <4> HIDE DEF m
            <4> QED
                BY <3>1, <3>2, <3>4 DEF EndTransaction
        <3> QED
            BY <2>2, <3>3, <3>4 DEF ClearMember
    <2>3. CASE Publish(p)
        BY <2>3 DEF Publish
    <2>4. CASE ReleaseMember(p)
        BY <2>4 DEF ReleaseMember
    <2>5. CASE ClearMemberXid(p)
        BY <2>5 DEF ClearMemberXid
    <2>6. CASE ClearSubFields(p)
        BY <2>6 DEF ClearSubFields
    <2>7. CASE Wake(p)
        <3> DEFINE m == head[p]
        <3>1. /\ pc' = [pc EXCEPT ![p] = "releasing"]
              /\ UNCHANGED <<procVars, lockVars, listVars, cacheVars, leaderVars, extraWaits,
                            strays, request>>
            BY <2>7 DEF Wake
        <3>2. sem' = [sem EXCEPT ![m] = sem[m] + (IF m = p THEN 0 ELSE 1)]
            BY <2>7 DEF Wake
        <3> DEFINE d == IF m = p THEN 0 ELSE 1
        <3>3. sem' \in [Procs -> Nat]
            <4>1. d \in Nat /\ sem' = [sem EXCEPT ![m] = sem[m] + d] /\ sem \in [Procs -> Nat]
                BY <3>2
            <4> HIDE DEF m, d
            <4>2. CASE m \in Procs
                BY <4>1, <4>2
            <4>3. CASE m \notin Procs
                BY <4>1, <4>3
            <4> QED
                BY <4>2, <4>3
        <3> QED
            BY <3>1, <3>3
    <2>8. CASE Done(p)
        BY <2>8 DEF Done
    <2> QED
        BY <1>6, <2>1, <2>2, <2>3, <2>4, <2>5, <2>6, <2>7, <2>8
<1> QED
    <2> HIDE DEF Types
    <2> QED
        BY <1>1, <1>2, <1>3, <1>4, <1>5, <1>6, Steps

-----------------------------------------------------------------------------
(* The lists                                                               *)

\* A step that moves nobody from or to a list and no leader along one, and
\* takes back nothing of what was done for those on a list.
SameLists ==
    /\ UNCHANGED <<next, first, idx, head, hasXact>>
    /\ \A q \in Procs :
          /\ Queued(q)' <=> Queued(q)
          /\ pc'[q] = "leading" <=> pc[q] = "leading"
          /\ pc'[q] = "walking" <=> pc[q] = "walking"
          /\ pc'[q] \in Unrolling <=> pc[q] \in Unrolling
          /\ pc'[q] \in Clearing => pc[q] \in Clearing
          /\ pc[q] \in Leading => member'[q] = member[q]
          /\ Queued(q) /\ Cleared(q) =>
                /\ Cleared(q)'
                /\ request'[q] = request[q]
                /\ strays'[q] = 0 => strays[q] = 0 /\ (published[q] => published'[q])

LEMMA SameListsKeep ==
    ASSUME Types, Types', ListInv, SameLists
    PROVE  ListInv'
<1>1. PICK own \in [Procs -> Procs \cup {NoProc}], done \in SUBSET Procs :
            OwnInv(own) /\ LinkInv(own) /\ RootInv(own) /\ DoneInv(own, done)
    BY DEF ListInv
<1>2. \A q \in Procs : pc'[q] \in Leading <=> pc[q] \in Leading
    BY DEF SameLists, Leading
<1>3. OwnInv(own)'
    BY <1>1, <1>2 DEF SameLists, OwnInv
<1>4. LinkInv(own)'
    BY <1>1 DEF SameLists, LinkInv
<1>5. RootInv(own)'
    <2>1. first' # NoProc => own[first'] # NoProc /\ pc'[own[first']] = "leading"
        BY <1>1 DEF SameLists, RootInv, Types
    <2>2. ASSUME NEW p \in Procs
          PROVE  /\ pc'[p] = "leading" => first' # NoProc /\ own[first'] = p /\ member'[p]
                 /\ pc'[p] = "walking" =>
                       /\ head'[p] # NoProc /\ own[head'[p]] = p /\ member'[p]
                       /\ idx'[p] # NoProc => own[idx'[p]] = p
        BY <1>1 DEF SameLists, RootInv, Leading
    <2>3. ASSUME NEW p \in Procs
          PROVE  /\ pc'[p] \in Unrolling =>
                       IF idx'[p] = NoProc THEN ~member'[p] ELSE own[idx'[p]] = p
                 /\ pc'[p] \in Clearing =>
                       head'[p] # NoProc /\ (head'[p] = p => ~member'[p])
        BY <1>1 DEF SameLists, RootInv, Leading, Unrolling
    <2> QED
        BY <2>1, <2>2, <2>3 DEF RootInv
<1>6. DoneInv(own, done)'
    <2>1. ASSUME NEW q \in done
          PROVE  /\ own[q] # NoProc /\ pc'[own[q]] \in {"walking"} \cup Unrolling
                 /\ Cleared(q)'
                 /\ next'[q] # NoProc =>
                       \/ next'[q] \in done
                       \/ pc'[own[q]] = "walking" /\ next'[q] = idx'[own[q]]
                 /\ strays'[q] = 0 /\ request'[q] = "top" =>
                       IF pc'[own[q]] = "walking" THEN hasXact'[own[q]] ELSE published'[q]
        <3>1. own[q] # NoProc /\ own[q] \in Procs /\ Queued(q) /\ Cleared(q)
            BY <1>1 DEF DoneInv, OwnInv
        <3> QED
            BY <1>1, <3>1 DEF SameLists, DoneInv
    <2>2. ASSUME NEW p \in Procs
          PROVE  /\ pc'[p] = "walking" => head'[p] = idx'[p] \/ head'[p] \in done
                 /\ pc'[p] \in Unrolling /\ idx'[p] # NoProc => idx'[p] \in done
        BY <1>1 DEF SameLists, DoneInv
    <2> QED
        BY <2>1, <2>2 DEF DoneInv
<1> QED
    BY <1>3, <1>4, <1>5, <1>6 DEF ListInv

\* Most steps are of that kind.
LEMMA StepsOnOneList ==
    ASSUME Types, NEW p \in Procs,
           \/ Begin(p) \/ BeginSub(p) \/ LeftoverWakeup(p) \/ Return(p)
           \/ \E what \in {"top", "sub"} : Ask(p, what)
           \/ EndAlone(p) \/ LockForSub(p) \/ RemoveAlone(p)
           \/ SetMember(p) \/ SetSubFields(p) \/ Absorb(p) \/ Awake(p)
           \/ ClearMemberXid(p) \/ ClearSubFields(p) \/ Wake(p)
    PROVE  SameLists
<1> USE DEF Types, Goto, procVars, lockVars, listVars, cacheVars, semVars, leaderVars,
            SameLists, Queued, Cleared, Leading, Unrolling, Clearing
<1>1. CASE Begin(p)
    BY <1>1 DEF Begin
<1>2. CASE BeginSub(p)
    BY <1>2 DEF BeginSub
<1>3. CASE LeftoverWakeup(p)
    BY <1>3 DEF LeftoverWakeup
<1>4. CASE Return(p)
    BY <1>4 DEF Return
<1>5. CASE \E what \in {"top", "sub"} : Ask(p, what)
    BY <1>5 DEF Ask
<1>6. CASE EndAlone(p)
    BY <1>6 DEF EndAlone, EndTransaction
<1>7. CASE LockForSub(p)
    BY <1>7 DEF LockForSub
<1>8. CASE RemoveAlone(p)
    BY <1>8 DEF RemoveAlone, RemoveRunningXids
<1>9. CASE SetMember(p)
    BY <1>9 DEF SetMember
<1>10. CASE SetSubFields(p)
    BY <1>10 DEF SetSubFields
<1>11. CASE Absorb(p)
    BY <1>11 DEF Absorb
<1>12. CASE Awake(p)
    BY <1>12 DEF Awake
<1>13. CASE ClearMemberXid(p)
    BY <1>13 DEF ClearMemberXid
<1>14. CASE ClearSubFields(p)
    BY <1>14 DEF ClearSubFields
<1>15. CASE Wake(p)
    BY <1>15 DEF Wake
<1> QED
    BY <1>1, <1>2, <1>3, <1>4, <1>5, <1>6, <1>7, <1>8, <1>9, <1>10, <1>11, <1>12, <1>13,
       <1>14, <1>15

\* A PGPROC pushes itself on the list that grows, or starts one.
LEMMA InsertLists ==
    ASSUME Types, Types', ListInv, NEW p \in Procs, Insert(p), member[p]
    PROVE  ListInv'
<1> USE GroupAssumption
<1>1. PICK own \in [Procs -> Procs \cup {NoProc}], done \in SUBSET Procs :
            OwnInv(own) /\ LinkInv(own) /\ RootInv(own) /\ DoneInv(own, done)
    BY DEF ListInv
<1>2. /\ pc[p] = "inserting"
      /\ next' = [next EXCEPT ![p] = first]
      /\ first' = p
      /\ pc' = [pc EXCEPT ![p] = IF first = NoProc THEN "leading" ELSE "waiting"]
      /\ UNCHANGED <<idx, head, hasXact, member, request, advertised, subCached, completed,
                    published, strays>>
    BY DEF Insert, Goto, procVars, cacheVars, semVars, leaderVars
<1>3. PICK o2 \in [Procs -> Procs \cup {NoProc}] :
            o2 = [own EXCEPT ![p] = IF first = NoProc THEN p ELSE own[first]]
    BY DEF Types
<1>4. /\ own[p] = NoProc /\ next[p] = NoProc
      /\ \A q \in Procs : q # p => o2[q] = own[q] /\ next'[q] = next[q] /\ pc'[q] = pc[q]
      /\ \A q \in Procs : next[q] # p /\ (next[q] # NoProc => own[next[q]] # NoProc)
      /\ o2[p] # NoProc /\ o2[p] = (IF first = NoProc THEN p ELSE own[first])
      /\ next'[p] = first /\ p # first
      /\ pc'[p] = (IF first = NoProc THEN "leading" ELSE "waiting")
    <2>1. own[p] = NoProc /\ next[p] = NoProc
        BY <1>1, <1>2 DEF OwnInv, LinkInv, Queued, Leading, Unrolling, Clearing
    <2>2. p # first
        BY <1>1, <2>1 DEF RootInv
    <2>3. \A q \in Procs : next[q] # p /\ (next[q] # NoProc => own[next[q]] # NoProc)
        BY <1>1, <2>1 DEF LinkInv
    <2>4. first # NoProc => own[first] # NoProc
        BY <1>1 DEF RootInv
    <2> QED
        BY <1>2, <1>3, <2>1, <2>2, <2>3, <2>4 DEF Types
<1>5. \A q \in Procs : q # p => (Queued(q)' <=> Queued(q))
    BY <1>2, <1>4 DEF Queued
<1>6. OwnInv(o2)'
    <2>1. ASSUME NEW q \in Procs, q # p
          PROVE  /\ o2[q] # NoProc <=> Queued(q)'
                 /\ o2[q] = q <=> member'[q] /\ pc'[q] \in Leading
                 /\ o2[q] # NoProc => (next'[q] = NoProc <=> o2[q] = q)
        BY <1>1, <1>2, <1>4, <1>5, <2>1 DEF OwnInv
    <2>2. first # NoProc => own[first] # p
        BY <1>1, <1>2, <1>4 DEF RootInv
    <2>3. /\ o2[p] # NoProc <=> Queued(p)'
          /\ o2[p] = p <=> member'[p] /\ pc'[p] \in Leading
          /\ o2[p] # NoProc => (next'[p] = NoProc <=> o2[p] = p)
        BY <1>2, <1>4, <2>2 DEF Queued, Leading, Unrolling, Clearing
    <2> QED
        BY <2>1, <2>3 DEF OwnInv
<1>7. LinkInv(o2)'
    <2>1. ASSUME NEW q \in Procs, next'[q] # NoProc
          PROVE  o2[q] # NoProc /\ o2[next'[q]] = o2[q] /\ next'[q] # first'
        <3>1. CASE q = p
            BY <1>2, <1>3, <1>4, <2>1, <3>1 DEF Types
        <3>2. CASE q # p
            BY <1>1, <1>2, <1>4, <2>1, <3>2 DEF LinkInv, Types
        <3> QED
            BY <3>1, <3>2
    <2>2. ASSUME NEW q \in Procs, NEW r \in Procs, next'[q] # NoProc, next'[q] = next'[r]
          PROVE  q = r
        BY <1>1, <1>4, <2>2 DEF LinkInv
    <2>3. \A r \in Procs : /\ pc[r] = "walking" => own[head[r]] = r /\ head[r] # NoProc
                           /\ pc[r] \in Unrolling => idx[r] = NoProc \/ own[idx[r]] = r
        BY <1>1 DEF RootInv
    <2>4. ASSUME NEW r \in Procs, NEW q \in Procs, pc'[r] = "walking", next'[q] # NoProc
          PROVE  next'[q] # head'[r]
        <3>1. r # p /\ pc[r] = "walking"
            BY <1>4, <2>4
        <3>2. CASE q = p
            BY <1>1, <1>2, <1>4, <2>3, <2>4, <3>1, <3>2 DEF RootInv, Types
        <3>3. CASE q # p
            BY <1>1, <1>2, <1>4, <2>4, <3>1, <3>3 DEF LinkInv
        <3> QED
            BY <3>2, <3>3
    <2>5. ASSUME NEW r \in Procs, NEW q \in Procs, pc'[r] \in Unrolling, next'[q] # NoProc
          PROVE  next'[q] # idx'[r]
        <3>1. r # p /\ pc[r] \in Unrolling
            BY <1>4, <2>5 DEF Unrolling, Clearing
        <3>2. CASE q = p
            BY <1>1, <1>2, <1>4, <2>3, <2>5, <3>1, <3>2 DEF RootInv, Types, Unrolling, Clearing
        <3>3. CASE q # p
            BY <1>1, <1>2, <1>4, <2>5, <3>1, <3>3 DEF LinkInv
        <3> QED
            BY <3>2, <3>3
    <2> QED
        BY <2>1, <2>2, <2>4, <2>5 DEF LinkInv
<1>8. RootInv(o2)'
    <2>1. first' # NoProc => o2[first'] # NoProc /\ pc'[o2[first']] = "leading"
        <3>1. CASE first = NoProc
            BY <1>2, <1>4, <3>1
        <3>2. CASE first # NoProc
            <4>1. own[first] # NoProc /\ own[first] \in Procs /\ pc[own[first]] = "leading"
                BY <1>1, <3>2 DEF RootInv, Types
            <4> QED
                BY <1>2, <1>4, <3>2, <4>1
        <3> QED
            BY <3>1, <3>2
    <2>2. ASSUME NEW r \in Procs, pc'[r] = "leading"
          PROVE  first' # NoProc /\ o2[first'] = r /\ member'[r]
        BY <1>1, <1>2, <1>4, <2>2 DEF RootInv
    <2>3. ASSUME NEW r \in Procs, pc'[r] = "walking"
          PROVE  /\ head'[r] # NoProc /\ o2[head'[r]] = r /\ member'[r]
                 /\ idx'[r] # NoProc => o2[idx'[r]] = r
        <3>1. r # p /\ pc[r] = "walking"
            BY <1>4, <2>3
        <3> QED
            BY <1>1, <1>2, <1>4, <3>1 DEF RootInv, Types
    <2>4. ASSUME NEW r \in Procs, pc'[r] \in Unrolling
          PROVE  /\ IF idx'[r] = NoProc THEN ~member'[r] ELSE o2[idx'[r]] = r
                 /\ pc'[r] \in Clearing =>
                       head'[r] # NoProc /\ (head'[r] = r => ~member'[r])
        <3>1. r # p /\ pc[r] \in Unrolling
            BY <1>4, <2>4 DEF Unrolling, Clearing
        <3> QED
            BY <1>1, <1>2, <1>4, <3>1 DEF RootInv, Types
    <2> QED
        BY <2>1, <2>2, <2>3, <2>4 DEF RootInv, Unrolling
<1>9. DoneInv(o2, done)'
    <2>1. ASSUME NEW q \in done
          PROVE  /\ o2[q] # NoProc /\ pc'[o2[q]] \in {"walking"} \cup Unrolling
                 /\ Cleared(q)'
                 /\ next'[q] # NoProc =>
                       \/ next'[q] \in done
                       \/ pc'[o2[q]] = "walking" /\ next'[q] = idx'[o2[q]]
                 /\ strays'[q] = 0 /\ request'[q] = "top" =>
                       IF pc'[o2[q]] = "walking" THEN hasXact'[o2[q]] ELSE published'[q]
        <3>1. own[q] # NoProc /\ own[q] \in Procs /\ q # p /\ Cleared(q)
            BY <1>1, <1>4 DEF DoneInv
        <3>2. own[q] # p
            BY <1>1, <1>2 DEF DoneInv, Unrolling, Clearing
        <3> QED
            BY <1>1, <1>2, <1>4, <3>1, <3>2 DEF DoneInv, Cleared
    <2>2. ASSUME NEW r \in Procs
          PROVE  /\ pc'[r] = "walking" => head'[r] = idx'[r] \/ head'[r] \in done
                 /\ pc'[r] \in Unrolling /\ idx'[r] # NoProc => idx'[r] \in done
        BY <1>1, <1>2, <1>4 DEF DoneInv, Unrolling, Clearing
    <2> QED
        BY <2>1, <2>2 DEF DoneInv
<1> QED
    BY <1>6, <1>7, <1>8, <1>9 DEF ListInv

\* The leader detaches its list.
LEMMA DetachLists ==
    ASSUME Types, Types', ListInv, NEW p \in Procs, Detach(p)
    PROVE  ListInv'
<1>1. PICK own \in [Procs -> Procs \cup {NoProc}], done \in SUBSET Procs :
            OwnInv(own) /\ LinkInv(own) /\ RootInv(own) /\ DoneInv(own, done)
    BY DEF ListInv
<1>2. /\ pc[p] = "leading"
      /\ first' = NoProc
      /\ pc' = [pc EXCEPT ![p] = "walking"]
      /\ head' = [head EXCEPT ![p] = first]
      /\ idx' = [idx EXCEPT ![p] = first]
      /\ hasXact' = [hasXact EXCEPT ![p] = FALSE]
      /\ UNCHANGED <<next, member, request, advertised, subCached, completed, published,
                    strays>>
    BY DEF Detach, Goto, procVars, cacheVars, semVars
<1>3. /\ \A q \in Procs : q # p => /\ pc'[q] = pc[q] /\ head'[q] = head[q]
                                   /\ idx'[q] = idx[q] /\ hasXact'[q] = hasXact[q]
      /\ pc'[p] = "walking" /\ head'[p] = first /\ idx'[p] = first
      /\ first # NoProc /\ own[first] = p /\ member[p]
    BY <1>1, <1>2 DEF Types, RootInv
<1>4. \A q \in Procs : /\ Queued(q)' <=> Queued(q)
                       /\ pc'[q] \in Leading <=> pc[q] \in Leading
                       /\ pc'[q] \in Unrolling <=> pc[q] \in Unrolling /\ q # p
    BY <1>2, <1>3 DEF Queued, Leading, Unrolling, Clearing
<1>5. OwnInv(own)'
    BY <1>1, <1>2, <1>4 DEF OwnInv
<1>6. LinkInv(own)'
    BY <1>1, <1>2, <1>3, <1>4 DEF LinkInv, Types
<1>7. RootInv(own)'
    <2>1. ASSUME NEW r \in Procs
          PROVE  /\ pc'[r] # "leading"
                 /\ pc'[r] = "walking" =>
                       /\ head'[r] # NoProc /\ own[head'[r]] = r /\ member'[r]
                       /\ idx'[r] # NoProc => own[idx'[r]] = r
        BY <1>1, <1>2, <1>3 DEF RootInv
    <2>2. ASSUME NEW r \in Procs, pc'[r] \in Unrolling
          PROVE  /\ IF idx'[r] = NoProc THEN ~member'[r] ELSE own[idx'[r]] = r
                 /\ pc'[r] \in Clearing =>
                       head'[r] # NoProc /\ (head'[r] = r => ~member'[r])
        BY <1>1, <1>2, <1>3, <1>4, <2>2 DEF RootInv
    <2> QED
        BY <1>2, <2>1, <2>2 DEF RootInv, Unrolling
<1>8. DoneInv(own, done)'
    <2>1. ASSUME NEW q \in done
          PROVE  /\ own[q] # NoProc /\ pc'[own[q]] \in {"walking"} \cup Unrolling
                 /\ Cleared(q)'
                 /\ next'[q] # NoProc =>
                       \/ next'[q] \in done
                       \/ pc'[own[q]] = "walking" /\ next'[q] = idx'[own[q]]
                 /\ strays'[q] = 0 /\ request'[q] = "top" =>
                       IF pc'[own[q]] = "walking" THEN hasXact'[own[q]] ELSE published'[q]
        <3>1. own[q] # NoProc /\ own[q] \in Procs /\ Cleared(q)
            BY <1>1 DEF DoneInv
        <3>2. own[q] # p
            BY <1>1, <1>2 DEF DoneInv, Unrolling, Clearing
        <3> QED
            BY <1>1, <1>2, <1>3, <3>1, <3>2 DEF DoneInv, Cleared
    <2>2. ASSUME NEW r \in Procs
          PROVE  /\ pc'[r] = "walking" => head'[r] = idx'[r] \/ head'[r] \in done
                 /\ pc'[r] \in Unrolling /\ idx'[r] # NoProc => idx'[r] \in done
        BY <1>1, <1>3, <1>4 DEF DoneInv
    <2> QED
        BY <2>1, <2>2 DEF DoneInv
<1> QED
    BY <1>5, <1>6, <1>7, <1>8 DEF ListInv

\* The leader's walk passes a member.
LEMMA ClearMemberLists ==
    ASSUME Types, Types', ListInv, FieldInv, NEW p \in Procs, ClearMember(p)
    PROVE  ListInv'
<1>0. PICK m \in Procs : m = idx[p]
    BY DEF ClearMember, Types
<1>1. PICK own \in [Procs -> Procs \cup {NoProc}], done \in SUBSET Procs :
            OwnInv(own) /\ LinkInv(own) /\ RootInv(own) /\ DoneInv(own, done)
    BY DEF ListInv
<1>2. /\ pc[p] = "walking"
      /\ m = idx[p] /\ m # NoProc
      /\ idx' = [idx EXCEPT ![p] = next[m]]
      /\ UNCHANGED <<first, next, head, pc, member, request, published, strays>>
    BY <1>0 DEF ClearMember, Types, listVars, cacheVars, semVars
<1>3. own[m] = p /\ Queued(m)
    BY <1>1, <1>2, GroupAssumption DEF RootInv, OwnInv
<1>4. /\ \A q \in Procs : Cleared(q) => Cleared(q)'
      /\ Cleared(m)'
      /\ \A q \in Procs : hasXact[q] => hasXact'[q]
      /\ strays[m] = 0 /\ request[m] = "top" => hasXact'[p]
    <2>1. CASE subLatest[m]
        <3>1. /\ request[m] = "sub"
              /\ strays[m] = 0 => memberXid[m] = "sub"
            BY <1>2, <1>3, <2>1 DEF FieldInv
        <3>2. RemoveRunningXids(m) /\ UNCHANGED hasXact
            BY <1>0, <2>1 DEF ClearMember
        <3>3. /\ \A q \in Procs : q # m => subCached'[q] = subCached[q] /\ completed'[q] = completed[q]
              /\ subCached'[m] = (subCached[m] /\ memberXid[m] # "sub")
              /\ completed'[m] = (completed[m] \/ subLatest[m])
              /\ UNCHANGED advertised
            BY <1>2, <3>2 DEF RemoveRunningXids, Types
        <3>4. Cleared(m)'
            BY <1>2, <2>1, <3>1, <3>3 DEF Cleared
        <3>5. ASSUME NEW q \in Procs, Cleared(q) PROVE Cleared(q)'
            <4>1. CASE q = m
                BY <3>4, <4>1
            <4>2. CASE q # m
                BY <1>2, <3>3, <3>5, <4>2 DEF Cleared
            <4> QED
                BY <4>1, <4>2
        <3> QED
            BY <3>1, <3>2, <3>4, <3>5
    <2>2. CASE ~subLatest[m]
        <3>1. /\ EndTransaction(m, memberXid[m] # "none")
              /\ hasXact' = [hasXact EXCEPT ![p] = TRUE]
            BY <1>0, <2>2 DEF ClearMember
        <3>2. strays[m] = 0 => memberXid[m] # "none"
            BY <1>2, <1>3 DEF FieldInv, Queued, Leading, Unrolling, Clearing
        <3>3. /\ \A q \in Procs : q # m => /\ subCached'[q] = subCached[q]
                                           /\ completed'[q] = completed[q]
                                           /\ advertised'[q] = advertised[q]
              /\ ~subCached'[m] /\ ~advertised'[m]
              /\ completed'[m] = (completed[m] \/ memberXid[m] # "none")
            BY <1>2, <3>1 DEF EndTransaction, Types
        <3>4. Cleared(m)'
            BY <1>2, <3>2, <3>3 DEF Cleared
        <3>5. ASSUME NEW q \in Procs, Cleared(q) PROVE Cleared(q)'
            <4>1. CASE q = m
                BY <3>4, <4>1
            <4>2. CASE q # m
                BY <1>2, <3>3, <3>5, <4>2 DEF Cleared
            <4> QED
                BY <4>1, <4>2
        <3>6. hasXact'[p] /\ \A q \in Procs : hasXact[q] => hasXact'[q]
            BY <3>1 DEF Types
        <3> QED
            BY <3>4, <3>5, <3>6
    <2> QED
        BY <2>1, <2>2
<1>5. PICK d2 \in SUBSET Procs : d2 = done \cup {m}
    BY <1>2
<1>6. idx'[p] = next[m] /\ \A q \in Procs : q # p => idx'[q] = idx[q]
    BY <1>2 DEF Types
<1>7. \A q \in Procs : Queued(q)' <=> Queued(q)
    BY <1>2 DEF Queued
<1>8. OwnInv(own)'
    BY <1>1, <1>2, <1>7 DEF OwnInv
<1>9. LinkInv(own)'
    BY <1>1, <1>2, <1>6 DEF LinkInv, Unrolling, Clearing
<1>10. RootInv(own)'
    <2>1. idx'[p] # NoProc => own[idx'[p]] = p
        BY <1>1, <1>2, <1>3, <1>6 DEF LinkInv
    <2> QED
        BY <1>1, <1>2, <1>6, <2>1 DEF RootInv, Unrolling, Clearing
<1>11. DoneInv(own, d2)'
    <2>1. ASSUME NEW q \in d2
          PROVE  /\ own[q] # NoProc /\ pc'[own[q]] \in {"walking"} \cup Unrolling
                 /\ Cleared(q)'
                 /\ next'[q] # NoProc =>
                       \/ next'[q] \in d2
                       \/ pc'[own[q]] = "walking" /\ next'[q] = idx'[own[q]]
                 /\ strays'[q] = 0 /\ request'[q] = "top" =>
                       IF pc'[own[q]] = "walking" THEN hasXact'[own[q]] ELSE published'[q]
        <3>1. CASE q = m
            <4>1. own[q] = p /\ pc'[p] = "walking" /\ own[q] # NoProc
                BY <1>2, <1>3, <3>1, GroupAssumption
            <4>2. Cleared(q)' /\ next'[q] = idx'[p]
                BY <1>2, <1>4, <1>6, <3>1
            <4>3. strays'[q] = 0 /\ request'[q] = "top" => hasXact'[p]
                BY <1>2, <1>4, <3>1
            <4> QED
                BY <4>1, <4>2, <4>3
        <3>2. CASE q \in done
            <4>1. own[q] # NoProc /\ own[q] \in Procs /\ Cleared(q)'
                BY <1>1, <1>4, <3>2 DEF DoneInv
            <4>2. next[q] # NoProc =>
                     \/ next[q] \in d2
                     \/ pc[own[q]] = "walking" /\ next[q] = idx'[own[q]]
                BY <1>1, <1>2, <1>5, <1>6, <3>2, <4>1 DEF DoneInv
            <4> QED
                BY <1>1, <1>2, <1>4, <3>2, <4>1, <4>2 DEF DoneInv
        <3> QED
            BY <1>5, <3>1, <3>2
    <2>2. ASSUME NEW r \in Procs
          PROVE  /\ pc'[r] = "walking" => head'[r] = idx'[r] \/ head'[r] \in d2
                 /\ pc'[r] \in Unrolling /\ idx'[r] # NoProc => idx'[r] \in d2
        BY <1>1, <1>2, <1>5, <1>6 DEF DoneInv, Unrolling, Clearing
    <2> QED
        BY <2>1, <2>2 DEF DoneInv
<1> QED
    BY <1>8, <1>9, <1>10, <1>11 DEF ListInv

\* The walk is over: everybody on the list was served and, if there was reason
\* to, a snapshot published.
LEMMA PublishLists ==
    ASSUME Types, Types', ListInv, NEW p \in Procs, Publish(p)
    PROVE  ListInv'
<1>1. PICK own \in [Procs -> Procs \cup {NoProc}], done \in SUBSET Procs :
            OwnInv(own) /\ LinkInv(own) /\ RootInv(own) /\ DoneInv(own, done)
    BY DEF ListInv
<1>2. /\ pc[p] = "walking" /\ idx[p] = NoProc
      /\ published' = (IF hasXact[p] THEN completed ELSE published)
      /\ idx' = [idx EXCEPT ![p] = head[p]]
      /\ hasXact' = [hasXact EXCEPT ![p] = FALSE]
      /\ pc' = [pc EXCEPT ![p] = "releasing"]
      /\ UNCHANGED <<first, next, head, member, request, advertised, subCached, completed,
                    strays>>
    BY DEF Publish, Goto, listVars, cacheVars, semVars
<1>3. /\ \A q \in Procs : q # p => pc'[q] = pc[q] /\ idx'[q] = idx[q] /\ hasXact'[q] = hasXact[q]
      /\ pc'[p] = "releasing" /\ idx'[p] = head[p]
      /\ head[p] # NoProc /\ own[head[p]] = p /\ member[p]
    BY <1>1, <1>2 DEF Types, RootInv
<1>4. /\ \A q \in Procs : /\ Queued(q)' <=> Queued(q)
                          /\ pc'[q] \in Leading <=> pc[q] \in Leading
                          /\ q # p => (pc'[q] \in Unrolling <=> pc[q] \in Unrolling)
                          /\ pc'[q] \in Clearing <=> pc[q] \in Clearing
      /\ pc'[p] \in Unrolling
    BY <1>2, <1>3 DEF Queued, Leading, Unrolling, Clearing
<1>5. OwnInv(own)'
    BY <1>1, <1>2, <1>4 DEF OwnInv
<1>6. LinkInv(own)'
    <2>1. ASSUME NEW r \in Procs, NEW q \in Procs, pc'[r] \in Unrolling, next'[q] # NoProc
          PROVE  next'[q] # idx'[r]
        BY <1>1, <1>2, <1>3, <1>4, <2>1 DEF LinkInv
    <2> QED
        BY <1>1, <1>2, <1>3, <2>1 DEF LinkInv
<1>7. RootInv(own)'
    <2>1. ASSUME NEW r \in Procs
          PROVE  /\ pc'[r] = "leading" => first' # NoProc /\ own[first'] = r /\ member'[r]
                 /\ pc'[r] = "walking" =>
                       /\ head'[r] # NoProc /\ own[head'[r]] = r /\ member'[r]
                       /\ idx'[r] # NoProc => own[idx'[r]] = r
        BY <1>1, <1>2, <1>3 DEF RootInv
    <2>2. ASSUME NEW r \in Procs, pc'[r] \in Unrolling
          PROVE  IF idx'[r] = NoProc THEN ~member'[r] ELSE own[idx'[r]] = r
        BY <1>1, <1>2, <1>3, <1>4, <2>2 DEF RootInv
    <2>3. ASSUME NEW r \in Procs, pc'[r] \in Clearing
          PROVE  head'[r] # NoProc /\ (head'[r] = r => ~member'[r])
        BY <1>1, <1>2, <1>4, <2>3 DEF RootInv
    <2>4. first' # NoProc => own[first'] # NoProc /\ pc'[own[first']] = "leading"
        BY <1>1, <1>2, <1>3 DEF RootInv, Types
    <2> QED
        BY <2>1, <2>2, <2>3, <2>4 DEF RootInv
<1>8. DoneInv(own, done)'
    <2>1. ASSUME NEW q \in done
          PROVE  /\ own[q] # NoProc /\ pc'[own[q]] \in {"walking"} \cup Unrolling
                 /\ Cleared(q)'
                 /\ next'[q] # NoProc =>
                       \/ next'[q] \in done
                       \/ pc'[own[q]] = "walking" /\ next'[q] = idx'[own[q]]
                 /\ strays'[q] = 0 /\ request'[q] = "top" =>
                       IF pc'[own[q]] = "walking" THEN hasXact'[own[q]] ELSE published'[q]
        <3>1. own[q] # NoProc /\ own[q] \in Procs /\ Cleared(q) /\ Cleared(q)'
            BY <1>1, <1>2 DEF DoneInv, Cleared
        <3>2. CASE own[q] = p
            BY <1>1, <1>2, <1>3, <1>4, <3>1, <3>2 DEF DoneInv, Cleared
        <3>3. CASE own[q] # p
            BY <1>1, <1>2, <1>3, <3>1, <3>3 DEF DoneInv, Cleared
        <3> QED
            BY <3>2, <3>3
    <2>2. ASSUME NEW r \in Procs
          PROVE  /\ pc'[r] = "walking" => head'[r] = idx'[r] \/ head'[r] \in done
                 /\ pc'[r] \in Unrolling /\ idx'[r] # NoProc => idx'[r] \in done
        BY <1>1, <1>2, <1>3, <1>4 DEF DoneInv
    <2> QED
        BY <2>1, <2>2 DEF DoneInv
<1> QED
    BY <1>5, <1>6, <1>7, <1>8 DEF ListInv

\* The leader takes a member off its list.
LEMMA ReleaseMemberLists ==
    ASSUME Types, Types', ListInv, NEW p \in Procs, ReleaseMember(p)
    PROVE  ListInv'
<1>0. PICK m \in Procs : m = idx[p]
    BY DEF ReleaseMember, Types
<1>1. PICK own \in [Procs -> Procs \cup {NoProc}], done \in SUBSET Procs :
            OwnInv(own) /\ LinkInv(own) /\ RootInv(own) /\ DoneInv(own, done)
    BY DEF ListInv
<1>2. /\ pc[p] = "releasing"
      /\ m = idx[p] /\ m # NoProc
      /\ head' = [head EXCEPT ![p] = m]
      /\ idx' = [idx EXCEPT ![p] = next[m]]
      /\ next' = [next EXCEPT ![m] = NoProc]
      /\ member' = [member EXCEPT ![m] = FALSE]
      /\ pc' = [pc EXCEPT ![p] = "clearing_xid"]
      /\ UNCHANGED <<first, hasXact, request, advertised, subCached, completed, published,
                    strays>>
    BY <1>0 DEF ReleaseMember, Goto, Types, procVars, semVars
<1>3. /\ own[m] = p /\ m \in done
      /\ \A q \in Procs : next[q] # m
    BY <1>1, <1>2 DEF RootInv, LinkInv, DoneInv, Unrolling
<1>4. PICK o2 \in [Procs -> Procs \cup {NoProc}] : o2 = [own EXCEPT ![m] = NoProc]
    OBVIOUS
<1>5. PICK d2 \in SUBSET Procs : d2 = done \ {m}
    OBVIOUS
<1>6. /\ \A q \in Procs : q # p => pc'[q] = pc[q] /\ idx'[q] = idx[q] /\ head'[q] = head[q]
      /\ pc'[p] = "clearing_xid" /\ idx'[p] = next[m] /\ head'[p] = m
      /\ \A q \in Procs : q # m => o2[q] = own[q] /\ next'[q] = next[q] /\ member'[q] = member[q]
      /\ o2[m] = NoProc /\ next'[m] = NoProc /\ ~member'[m]
    BY <1>2, <1>4 DEF Types
<1>7. /\ \A q \in Procs : /\ q # m => (Queued(q)' <=> Queued(q))
                          /\ pc'[q] \in Leading <=> pc[q] \in Leading
                          /\ pc'[q] \in Unrolling <=> pc[q] \in Unrolling
      /\ ~Queued(m)' /\ pc[p] \in Unrolling
    <2>1. /\ pc'[p] \in Leading /\ pc[p] \in Leading
          /\ pc'[p] \in Unrolling /\ pc[p] \in Unrolling
        BY <1>2, <1>6 DEF Leading, Unrolling, Clearing
    <2>2. \A q \in Procs : /\ pc'[q] \in Leading <=> pc[q] \in Leading
                           /\ pc'[q] \in Unrolling <=> pc[q] \in Unrolling
        BY <1>6, <2>1
    <2>3. \A q \in Procs : q # m => (Queued(q)' <=> Queued(q))
        <3>1. \A q \in Procs : pc'[q] = "waiting" <=> pc[q] = "waiting"
            BY <1>2, <1>6
        <3> QED
            BY <1>6, <2>2, <3>1 DEF Queued
    <2> QED
        BY <1>2, <1>6, <2>1, <2>2, <2>3 DEF Queued
<1>8. OwnInv(o2)'
    <2>1. ASSUME NEW q \in Procs
          PROVE  /\ o2[q] # NoProc <=> Queued(q)'
                 /\ o2[q] = q <=> member'[q] /\ pc'[q] \in Leading
                 /\ o2[q] # NoProc => (next'[q] = NoProc <=> o2[q] = q)
        <3>1. CASE q = m
            BY <1>2, <1>6, <1>7, <3>1
        <3>2. CASE q # m
            BY <1>1, <1>6, <1>7, <3>2 DEF OwnInv
        <3> QED
            BY <3>1, <3>2
    <2> QED
        BY <2>1 DEF OwnInv
<1>9. LinkInv(o2)'
    <2>1. ASSUME NEW q \in Procs, next'[q] # NoProc
          PROVE  o2[q] # NoProc /\ o2[next'[q]] = o2[q] /\ next'[q] # first'
        BY <1>1, <1>2, <1>3, <1>6, <2>1 DEF LinkInv, Types
    <2>2. ASSUME NEW q \in Procs, NEW r \in Procs, next'[q] # NoProc, next'[q] = next'[r]
          PROVE  q = r
        BY <1>1, <1>6, <2>2 DEF LinkInv
    <2>3. ASSUME NEW r \in Procs, NEW q \in Procs, pc'[r] = "walking", next'[q] # NoProc
          PROVE  next'[q] # head'[r]
        BY <1>1, <1>6, <2>3 DEF LinkInv
    <2>4. ASSUME NEW r \in Procs, NEW q \in Procs, pc'[r] \in Unrolling, next'[q] # NoProc
          PROVE  next'[q] # idx'[r]
        <3>1. q # m /\ next'[q] = next[q] /\ pc[r] \in Unrolling
            BY <1>6, <1>7, <2>4
        <3>2. CASE r = p
            BY <1>1, <1>2, <1>6, <2>4, <3>1, <3>2 DEF LinkInv
        <3>3. CASE r # p
            BY <1>1, <1>6, <2>4, <3>1, <3>3 DEF LinkInv
        <3> QED
            BY <3>2, <3>3
    <2> QED
        BY <2>1, <2>2, <2>3, <2>4 DEF LinkInv
<1>10. RootInv(o2)'
    <2>1. first # NoProc => first # m
        BY <1>1, <1>2, <1>3 DEF RootInv
    <2>2. first' # NoProc => o2[first'] # NoProc /\ pc'[o2[first']] = "leading"
        <3>1. first # NoProc => own[first] \in Procs /\ own[first] # p
            BY <1>1, <1>2 DEF RootInv, Types
        <3> QED
            BY <1>1, <1>2, <1>6, <2>1, <3>1 DEF RootInv, Types
    <2>3. ASSUME NEW r \in Procs
          PROVE  /\ pc'[r] = "leading" => first' # NoProc /\ o2[first'] = r /\ member'[r]
                 /\ pc'[r] = "walking" =>
                       /\ head'[r] # NoProc /\ o2[head'[r]] = r /\ member'[r]
                       /\ idx'[r] # NoProc => o2[idx'[r]] = r
        <3>1. CASE r = p
            BY <1>6, <3>1
        <3>2. CASE r # p
            <4>1. pc[r] \in {"leading", "walking"} => r # m
                BY <1>1, <1>3, <3>2 DEF RootInv, OwnInv, Leading
            <4> QED
                BY <1>1, <1>2, <1>3, <1>6, <2>1, <3>2, <4>1 DEF RootInv, Types
        <3> QED
            BY <3>1, <3>2
    <2>4. ASSUME NEW r \in Procs, pc'[r] \in Unrolling
          PROVE  IF idx'[r] = NoProc THEN ~member'[r] ELSE o2[idx'[r]] = r
        <3>1. CASE r = p
            <4>1. CASE next[m] = NoProc
                <5>1. own[m] = m
                    BY <1>1, <1>3, <4>1, GroupAssumption DEF OwnInv
                <5> QED
                    BY <1>3, <1>6, <3>1, <4>1, <5>1
            <4>2. CASE next[m] # NoProc
                BY <1>1, <1>2, <1>3, <1>6, <3>1, <4>2 DEF LinkInv, Types
            <4> QED
                BY <4>1, <4>2
        <3>2. CASE r # p
            <4>1. pc[r] \in Unrolling /\ idx[r] # m
                BY <1>1, <1>2, <1>3, <1>7, <2>4, <3>2 DEF RootInv
            <4> QED
                BY <1>1, <1>6, <2>4, <3>2, <4>1 DEF RootInv, Types
        <3> QED
            BY <3>1, <3>2
    <2>5. ASSUME NEW r \in Procs, pc'[r] \in Clearing
          PROVE  head'[r] # NoProc /\ (head'[r] = r => ~member'[r])
        BY <1>1, <1>2, <1>6, <2>5 DEF RootInv
    <2> QED
        BY <2>2, <2>3, <2>4, <2>5 DEF RootInv
<1>11. DoneInv(o2, d2)'
    <2>1. ASSUME NEW q \in d2
          PROVE  /\ o2[q] # NoProc /\ pc'[o2[q]] \in {"walking"} \cup Unrolling
                 /\ Cleared(q)'
                 /\ next'[q] # NoProc =>
                       \/ next'[q] \in d2
                       \/ pc'[o2[q]] = "walking" /\ next'[q] = idx'[o2[q]]
                 /\ strays'[q] = 0 /\ request'[q] = "top" =>
                       IF pc'[o2[q]] = "walking" THEN hasXact'[o2[q]] ELSE published'[q]
        <3>1. q \in done /\ q # m /\ own[q] # NoProc /\ own[q] \in Procs /\ Cleared(q)
            BY <1>1, <1>5 DEF DoneInv
        <3>2. Cleared(q)'
            BY <1>2, <3>1 DEF Cleared
        <3>3. /\ pc'[own[q]] = "walking" <=> pc[own[q]] = "walking"
              /\ pc'[own[q]] = "walking" => idx'[own[q]] = idx[own[q]]
            BY <1>2, <1>6, <3>1
        <3> QED
            BY <1>1, <1>2, <1>3, <1>5, <1>6, <1>7, <3>1, <3>2, <3>3 DEF DoneInv
    <2>2. ASSUME NEW r \in Procs, pc'[r] = "walking"
          PROVE  head'[r] = idx'[r] \/ head'[r] \in d2
        <3>1. r # p /\ pc[r] = "walking" /\ head[r] # m
            BY <1>1, <1>3, <1>6, <2>2 DEF RootInv
        <3> QED
            BY <1>1, <1>5, <1>6, <3>1 DEF DoneInv
    <2>3. ASSUME NEW r \in Procs, pc'[r] \in Unrolling, idx'[r] # NoProc
          PROVE  idx'[r] \in d2
        <3>1. CASE r = p
            BY <1>1, <1>2, <1>3, <1>5, <1>6, <2>3, <3>1 DEF DoneInv
        <3>2. CASE r # p
            <4>1. pc[r] \in Unrolling /\ idx[r] # m
                BY <1>1, <1>2, <1>3, <1>7, <2>3, <3>2 DEF RootInv
            <4> QED
                BY <1>1, <1>5, <1>6, <2>3, <3>2, <4>1 DEF DoneInv
        <3> QED
            BY <3>1, <3>2
    <2> QED
        BY <2>1, <2>2, <2>3 DEF DoneInv
<1> QED
    BY <1>8, <1>9, <1>10, <1>11 DEF ListInv

\* The leader leaves.
LEMMA DoneLists ==
    ASSUME Types, Types', ListInv, NEW p \in Procs, Done(p)
    PROVE  ListInv'
<1>1. PICK own \in [Procs -> Procs \cup {NoProc}], done \in SUBSET Procs :
            OwnInv(own) /\ LinkInv(own) /\ RootInv(own) /\ DoneInv(own, done)
    BY DEF ListInv
<1>2. /\ pc[p] = "releasing" /\ idx[p] = NoProc
      /\ head' = [head EXCEPT ![p] = NoProc]
      /\ pc' = [pc EXCEPT ![p] = "returned"]
      /\ UNCHANGED <<first, next, idx, hasXact, member, request, advertised, subCached,
                    completed, published, strays>>
    BY DEF Done, Goto, procVars, listVars, cacheVars, semVars
<1>3. PICK d2 \in SUBSET Procs : d2 = {q \in done : own[q] # p}
    OBVIOUS
<1>4. /\ \A q \in Procs : q # p => pc'[q] = pc[q] /\ head'[q] = head[q]
      /\ pc'[p] = "returned" /\ ~member[p]
    BY <1>1, <1>2 DEF Types, RootInv, Unrolling
<1>5. /\ \A q \in Procs : /\ Queued(q)' <=> Queued(q)
                          /\ member[q] => (pc'[q] \in Leading <=> pc[q] \in Leading)
                          /\ pc'[q] \in Unrolling <=> pc[q] \in Unrolling /\ q # p
                          /\ pc'[q] \in Clearing <=> pc[q] \in Clearing /\ q # p
    BY <1>2, <1>4 DEF Queued, Leading, Unrolling, Clearing
<1>6. OwnInv(own)'
    BY <1>1, <1>2, <1>5 DEF OwnInv
<1>7. LinkInv(own)'
    BY <1>1, <1>2, <1>4, <1>5 DEF LinkInv
<1>8. RootInv(own)'
    <2>1. ASSUME NEW r \in Procs
          PROVE  /\ pc'[r] = "leading" => first' # NoProc /\ own[first'] = r /\ member'[r]
                 /\ pc'[r] = "walking" =>
                       /\ head'[r] # NoProc /\ own[head'[r]] = r /\ member'[r]
                       /\ idx'[r] # NoProc => own[idx'[r]] = r
        BY <1>1, <1>2, <1>4 DEF RootInv
    <2>2. ASSUME NEW r \in Procs
          PROVE  /\ pc'[r] \in Unrolling =>
                       IF idx'[r] = NoProc THEN ~member'[r] ELSE own[idx'[r]] = r
                 /\ pc'[r] \in Clearing =>
                       head'[r] # NoProc /\ (head'[r] = r => ~member'[r])
        BY <1>1, <1>2, <1>4, <1>5 DEF RootInv
    <2>3. first' # NoProc => own[first'] # NoProc /\ pc'[own[first']] = "leading"
        BY <1>1, <1>2, <1>4 DEF RootInv, Types
    <2> QED
        BY <2>1, <2>2, <2>3 DEF RootInv
<1>9. DoneInv(own, d2)'
    <2>1. ASSUME NEW q \in d2
          PROVE  /\ own[q] # NoProc /\ pc'[own[q]] \in {"walking"} \cup Unrolling
                 /\ Cleared(q)'
                 /\ next'[q] # NoProc =>
                       \/ next'[q] \in d2
                       \/ pc'[own[q]] = "walking" /\ next'[q] = idx'[own[q]]
                 /\ strays'[q] = 0 /\ request'[q] = "top" =>
                       IF pc'[own[q]] = "walking" THEN hasXact'[own[q]] ELSE published'[q]
        <3>1. q \in done /\ own[q] # p /\ own[q] # NoProc /\ own[q] \in Procs /\ Cleared(q)
            BY <1>1, <1>3 DEF DoneInv
        <3>2. Cleared(q)'
            BY <1>2, <3>1 DEF Cleared
        <3>3. next[q] # NoProc => own[next[q]] = own[q]
            BY <1>1 DEF LinkInv
        <3> QED
            BY <1>1, <1>2, <1>3, <1>4, <3>1, <3>2, <3>3 DEF DoneInv
    <2>2. ASSUME NEW r \in Procs
          PROVE  /\ pc'[r] = "walking" => head'[r] = idx'[r] \/ head'[r] \in d2
                 /\ pc'[r] \in Unrolling /\ idx'[r] # NoProc => idx'[r] \in d2
        BY <1>1, <1>2, <1>3, <1>4, <1>5 DEF DoneInv, RootInv
    <2> QED
        BY <2>1, <2>2 DEF DoneInv
<1> QED
    BY <1>6, <1>7, <1>8, <1>9 DEF ListInv

\* What the lists say about one leader.
LEMMA LeaderFacts ==
    ASSUME Types, ListInv, NEW p \in Procs
    PROVE  /\ pc[p] \in {"leading", "walking"} => member[p]
           /\ pc[p] = "walking" /\ idx[p] # NoProc => Queued(idx[p])
           /\ pc[p] = "releasing" /\ idx[p] # NoProc =>
                 /\ Queued(idx[p])
                 /\ idx[p] # p => pc[idx[p]] = "waiting"
                 /\ Cleared(idx[p])
                 /\ strays[idx[p]] = 0 /\ request[idx[p]] = "top" => published[idx[p]]
           /\ pc[p] = "releasing" /\ idx[p] = NoProc => ~member[p]
           /\ pc[p] \in Clearing =>
                 head[p] # NoProc /\ (head[p] = p => ~member[p])
<1> USE GroupAssumption
<1>1. PICK own \in [Procs -> Procs \cup {NoProc}], done \in SUBSET Procs :
            OwnInv(own) /\ LinkInv(own) /\ RootInv(own) /\ DoneInv(own, done)
    BY DEF ListInv
<1>2. pc[p] \in {"leading", "walking"} => member[p]
    BY <1>1 DEF RootInv
<1>3. pc[p] = "walking" /\ idx[p] # NoProc => Queued(idx[p])
    BY <1>1 DEF RootInv, OwnInv, Types
<1>4. ASSUME pc[p] = "releasing", idx[p] # NoProc
      PROVE  /\ Queued(idx[p])
             /\ idx[p] # p => pc[idx[p]] = "waiting"
             /\ Cleared(idx[p])
             /\ strays[idx[p]] = 0 /\ request[idx[p]] = "top" => published[idx[p]]
    <2>1. PICK m \in Procs : m = idx[p]
        BY <1>4 DEF Types
    <2>2. own[m] = p /\ m \in done
        BY <1>1, <1>4, <2>1 DEF RootInv, DoneInv, Unrolling
    <2>3. Queued(m) /\ Cleared(m) /\ (strays[m] = 0 /\ request[m] = "top" => published[m])
        BY <1>1, <1>4, <2>2 DEF OwnInv, DoneInv
    <2>4. m # p => pc[m] = "waiting"
        BY <1>1, <2>2, <2>3 DEF OwnInv, Queued
    <2> QED
        BY <2>1, <2>3, <2>4
<1>5. /\ pc[p] = "releasing" /\ idx[p] = NoProc => ~member[p]
      /\ pc[p] \in Clearing => head[p] # NoProc /\ (head[p] = p => ~member[p])
    BY <1>1 DEF RootInv, Unrolling
<1> QED
    BY <1>2, <1>3, <1>4, <1>5

-----------------------------------------------------------------------------
(* Wakeups                                                                 *)

\* Owing is a finite set.
LEMMA OwingFinite ==
    ASSUME NEW x \in Procs
    PROVE  IsFiniteSet(Owing(x)) /\ Cardinality(Owing(x)) \in Nat
<1>1. IsFiniteSet(Owing(x))
    <2>1. Owing(x) \subseteq Procs
        BY DEF Owing
    <2> QED
        BY <2>1, FS_Subset, GroupAssumption
<1> QED
    BY <1>1, FS_CardinalityType

\* As long as a leader owes a wakeup to a PGPROC that never had a stray one,
\* this PGPROC sleeps.
LEMMA OwedSleeps ==
    ASSUME Types, WakeupsBalance, NEW q \in Procs, NEW x \in Procs,
           pc[q] \in Clearing, head[q] = x, x # q, strays[x] = 0
    PROVE  pc[x] = "waiting" /\ ~member[x]
<1>1. q \in Owing(x)
    BY DEF Owing, Clearing
<1>2. Cardinality(Owing(x)) # 0 /\ Cardinality(Owing(x)) \in Nat
    BY <1>1, OwingFinite, FS_EmptySet
<1>3. sem[x] \in Nat /\ extraWaits[x] \in Nat
    BY DEF Types
<1>4. sem[x] + extraWaits[x] + Cardinality(Owing(x))
          = strays[x] + (IF pc[x] = "waiting" /\ ~member[x] THEN 1 ELSE 0)
    BY DEF WakeupsBalance
<1> QED
    BY <1>2, <1>3, <1>4

\* A step that neither raises nor uses a semaphore and releases nobody.
SameWakeups ==
    /\ UNCHANGED <<sem, extraWaits, strays>>
    /\ \A q \in Procs :
          /\ pc'[q] \in Clearing <=> pc[q] \in Clearing
          /\ pc[q] \in Clearing => head'[q] = head[q]
          /\ (pc'[q] = "waiting" /\ ~member'[q]) <=> (pc[q] = "waiting" /\ ~member[q])

\* What leaders owe depends on where they are and whom they release.
LEMMA SameOwing ==
    ASSUME \A q \in Procs : /\ pc'[q] \in Clearing <=> pc[q] \in Clearing
                            /\ pc[q] \in Clearing => head'[q] = head[q]
    PROVE  \A x \in Procs : Owing(x)' = Owing(x)
<1> TAKE x \in Procs
<1>1. Owing(x) = {q \in Procs \ {x} : head[q] = x /\ pc[q] \in Clearing}
    BY DEF Owing, Clearing
<1>2. Owing(x)' = {q \in Procs \ {x} : head'[q] = x /\ pc'[q] \in Clearing}
    BY DEF Owing, Clearing
<1> QED
    BY <1>1, <1>2

LEMMA SameWakeupsKeep ==
    ASSUME WakeupsBalance, SameWakeups
    PROVE  WakeupsBalance'
<1>1. \A x \in Procs : Owing(x)' = Owing(x)
    BY SameOwing DEF SameWakeups
<1>2. ASSUME NEW x \in Procs
      PROVE  sem'[x] + extraWaits'[x] + Cardinality(Owing(x)')
                = strays'[x] + (IF pc'[x] = "waiting" /\ ~member'[x] THEN 1 ELSE 0)
    BY <1>1 DEF WakeupsBalance, SameWakeups
<1> QED
    BY <1>2 DEF WakeupsBalance

\* Most steps are of that kind ...
LEMMA StepsWithoutWakeup ==
    ASSUME Types, ListInv, FieldInv, NEW p \in Procs,
           \/ Begin(p) \/ BeginSub(p) \/ Return(p)
           \/ \E what \in {"top", "sub"} : Ask(p, what)
           \/ EndAlone(p) \/ LockForSub(p) \/ RemoveAlone(p)
           \/ SetMember(p) \/ SetSubFields(p) \/ Insert(p)
           \/ Detach(p) \/ ClearMember(p) \/ Publish(p)
           \/ ClearMemberXid(p) \/ ClearSubFields(p) \/ Done(p)
    PROVE  SameWakeups
<1> USE DEF Types, Goto, procVars, lockVars, listVars, cacheVars, semVars, leaderVars,
            SameWakeups, Clearing
<1>1. CASE Begin(p)
    BY <1>1 DEF Begin
<1>2. CASE BeginSub(p)
    BY <1>2 DEF BeginSub
<1>3. CASE Return(p)
    BY <1>3 DEF Return
<1>4. CASE \E what \in {"top", "sub"} : Ask(p, what)
    BY <1>4 DEF Ask
<1>5. CASE EndAlone(p)
    BY <1>5 DEF EndAlone, EndTransaction
<1>6. CASE LockForSub(p)
    BY <1>6 DEF LockForSub
<1>7. CASE RemoveAlone(p)
    BY <1>7 DEF RemoveAlone, RemoveRunningXids
<1>8. CASE SetMember(p)
    BY <1>8 DEF SetMember
<1>9. CASE SetSubFields(p)
    BY <1>9 DEF SetSubFields
<1>10. CASE Insert(p)
    <2>1. member[p]
        BY <1>10 DEF Insert, FieldInv
    <2> QED
        BY <1>10, <2>1 DEF Insert
<1>11. CASE Detach(p)
    BY <1>11 DEF Detach
<1>12. CASE ClearMember(p)
    BY <1>12 DEF ClearMember
<1>13. CASE Publish(p)
    BY <1>13 DEF Publish
<1>14. CASE ClearMemberXid(p)
    BY <1>14 DEF ClearMemberXid
<1>15. CASE ClearSubFields(p)
    BY <1>15 DEF ClearSubFields
<1>16. CASE Done(p)
    BY <1>16 DEF Done
<1> QED
    BY <1>1, <1>2, <1>3, <1>4, <1>5, <1>6, <1>7, <1>8, <1>9, <1>10, <1>11, <1>12, <1>13,
       <1>14, <1>15, <1>16

\* ... and the others keep the balance.
LEMMA WakeupStep ==
    ASSUME Types, Types', ListInv, FieldInv, WakeupsBalance, [Next]_vars
    PROVE  WakeupsBalance'
<1>1. SUFFICES ASSUME NEW p \in Procs,
                      \/ LeftoverWakeup(p) \/ Absorb(p) \/ Awake(p)
                      \/ ReleaseMember(p) \/ Wake(p)
               PROVE  WakeupsBalance'
    <2>1. CASE SharedAcquire \/ SharedRelease \/ UNCHANGED vars
        <3>1. SameWakeups
            BY <2>1 DEF SharedAcquire, SharedRelease, vars, procVars, lockVars, listVars,
               cacheVars, semVars, leaderVars, SameWakeups
        <3> QED
            BY <3>1, SameWakeupsKeep
    <2> QED
        BY <2>1, Steps, StepsWithoutWakeup, SameWakeupsKeep
<1>2. \A x \in Procs :
         /\ sem[x] \in Nat /\ extraWaits[x] \in Nat /\ strays[x] \in Nat
         /\ IsFiniteSet(Owing(x)) /\ Cardinality(Owing(x)) \in Nat
         /\ sem[x] + extraWaits[x] + Cardinality(Owing(x))
               = strays[x] + (IF pc[x] = "waiting" /\ ~member[x] THEN 1 ELSE 0)
    BY OwingFinite DEF Types, WakeupsBalance
<1>3. CASE LeftoverWakeup(p) \/ Absorb(p) \/ Awake(p)
    <2>1. \A x \in Procs : Owing(x)' = Owing(x)
        <3>1. \A q \in Procs : /\ pc'[q] \in Clearing <=> pc[q] \in Clearing
                               /\ pc[q] \in Clearing => head'[q] = head[q]
            BY <1>3 DEF LeftoverWakeup, Absorb, Awake, Goto, leaderVars, Clearing, Types
        <3> QED
            BY <3>1, SameOwing
    <2>2. ASSUME NEW x \in Procs
          PROVE  sem'[x] + extraWaits'[x] + Cardinality(Owing(x))
                    = strays'[x] + (IF pc'[x] = "waiting" /\ ~member'[x] THEN 1 ELSE 0)
        <3>1. CASE LeftoverWakeup(p)
            BY <1>2, <3>1 DEF LeftoverWakeup, cacheVars, Types
        <3>2. CASE Absorb(p)
            BY <1>2, <3>2 DEF Absorb, cacheVars, Types
        <3>3. CASE Awake(p)
            BY <1>2, <3>3 DEF Awake, Goto, cacheVars, Types
        <3> QED
            BY <1>3, <3>1, <3>2, <3>3
    <2> QED
        BY <2>1, <2>2 DEF WakeupsBalance
<1>4. CASE ReleaseMember(p)
    <2>1. PICK m \in Procs : m = idx[p]
        BY <1>4 DEF ReleaseMember, Types
    <2>2. /\ pc[p] = "releasing" /\ m # NoProc
          /\ head' = [head EXCEPT ![p] = m]
          /\ member' = [member EXCEPT ![m] = FALSE]
          /\ pc' = [pc EXCEPT ![p] = "clearing_xid"]
          /\ UNCHANGED <<sem, extraWaits, strays>>
        BY <1>4, <2>1 DEF ReleaseMember, Goto, semVars
    <2>3. member[m] /\ (m # p => pc[m] = "waiting")
        BY <2>1, <2>2, LeaderFacts DEF Queued
    <2>4. /\ \A q \in Procs : q # p => pc'[q] = pc[q] /\ head'[q] = head[q]
          /\ pc'[p] = "clearing_xid" /\ head'[p] = m
          /\ \A q \in Procs : q # m => member'[q] = member[q]
          /\ ~member'[m]
        BY <2>2 DEF Types
    <2>5. ASSUME NEW x \in Procs
          PROVE  Owing(x)' = IF x = m /\ x # p THEN Owing(x) \cup {p} ELSE Owing(x)
        BY <2>2, <2>4 DEF Owing
    <2>6. ASSUME NEW x \in Procs PROVE p \notin Owing(x)
        BY <2>2 DEF Owing
    <2>7. ASSUME NEW x \in Procs
          PROVE  sem'[x] + extraWaits'[x] + Cardinality(Owing(x)')
                    = strays'[x] + (IF pc'[x] = "waiting" /\ ~member'[x] THEN 1 ELSE 0)
        <3>1. CASE x = m /\ x # p
            <4>1. Cardinality(Owing(x)') = Cardinality(Owing(x)) + 1
                BY <1>2, <2>5, <2>6, <3>1, FS_AddElement, ZenonT(60)
            <4> QED
                BY <1>2, <2>2, <2>3, <2>4, <3>1, <4>1
        <3>2. CASE ~(x = m /\ x # p)
            <4>1. Owing(x)' = Owing(x)
                BY <2>5, <3>2
            <4>2. (pc'[x] = "waiting" /\ ~member'[x]) <=> (pc[x] = "waiting" /\ ~member[x])
                BY <2>2, <2>4, <3>2
            <4> QED
                BY <1>2, <2>2, <4>1, <4>2
        <3> QED
            BY <3>1, <3>2
    <2> QED
        BY <2>7 DEF WakeupsBalance
<1>5. CASE Wake(p)
    <2>1. pc[p] = "waking" /\ head[p] # NoProc
        BY <1>5, LeaderFacts DEF Wake, Clearing
    <2>2. PICK m \in Procs : m = head[p]
        BY <2>1 DEF Types
    <2>3. /\ sem' = [sem EXCEPT ![m] = sem[m] + (IF m = p THEN 0 ELSE 1)]
          /\ pc' = [pc EXCEPT ![p] = "releasing"]
          /\ UNCHANGED <<extraWaits, strays, member, head>>
        BY <1>5, <2>2 DEF Wake, Goto, cacheVars, leaderVars
    <2>4. /\ \A q \in Procs : q # p => pc'[q] = pc[q]
          /\ pc'[p] = "releasing"
          /\ \A q \in Procs : q # m => sem'[q] = sem[q]
          /\ sem'[m] = sem[m] + (IF m = p THEN 0 ELSE 1)
        BY <2>3 DEF Types
    <2>5. ASSUME NEW x \in Procs
          PROVE  Owing(x)' = Owing(x) \ {p}
        BY <2>3, <2>4 DEF Owing
    <2>6. ASSUME NEW x \in Procs PROVE p \in Owing(x) <=> x = m /\ x # p
        BY <2>1, <2>2 DEF Owing
    <2>7. ASSUME NEW x \in Procs
          PROVE  sem'[x] + extraWaits'[x] + Cardinality(Owing(x)')
                    = strays'[x] + (IF pc'[x] = "waiting" /\ ~member'[x] THEN 1 ELSE 0)
        <3>1. (pc'[x] = "waiting" /\ ~member'[x]) <=> (pc[x] = "waiting" /\ ~member[x])
            BY <2>1, <2>3, <2>4
        <3>2. CASE x = m /\ x # p
            <4>1. Cardinality(Owing(x)') = Cardinality(Owing(x)) - 1
                BY <1>2, <2>5, <2>6, <3>2, FS_RemoveElement
            <4>2. sem'[x] = sem[x] + 1 /\ extraWaits'[x] = extraWaits[x] /\ strays'[x] = strays[x]
                BY <2>3, <2>4, <3>2
            <4> QED
                BY <1>2, <3>1, <4>1, <4>2
        <3>3. CASE ~(x = m /\ x # p)
            <4>1. Owing(x)' = Owing(x)
                BY <2>5, <2>6, <3>3
            <4>2. sem'[x] = sem[x]
                BY <1>2, <2>4, <3>3
            <4> QED
                BY <1>2, <2>3, <3>1, <4>1, <4>2
        <3> QED
            BY <3>2, <3>3
    <2> QED
        BY <2>7 DEF WakeupsBalance
<1> QED
    BY <1>1, <1>3, <1>4, <1>5

-----------------------------------------------------------------------------
(* Requests                                                                *)

LEMMA FieldStep ==
    ASSUME Types, ListInv, FieldInv, WakeupsBalance, [Next]_vars
    PROVE  FieldInv'
<1> USE DEF FieldInv, Types, Goto, Queued, Leading, Unrolling, Clearing, procVars, lockVars,
            listVars, cacheVars, semVars, leaderVars
<1>1. CASE SharedAcquire \/ SharedRelease \/ UNCHANGED vars
    BY <1>1 DEF SharedAcquire, SharedRelease, vars
<1>2. ASSUME NEW p \in Procs, Begin(p) PROVE FieldInv'
    BY <1>2 DEF Begin
<1>3. ASSUME NEW p \in Procs, BeginSub(p) PROVE FieldInv'
    BY <1>3 DEF BeginSub
<1>4. ASSUME NEW p \in Procs, LeftoverWakeup(p) PROVE FieldInv'
    BY <1>4 DEF LeftoverWakeup
<1>5. ASSUME NEW p \in Procs, Return(p) PROVE FieldInv'
    BY <1>5 DEF Return
<1>6. ASSUME NEW p \in Procs, NEW what \in {"top", "sub"}, Ask(p, what) PROVE FieldInv'
    BY <1>6 DEF Ask
<1>7. ASSUME NEW p \in Procs, EndAlone(p) PROVE FieldInv'
    BY <1>7 DEF EndAlone, EndTransaction
<1>8. ASSUME NEW p \in Procs, LockForSub(p) PROVE FieldInv'
    BY <1>8 DEF LockForSub
<1>9. ASSUME NEW p \in Procs, RemoveAlone(p) PROVE FieldInv'
    BY <1>9 DEF RemoveAlone, RemoveRunningXids
<1>10. ASSUME NEW p \in Procs, SetMember(p) PROVE FieldInv'
    BY <1>10 DEF SetMember
<1>11. ASSUME NEW p \in Procs, SetSubFields(p) PROVE FieldInv'
    BY <1>11, ZenonT(60) DEF SetSubFields
<1>12. ASSUME NEW p \in Procs, Insert(p) PROVE FieldInv'
    BY <1>12 DEF Insert
<1>13. ASSUME NEW p \in Procs, Absorb(p) PROVE FieldInv'
    BY <1>13 DEF Absorb
<1>14. ASSUME NEW p \in Procs, Awake(p) PROVE FieldInv'
    BY <1>14 DEF Awake
<1>15. ASSUME NEW p \in Procs, Detach(p) PROVE FieldInv'
    BY <1>15 DEF Detach
<1>16. ASSUME NEW p \in Procs, ClearMember(p) PROVE FieldInv'
    BY <1>16 DEF ClearMember, EndTransaction, RemoveRunningXids
<1>17. ASSUME NEW p \in Procs, Publish(p) PROVE FieldInv'
    BY <1>17 DEF Publish
<1>18. ASSUME NEW p \in Procs, ReleaseMember(p) PROVE FieldInv'
    BY <1>18, LeaderFacts DEF ReleaseMember
<1>19. ASSUME NEW p \in Procs, ClearMemberXid(p) \/ ClearSubFields(p) PROVE FieldInv'
    <2>1. pc[p] \in Clearing /\ head[p] \in Procs /\ (head[p] = p => ~member[p])
        BY <1>19, LeaderFacts DEF ClearMemberXid, ClearSubFields
    <2>2. strays[head[p]] = 0 /\ head[p] # p => pc[head[p]] = "waiting" /\ ~member[head[p]]
        BY <2>1, OwedSleeps
    <2>3. CASE ClearMemberXid(p)
        BY <2>1, <2>2, <2>3 DEF ClearMemberXid
    <2>4. CASE ClearSubFields(p)
        BY <2>1, <2>2, <2>4 DEF ClearSubFields
    <2> QED
        BY <1>19, <2>3, <2>4
<1>20. ASSUME NEW p \in Procs, Wake(p) PROVE FieldInv'
    BY <1>20 DEF Wake
<1>21. ASSUME NEW p \in Procs, Done(p) PROVE FieldInv'
    BY <1>21 DEF Done
<1> QED
    <2> HIDE DEF FieldInv
    <2> QED
        BY <1>1, <1>2, <1>3, <1>4, <1>5, <1>6, <1>7, <1>8, <1>9, <1>10, <1>11, <1>12, <1>13,
           <1>14, <1>15, <1>16, <1>17, <1>18, <1>19, <1>20, <1>21, Steps

\* Only ProcArrayEndTransactionInternal takes a transaction out of the proc
\* array, and it is not called for a PGPROC that asks for a subtransaction.
LEMMA RunningStep ==
    ASSUME Types, ListInv, FieldInv, RunningInv, [Next]_vars
    PROVE  RunningInv'
<1> USE DEF RunningInv, Types, Goto, procVars, lockVars, listVars, cacheVars, semVars,
            leaderVars
<1>1. CASE SharedAcquire \/ SharedRelease \/ UNCHANGED vars
    BY <1>1 DEF SharedAcquire, SharedRelease, vars
<1>2. ASSUME NEW p \in Procs, Begin(p) PROVE RunningInv'
    BY <1>2 DEF Begin
<1>3. ASSUME NEW p \in Procs, LeftoverWakeup(p) PROVE RunningInv'
    BY <1>3 DEF LeftoverWakeup
<1>4. ASSUME NEW p \in Procs, Return(p) PROVE RunningInv'
    BY <1>4 DEF Return, FieldInv
<1>5. ASSUME NEW p \in Procs, NEW what \in {"top", "sub"}, Ask(p, what) PROVE RunningInv'
    BY <1>5 DEF Ask
<1>6. ASSUME NEW p \in Procs, EndAlone(p) PROVE RunningInv'
    BY <1>6 DEF EndAlone, EndTransaction
<1>7. ASSUME NEW p \in Procs, ClearMember(p) PROVE RunningInv'
    <2>1. PICK m \in Procs : m = idx[p]
        BY <1>7 DEF ClearMember
    <2>2. Queued(m) /\ UNCHANGED <<pc, request, strays>>
        BY <1>7, <2>1, LeaderFacts DEF ClearMember
    <2>3. CASE subLatest[m]
        BY <1>7, <2>1, <2>2, <2>3 DEF ClearMember, RemoveRunningXids
    <2>4. CASE ~subLatest[m]
        <3>1. \A q \in Procs : q # m => advertised'[q] = advertised[q]
            BY <1>7, <2>1, <2>4 DEF ClearMember, EndTransaction
        <3>2. pc[m] # "active" /\ (request[m] = "sub" => strays[m] # 0 /\ m \in Subs)
            BY <2>2, <2>4 DEF FieldInv, Queued, Leading, Unrolling, Clearing
        <3> QED
            BY <2>2, <3>1, <3>2
    <2> QED
        BY <2>3, <2>4
<1>8. ASSUME NEW p \in Procs,
             \/ BeginSub(p) \/ LockForSub(p) \/ RemoveAlone(p)
             \/ SetMember(p) \/ SetSubFields(p) \/ Insert(p)
             \/ Absorb(p) \/ Awake(p) \/ Detach(p) \/ Publish(p)
             \/ ReleaseMember(p) \/ ClearMemberXid(p) \/ ClearSubFields(p)
             \/ Wake(p) \/ Done(p)
      PROVE  RunningInv'
    <2>1. /\ UNCHANGED <<advertised, request, strays>>
          /\ \A q \in Procs : pc'[q] = "active" => pc[q] = "active"
        BY <1>8 DEF BeginSub, LockForSub, RemoveAlone, RemoveRunningXids, SetMember,
           SetSubFields, Insert, Absorb, Awake, Detach, Publish, ReleaseMember,
           ClearMemberXid, ClearSubFields, Wake, Done
    <2> QED
        BY <2>1
<1> QED
    <2> HIDE DEF RunningInv
    <2> QED
        BY <1>1, <1>2, <1>3, <1>4, <1>5, <1>6, <1>7, <1>8, Steps

\* A PGPROC is where it was released.
Released(q) ==
    pc[q] = "returned" \/ (pc[q] \in {"waiting"} \cup Leading /\ ~member[q])

\* What was done for a PGPROC.
ServedFor(q) ==
    /\ Cleared(q)
    /\ strays[q] = 0 /\ request[q] = "top" => published[q]

LEMMA ReleasedStep ==
    ASSUME Types, ListInv, FieldInv, ReleasedInv, [Next]_vars
    PROVE  ReleasedInv'
<1> SUFFICES ASSUME NEW q \in Procs, Released(q)' PROVE ServedFor(q)'
    BY DEF ReleasedInv, Released, ServedFor
<1> USE DEF Types, Goto, procVars, lockVars, listVars, cacheVars, semVars, leaderVars
<1>1. Released(q) => ServedFor(q)
    BY DEF ReleasedInv, Released, ServedFor
<1>2. CASE \/ SharedAcquire \/ SharedRelease \/ UNCHANGED vars
    BY <1>1, <1>2 DEF SharedAcquire, SharedRelease, vars, Released, ServedFor, Cleared
<1>3. ASSUME NEW p \in Procs,
             \/ Begin(p) \/ BeginSub(p) \/ LeftoverWakeup(p) \/ Return(p)
             \/ \E what \in {"top", "sub"} : Ask(p, what)
      PROVE  ServedFor(q)'
    <2> USE DEF Released, ServedFor, Cleared, Leading, Unrolling, Clearing
    <2>1. CASE Begin(p)
        BY <1>1, <2>1 DEF Begin
    <2>2. CASE BeginSub(p)
        BY <1>1, <2>2 DEF BeginSub
    <2>3. CASE LeftoverWakeup(p)
        BY <1>1, <2>3 DEF LeftoverWakeup
    <2>4. CASE Return(p)
        BY <1>1, <2>4 DEF Return
    <2>5. CASE \E what \in {"top", "sub"} : Ask(p, what)
        BY <1>1, <2>5 DEF Ask
    <2> QED
        BY <1>3, <2>1, <2>2, <2>3, <2>4, <2>5
<1>4. ASSUME NEW p \in Procs,
             \/ LockForSub(p) \/ SetMember(p) \/ SetSubFields(p) \/ Insert(p)
             \/ Absorb(p) \/ Awake(p) \/ Detach(p)
             \/ ClearMemberXid(p) \/ ClearSubFields(p) \/ Wake(p) \/ Done(p)
      PROVE  ServedFor(q)'
    <2>1. UNCHANGED <<advertised, subCached, completed, published, request, strays>>
        BY <1>4 DEF LockForSub, SetMember, SetSubFields, Insert, Absorb, Awake, Detach,
           ClearMemberXid, ClearSubFields, Wake, Done
    <2>2. Released(q)
        <3> USE DEF Released, Leading, Unrolling, Clearing
        <3>1. CASE LockForSub(p) \/ SetMember(p) \/ SetSubFields(p)
            BY <3>1 DEF LockForSub, SetMember, SetSubFields
        <3>2. CASE Insert(p)
            BY <3>2 DEF Insert, FieldInv
        <3>3. CASE Absorb(p) \/ Awake(p)
            BY <3>3 DEF Absorb, Awake
        <3>4. CASE Detach(p)
            BY <3>4 DEF Detach
        <3>5. CASE ClearMemberXid(p) \/ ClearSubFields(p) \/ Wake(p)
            BY <3>5 DEF ClearMemberXid, ClearSubFields, Wake
        <3>6. CASE Done(p)
            BY <3>6, LeaderFacts DEF Done
        <3> QED
            BY <1>4, <3>1, <3>2, <3>3, <3>4, <3>5, <3>6
    <2> QED
        BY <1>1, <2>1, <2>2 DEF ServedFor, Cleared
<1>5. ASSUME NEW p \in Procs, EndAlone(p) PROVE ServedFor(q)'
    <2>1. /\ \A r \in Procs : r # p => /\ advertised'[r] = advertised[r]
                                       /\ subCached'[r] = subCached[r]
                                       /\ completed'[r] = completed[r]
                                       /\ pc'[r] = pc[r]
          /\ ~advertised'[p] /\ ~subCached'[p] /\ completed'[p]
          /\ published' = completed'
          /\ UNCHANGED <<request, strays, member>>
        BY <1>5 DEF EndAlone, EndTransaction
    <2>2. CASE q = p
        BY <2>1, <2>2 DEF ServedFor, Cleared
    <2>3. CASE q # p
        BY <1>1, <2>1, <2>3 DEF Released, ServedFor, Cleared
    <2> QED
        BY <2>2, <2>3
<1>6. ASSUME NEW p \in Procs, RemoveAlone(p) PROVE ServedFor(q)'
    <2>1. /\ \A r \in Procs : r # p => /\ subCached'[r] = subCached[r]
                                       /\ completed'[r] = completed[r]
                                       /\ pc'[r] = pc[r]
          /\ subCached'[p] = (subCached[p] /\ memberXid[p] # "sub")
          /\ completed'[p] = (completed[p] \/ subLatest[p])
          /\ UNCHANGED <<advertised, published, request, strays, member>>
        BY <1>6 DEF RemoveAlone, RemoveRunningXids
    <2>2. request[p] = "sub" /\ (strays[p] = 0 => memberXid[p] = "sub" /\ subLatest[p])
        BY <1>6 DEF RemoveAlone, FieldInv
    <2>3. CASE q = p
        BY <2>1, <2>2, <2>3 DEF ServedFor, Cleared
    <2>4. CASE q # p
        BY <1>1, <2>1, <2>4 DEF Released, ServedFor, Cleared
    <2> QED
        BY <2>3, <2>4
<1>7. ASSUME NEW p \in Procs, ClearMember(p) PROVE ServedFor(q)'
    <2>1. PICK m \in Procs : m = idx[p]
        BY <1>7 DEF ClearMember
    <2>2. Queued(m) /\ UNCHANGED <<pc, member, published, request, strays>>
        BY <1>7, <2>1, LeaderFacts DEF ClearMember
    <2>3. Released(q) /\ q # m
        BY <2>2 DEF Released, Queued, Leading, Unrolling, Clearing
    <2>4. /\ advertised'[q] = advertised[q] /\ subCached'[q] = subCached[q]
          /\ completed'[q] = completed[q]
        BY <1>7, <2>1, <2>3 DEF ClearMember, EndTransaction, RemoveRunningXids
    <2> QED
        BY <1>1, <2>2, <2>3, <2>4 DEF ServedFor, Cleared
<1>8. ASSUME NEW p \in Procs, Publish(p) PROVE ServedFor(q)'
    <2>1. Released(q)
        BY <1>8 DEF Publish, Released, Leading, Unrolling, Clearing
    <2>2. /\ published'[q] \in {published[q], completed[q]}
          /\ UNCHANGED <<advertised, subCached, completed, request, strays>>
        BY <1>8 DEF Publish
    <2> QED
        BY <1>1, <2>1, <2>2 DEF ServedFor, Cleared
<1>9. ASSUME NEW p \in Procs, ReleaseMember(p) PROVE ServedFor(q)'
    <2>1. PICK m \in Procs : m = idx[p]
        BY <1>9 DEF ReleaseMember
    <2>2. /\ pc[p] = "releasing" /\ m # NoProc
          /\ pc' = [pc EXCEPT ![p] = "clearing_xid"]
          /\ member' = [member EXCEPT ![m] = FALSE]
          /\ UNCHANGED <<advertised, subCached, completed, published, request, strays>>
        BY <1>9, <2>1 DEF ReleaseMember
    <2>3. ServedFor(m)
        BY <2>1, <2>2, LeaderFacts DEF ServedFor
    <2>4. q = m \/ Released(q)
        BY <2>2 DEF Released, Leading, Unrolling, Clearing
    <2> QED
        BY <1>1, <2>2, <2>3, <2>4 DEF ServedFor, Cleared
<1> QED
    BY <1>2, <1>3, <1>4, <1>5, <1>6, <1>7, <1>8, <1>9, Steps

LEMMA ListStep ==
    ASSUME Types, Types', ListInv, FieldInv, [Next]_vars
    PROVE  ListInv'
<1>1. CASE SharedAcquire \/ SharedRelease \/ UNCHANGED vars
    <2>1. SameLists
        BY <1>1 DEF SharedAcquire, SharedRelease, vars, procVars, lockVars, listVars,
           cacheVars, semVars, leaderVars, SameLists, Queued, Cleared
    <2> QED
        BY <2>1, SameListsKeep
<1>2. ASSUME NEW p \in Procs, Insert(p) PROVE ListInv'
    <2>1. member[p]
        BY <1>2 DEF Insert, FieldInv
    <2> QED
        BY <1>2, <2>1, InsertLists
<1> QED
    BY <1>1, <1>2, Steps, StepsOnOneList, SameListsKeep, DetachLists, ClearMemberLists,
       PublishLists, ReleaseMemberLists, DoneLists

-----------------------------------------------------------------------------
(* The theorems                                                            *)

LEMMA InitIInv == Init => IInv
<1> SUFFICES ASSUME Init PROVE IInv
    OBVIOUS
<1>1. Types
    <2>1. 0 \in Nat /\ 0 \in 0 .. 1 /\ "idle" \in Pcs
        BY DEF Pcs
    <2> QED
        BY <2>1 DEF Init, Types
<1>2. ListInv
    <2>1. PICK own \in [Procs -> Procs \cup {NoProc}] : own = [q \in Procs |-> NoProc]
        OBVIOUS
    <2>2. OwnInv(own) /\ LinkInv(own)
        BY <2>1, GroupAssumption DEF Init, OwnInv, LinkInv, Queued, Leading, Unrolling, Clearing
    <2>3. RootInv(own) /\ DoneInv(own, {})
        BY <2>1 DEF Init, RootInv, DoneInv, Unrolling, Clearing
    <2> QED
        BY <2>2, <2>3 DEF ListInv
<1>3. FieldInv /\ RunningInv /\ ReleasedInv
    BY DEF Init, FieldInv, RunningInv, ReleasedInv, Queued, Leading, Unrolling, Clearing
<1>4. WakeupsBalance
    <2>1. ASSUME NEW x \in Procs PROVE Cardinality(Owing(x)) = 0
        <3>1. Owing(x) = {}
            BY DEF Init, Owing
        <3> QED
            BY <3>1, FS_EmptySet
    <2> QED
        BY <2>1 DEF Init, WakeupsBalance
<1> QED
    BY <1>1, <1>2, <1>3, <1>4, TypesOf DEF IInv

LEMMA NextIInv == IInv /\ [Next]_vars => IInv'
<1> SUFFICES ASSUME IInv, [Next]_vars PROVE IInv'
    OBVIOUS
<1>1. Types
    BY TypesOf DEF IInv
<1>2. Types' /\ TypeOK'
    <2>1. Types'
        BY <1>1, TypeStep
    <2> QED
        BY <2>1 DEF Types, TypeOK
<1>3. ListInv' /\ FieldInv' /\ RunningInv' /\ ReleasedInv' /\ WakeupsBalance'
    BY <1>1, <1>2, ListStep, FieldStep, RunningStep, ReleasedStep, WakeupStep DEF IInv
<1> QED
    BY <1>2, <1>3 DEF IInv

\* The invariant of ProcArrayGroupClearXid is one.
THEOREM Invariance == Spec => []IInv
BY InitIInv, NextIInv, PTL DEF Spec

(***************************************************************************)
(* Whoever serves a request, alone or in a group, when ProcArrayEnd-       *)
(* Transaction returns the transaction has left the proc array and is in   *)
(* the published snapshot; an aborted subtransaction has left the cache    *)
(* and nothing else.                                                       *)
(***************************************************************************)
THEOREM RequestsAreServed == Spec => []RequestServed
<1>1. IInv => RequestServed
    BY TypesOf DEF IInv, Types, ReleasedInv, RunningInv, FieldInv, Cleared, RequestServed
<1> QED
    BY <1>1, Invariance, PTL

(***************************************************************************)
(* ProcArrayGroupClearXid gives a semaphore back as it found it: wakeups   *)
(* that were not for it are not lost, and none is invented.                *)
(***************************************************************************)
THEOREM WakeupsAreBalanced == Spec => []WakeupsBalance
<1>1. IInv => WakeupsBalance
    BY DEF IInv
<1> QED
    BY <1>1, Invariance, PTL

=============================================================================
