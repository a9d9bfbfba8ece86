---------------------------- MODULE GroupClearXid ----------------------------
(***************************************************************************)
(* How a session withdraws its xid from the proc array at the end of a     *)
(* transaction, and a subtransaction's xid from its own PGPROC cache when  *)
(* the subtransaction aborts (procarray.cpp, xact.cpp).  Who finds         *)
(* ProcArrayLock free does it alone.  The others push themselves on a list *)
(* in shared memory; the one that found the list empty is the leader, does *)
(* the work for everybody under the lock and then wakes the others, which  *)
(* sleep on the semaphore of their PGPROC.                                 *)
(*                                                                         *)
(* That semaphore also serves the lock manager, which may leave wakeups    *)
(* behind (LockErrorCleanup, proc.cpp).  Xids are not numbered: a PGPROC   *)
(* runs one transaction and at most one open subtransaction at a time, and *)
(* a field that holds an xid says whose it is.                             *)
(***************************************************************************)
EXTENDS Naturals, FiniteSets

CONSTANTS
    Procs,      \* PGPROCs
    Subs,       \* those whose transactions use subtransactions
    NoProc,     \* INVALID_PGPROCNO
    Leftover    \* bound: PGPROCs for which the lock manager leaves a wakeup

ASSUME GroupAssumption ==
    /\ IsFiniteSet(Procs) /\ NoProc \notin Procs
    /\ Subs \subseteq Procs /\ Leftover \subseteq Procs

VARIABLES
    advertised,     \* PGXACT.xid is valid
    subCached,      \* the open subtransaction's xid is in PGPROC.subxids
    completed,      \* latestCompletedXid was advanced to the xid of the request
    published,      \* ... and a snapshot with that xmax was published
    lockHolder,     \* who holds ProcArrayLock in exclusive mode
    lockShared,     \* somebody holds it in shared mode (GetSnapshotData)
    first,          \* procArrayGroupFirst
    next,           \* PGPROC.procArrayGroupNext
    member,         \* PGPROC.procArrayGroupMember
    memberXid,      \* PGPROC.procArrayGroupMemberXid: "none", "top" or "sub"
    subLatest,      \* PGPROC.procArrayGroupSubXactLatestXid is valid, NXids and
                    \* Xids are set
    sem,            \* count of PGPROC.sem
    pc,             \* thread: where it is
    request,        \* thread: what it wants withdrawn: "none", "top" or "sub"
    extraWaits,     \* follower: wakeups absorbed so far
    idx,            \* leader: nextidx during the walk, then wakeidx
    head,           \* leader: head of the list it has detached
    hasXact,        \* leader: groupMemberHasTransaction
    strays          \* history: leftover wakeups so far

procVars == <<advertised, subCached, completed, published>>
lockVars == <<lockHolder, lockShared>>
listVars == <<first, next>>
cacheVars == <<member, memberXid, subLatest>>
semVars == <<sem, extraWaits, strays>>
leaderVars == <<idx, head, hasXact>>
vars == <<procVars, lockVars, listVars, cacheVars, semVars, leaderVars, pc,
          request>>

LockFree == lockHolder = NoProc /\ ~lockShared

Goto(p, where) == pc' = [pc EXCEPT ![p] = where]

-----------------------------------------------------------------------------
(* What is done for a PGPROC under ProcArrayLock                           *)

\* ProcArrayEndTransactionInternal(m, latestXid): latestXid may be invalid, and
\* then latestCompletedXid stays where it is.
EndTransaction(m, validLatest) ==
    /\ advertised' = [advertised EXCEPT ![m] = FALSE]
    /\ subCached' = [subCached EXCEPT ![m] = FALSE]
    /\ completed' = [completed EXCEPT ![m] = @ \/ validLatest]

\* XidCacheRemoveRunningXids(m) goes by the fields of the PGPROC; an xid it
\* does not find is a WARNING.
RemoveRunningXids(m) ==
    /\ subCached' = [subCached EXCEPT ![m] = @ /\ memberXid[m] # "sub"]
    /\ completed' = [completed EXCEPT ![m] = @ \/ subLatest[m]]
    /\ UNCHANGED advertised

-----------------------------------------------------------------------------
(* A session's transaction                                                 *)

Begin(p) ==
    /\ pc[p] = "idle"
    /\ Goto(p, "active")
    /\ advertised' = [advertised EXCEPT ![p] = TRUE]
    /\ UNCHANGED <<subCached, completed, published, request>>
    /\ UNCHANGED <<lockVars, listVars, cacheVars, semVars, leaderVars>>

BeginSub(p) ==
    /\ p \in Subs
    /\ pc[p] = "active"
    /\ ~subCached[p]
    /\ subCached' = [subCached EXCEPT ![p] = TRUE]
    /\ UNCHANGED <<advertised, completed, published, pc, request>>
    /\ UNCHANGED <<lockVars, listVars, cacheVars, semVars, leaderVars>>

\* RecordTransactionAbort(true) or the end of the transaction asks for xids to
\* be withdrawn.
Ask(p, what) ==
    /\ pc[p] = "active"
    /\ what = "sub" => subCached[p]
    /\ Goto(p, "asking")
    /\ request' = [request EXCEPT ![p] = what]
    /\ UNCHANGED <<procVars, lockVars, listVars, cacheVars, semVars, leaderVars>>

\* LockErrorCleanup leaves a wakeup in the semaphore when somebody granted the
\* lock before the waiter could take itself off the queue.
LeftoverWakeup(p) ==
    /\ pc[p] = "active"
    /\ p \in Leftover /\ strays[p] = 0
    /\ strays' = [strays EXCEPT ![p] = @ + 1]
    /\ sem' = [sem EXCEPT ![p] = @ + 1]
    /\ UNCHANGED <<extraWaits, pc, request>>
    /\ UNCHANGED <<procVars, lockVars, listVars, cacheVars, leaderVars>>

Return(p) ==
    /\ pc[p] = "returned"
    /\ Goto(p, IF request[p] = "top" THEN "idle" ELSE "active")
    /\ request' = [request EXCEPT ![p] = "none"]
    /\ completed' = [completed EXCEPT ![p] = FALSE]
    /\ published' = [published EXCEPT ![p] = FALSE]
    /\ UNCHANGED <<advertised, subCached, lockVars, listVars, cacheVars, semVars,
                   leaderVars>>

\* Others take and release ProcArrayLock in shared mode all the time.
SharedAcquire ==
    /\ LockFree
    /\ lockShared' = TRUE
    /\ UNCHANGED <<procVars, lockHolder, listVars, cacheVars, semVars,
                   leaderVars, pc, request>>

SharedRelease ==
    /\ lockShared
    /\ lockShared' = FALSE
    /\ UNCHANGED <<procVars, lockHolder, listVars, cacheVars, semVars,
                   leaderVars, pc, request>>

-----------------------------------------------------------------------------
(* LWLockConditionalAcquire succeeds                                       *)

\* ProcArrayEndTransaction for a transaction: acquire, clear, publish, release.
EndAlone(p) ==
    /\ pc[p] = "asking"
    /\ request[p] = "top"
    /\ LockFree
    /\ EndTransaction(p, TRUE)
    /\ published' = completed'
    /\ Goto(p, "returned")
    /\ UNCHANGED request
    /\ UNCHANGED <<lockVars, listVars, cacheVars, semVars, leaderVars>>

\* A subtransaction takes the detour through the fields of its own PGPROC.
LockForSub(p) ==
    /\ pc[p] = "asking"
    /\ request[p] = "sub"
    /\ LockFree
    /\ lockHolder' = p
    /\ memberXid' = [memberXid EXCEPT ![p] = "sub"]
    /\ subLatest' = [subLatest EXCEPT ![p] = TRUE]
    /\ Goto(p, "removing")
    /\ UNCHANGED <<lockShared, member, request>>
    /\ UNCHANGED <<procVars, listVars, semVars, leaderVars>>

RemoveAlone(p) ==
    /\ pc[p] = "removing"
    /\ RemoveRunningXids(p)
    /\ memberXid' = [memberXid EXCEPT ![p] = "none"]
    /\ subLatest' = [subLatest EXCEPT ![p] = FALSE]
    /\ lockHolder' = NoProc
    /\ Goto(p, "returned")
    /\ UNCHANGED <<published, lockShared, member, request>>
    /\ UNCHANGED <<listVars, semVars, leaderVars>>

-----------------------------------------------------------------------------
(* ProcArrayGroupClearXid                                                  *)

\* The lock was busy: fill in the fields of the PGPROC, plain store by plain
\* store.
SetMember(p) ==
    /\ pc[p] = "asking"
    /\ ~LockFree
    /\ member' = [member EXCEPT ![p] = TRUE]
    /\ memberXid' = [memberXid EXCEPT ![p] = request[p]]
    /\ Goto(p, "entering")
    /\ UNCHANGED <<subLatest, request>>
    /\ UNCHANGED <<procVars, lockVars, listVars, semVars, leaderVars>>

SetSubFields(p) ==
    /\ pc[p] = "entering"
    /\ subLatest' = [subLatest EXCEPT ![p] = (request[p] = "sub")]
    /\ Goto(p, "inserting")
    /\ UNCHANGED <<member, memberXid, request>>
    /\ UNCHANGED <<procVars, lockVars, listVars, semVars, leaderVars>>

\* ProcInsertIntoGroup: the compare-and-swap that succeeds.  Whoever found the
\* list empty leads.
Insert(p) ==
    /\ pc[p] = "inserting"
    /\ next' = [next EXCEPT ![p] = first]
    /\ first' = p
    /\ Goto(p, IF first = NoProc THEN "leading" ELSE "waiting")
    /\ UNCHANGED request
    /\ UNCHANGED <<procVars, lockVars, cacheVars, semVars, leaderVars>>

\* A follower swallows a wakeup that is not for it ...
Absorb(p) ==
    /\ pc[p] = "waiting"
    /\ sem[p] > 0
    /\ member[p]
    /\ sem' = [sem EXCEPT ![p] = @ - 1]
    /\ extraWaits' = [extraWaits EXCEPT ![p] = @ + 1]
    /\ UNCHANGED <<strays, pc, request>>
    /\ UNCHANGED <<procVars, lockVars, listVars, cacheVars, leaderVars>>

\* Mutant: the absorbed wakeups are not given back.
Awake_KeepsExtra(p) ==
    /\ pc[p] = "waiting"
    /\ sem[p] > 0
    /\ ~member[p]
    /\ sem' = [sem EXCEPT ![p] = @ - 1]
    /\ extraWaits' = [extraWaits EXCEPT ![p] = 0]
    /\ Goto(p, "returned")
    /\ UNCHANGED <<strays, request>>
    /\ UNCHANGED <<procVars, lockVars, listVars, cacheVars, leaderVars>>

\* ... and gives those back when it sees that the leader has released it.
Awake(p) ==
    /\ pc[p] = "waiting"
    /\ sem[p] > 0
    /\ ~member[p]
    /\ sem' = [sem EXCEPT ![p] = @ - 1 + extraWaits[p]]
    /\ extraWaits' = [extraWaits EXCEPT ![p] = 0]
    /\ Goto(p, "returned")
    /\ UNCHANGED <<strays, request>>
    /\ UNCHANGED <<procVars, lockVars, listVars, cacheVars, leaderVars>>

\* The leader gets the lock and detaches the whole list.
Detach(p) ==
    /\ pc[p] = "leading"
    /\ LockFree
    /\ lockHolder' = p
    /\ first' = NoProc
    /\ head' = [head EXCEPT ![p] = first]
    /\ idx' = [idx EXCEPT ![p] = first]
    /\ hasXact' = [hasXact EXCEPT ![p] = FALSE]
    /\ Goto(p, "walking")
    /\ UNCHANGED <<lockShared, next, request>>
    /\ UNCHANGED <<procVars, cacheVars, semVars>>

\* Mutant: the fields of a member are not told apart.
ClearMember_AlwaysEnds(p) ==
    LET m == idx[p]
    IN /\ pc[p] = "walking"
       /\ m # NoProc
       /\ EndTransaction(m, memberXid[m] # "none")
       /\ hasXact' = [hasXact EXCEPT ![p] = TRUE]
       /\ idx' = [idx EXCEPT ![p] = next[m]]
       /\ UNCHANGED <<published, head, pc, request>>
       /\ UNCHANGED <<lockVars, listVars, cacheVars, semVars>>

\* One member of the list: a subtransaction if its latest xid is valid.
ClearMember(p) ==
    LET m == idx[p]
    IN /\ pc[p] = "walking"
       /\ m # NoProc
       /\ \/ /\ subLatest[m]
             /\ RemoveRunningXids(m)
             /\ UNCHANGED hasXact
          \/ /\ ~subLatest[m]
             /\ EndTransaction(m, memberXid[m] # "none")
             /\ hasXact' = [hasXact EXCEPT ![p] = TRUE]
       /\ idx' = [idx EXCEPT ![p] = next[m]]
       /\ UNCHANGED <<published, head, pc, request>>
       /\ UNCHANGED <<lockVars, listVars, cacheVars, semVars>>

\* CalculateLocalLatestSnapshot if there is reason to, then release the lock.
Publish(p) ==
    /\ pc[p] = "walking"
    /\ idx[p] = NoProc
    /\ published' = IF hasXact[p] THEN completed ELSE published
    /\ lockHolder' = NoProc
    /\ idx' = [idx EXCEPT ![p] = head[p]]
    /\ hasXact' = [hasXact EXCEPT ![p] = FALSE]
    /\ Goto(p, "releasing")
    /\ UNCHANGED <<advertised, subCached, completed, lockShared, head, request>>
    /\ UNCHANGED <<listVars, cacheVars, semVars>>

\* Wake everybody up.  For each member: take it off the list, clear the flag it
\* waits for (the first store of ClearProcArrayGroupCache) ...
ReleaseMember(p) ==
    LET m == idx[p]
    IN /\ pc[p] = "releasing"
       /\ m # NoProc
       /\ head' = [head EXCEPT ![p] = m]
       /\ idx' = [idx EXCEPT ![p] = next[m]]
       /\ next' = [next EXCEPT ![m] = NoProc]
       /\ member' = [member EXCEPT ![m] = FALSE]
       /\ Goto(p, "clearing_xid")
       /\ UNCHANGED <<first, memberXid, subLatest, hasXact, request>>
       /\ UNCHANGED <<procVars, lockVars, semVars>>

\* ... then the fields behind it ...
ClearMemberXid(p) ==
    /\ pc[p] = "clearing_xid"
    /\ memberXid' = [memberXid EXCEPT ![head[p]] = "none"]
    /\ Goto(p, "clearing_sub")
    /\ UNCHANGED <<member, subLatest, request>>
    /\ UNCHANGED <<procVars, lockVars, listVars, semVars, leaderVars>>

ClearSubFields(p) ==
    /\ pc[p] = "clearing_sub"
    /\ subLatest' = [subLatest EXCEPT ![head[p]] = FALSE]
    /\ Goto(p, "waking")
    /\ UNCHANGED <<member, memberXid, request>>
    /\ UNCHANGED <<procVars, lockVars, listVars, semVars, leaderVars>>

\* Mutant: the next member is compared with the leader instead of this one.
Wake_NextMember(p) ==
    LET m == head[p]
    IN /\ pc[p] = "waking"
       /\ sem' = [sem EXCEPT ![m] = @ + (IF idx[p] = p THEN 0 ELSE 1)]
       /\ Goto(p, "releasing")
       /\ UNCHANGED <<extraWaits, strays, request>>
       /\ UNCHANGED <<procVars, lockVars, listVars, cacheVars, leaderVars>>

\* ... and raise its semaphore, unless it is the leader itself.
Wake(p) ==
    LET m == head[p]
    IN /\ pc[p] = "waking"
       /\ sem' = [sem EXCEPT ![m] = @ + (IF m = p THEN 0 ELSE 1)]
       /\ Goto(p, "releasing")
       /\ UNCHANGED <<extraWaits, strays, request>>
       /\ UNCHANGED <<procVars, lockVars, listVars, cacheVars, leaderVars>>

Done(p) ==
    /\ pc[p] = "releasing"
    /\ idx[p] = NoProc
    /\ head' = [head EXCEPT ![p] = NoProc]
    /\ Goto(p, "returned")
    /\ UNCHANGED <<idx, hasXact, request>>
    /\ UNCHANGED <<procVars, lockVars, listVars, cacheVars, semVars>>

-----------------------------------------------------------------------------

Init ==
    /\ advertised = [p \in Procs |-> FALSE]
    /\ subCached = [p \in Procs |-> FALSE]
    /\ completed = [p \in Procs |-> FALSE]
    /\ published = [p \in Procs |-> FALSE]
    /\ lockHolder = NoProc /\ lockShared = FALSE
    /\ first = NoProc /\ next = [p \in Procs |-> NoProc]
    /\ member = [p \in Procs |-> FALSE]
    /\ memberXid = [p \in Procs |-> "none"]
    /\ subLatest = [p \in Procs |-> FALSE]
    /\ sem = [p \in Procs |-> 0]
    /\ pc = [p \in Procs |-> "idle"]
    /\ request = [p \in Procs |-> "none"]
    /\ extraWaits = [p \in Procs |-> 0]
    /\ idx = [p \in Procs |-> NoProc]
    /\ head = [p \in Procs |-> NoProc]
    /\ hasXact = [p \in Procs |-> FALSE]
    /\ strays = [p \in Procs |-> 0]

\* A request under way, apart from the acquisition of ProcArrayLock.
Serve(p) ==
    \/ SetMember(p)
    \/ SetSubFields(p)
    \/ Insert(p)
    \/ Absorb(p)
    \/ Awake(p)
    \/ RemoveAlone(p)
    \/ ClearMember(p)
    \/ Publish(p)
    \/ ReleaseMember(p)
    \/ ClearMemberXid(p)
    \/ ClearSubFields(p)
    \/ Wake(p)
    \/ Done(p)

Next ==
    \/ SharedAcquire
    \/ SharedRelease
    \/ \E p \in Procs :
          \/ Begin(p)
          \/ BeginSub(p)
          \/ LeftoverWakeup(p)
          \/ \E what \in {"top", "sub"} : Ask(p, what)
          \/ Return(p)
          \/ EndAlone(p)
          \/ LockForSub(p)
          \/ Detach(p)
          \/ Serve(p)

Spec == Init /\ [][Next]_vars

\* Threads run on, shared holders of ProcArrayLock let go, and a leader that the
\* LWLock wakes again and again does not lose every race for it.
Fairness ==
    /\ WF_vars(SharedRelease)
    /\ \A p \in Procs : WF_vars(Serve(p)) /\ SF_vars(Detach(p))

FairSpec == Spec /\ Fairness

-----------------------------------------------------------------------------
(* Properties                                                              *)

Pcs == {"idle", "active", "asking", "removing", "entering", "inserting",
        "waiting", "leading", "walking", "releasing", "clearing_xid",
        "clearing_sub", "waking", "returned"}

\* The type invariant.
TypeOK ==
    /\ {advertised, subCached, completed, published, member, subLatest, hasXact}
          \subseteq [Procs -> BOOLEAN]
    /\ lockHolder \in Procs \cup {NoProc} /\ lockShared \in BOOLEAN
    /\ first \in Procs \cup {NoProc}
    /\ {next, idx, head} \subseteq [Procs -> Procs \cup {NoProc}]
    /\ {memberXid, request} \subseteq [Procs -> {"none", "top", "sub"}]
    /\ sem \in [Procs -> Nat] /\ extraWaits \in [Procs -> Nat]
    /\ pc \in [Procs -> Pcs]
    /\ strays \in [Procs -> 0 .. 1]

(***************************************************************************)
(* When ProcArrayEndTransaction or the removal of a subtransaction returns *)
(* to the session, exactly what it asked for was done, by itself or by     *)
(* whichever leader served it: a transaction is out of the proc array and  *)
(* latestCompletedXid and the published snapshot know of it; an aborted    *)
(* subtransaction is out of the cache, while its transaction is still      *)
(* advertised.  After a leftover wakeup (see SubMemberHasLatest) this much *)
(* remains: a session is released only after its transaction has left the  *)
(* proc array, and one that has not asked to end is advertised, unless it  *)
(* also uses subtransactions.                                              *)
(***************************************************************************)
RequestServed ==
    \A p \in Procs :
       /\ pc[p] = "returned" /\ request[p] = "top" => ~advertised[p]
       /\ pc[p] = "active" /\ (p \in Subs => strays[p] = 0) => advertised[p]
       /\ pc[p] = "returned" /\ strays[p] = 0 =>
             /\ ~subCached[p]
             /\ completed[p]
             /\ request[p] = "top" => published[p]
             /\ request[p] = "sub" => advertised[p]

\* The leaders that have released p and have not raised its semaphore yet.
Owing(p) == {q \in Procs \ {p} :
    head[q] = p /\ pc[q] \in {"clearing_xid", "clearing_sub", "waking"}}

(***************************************************************************)
(* No wakeup is lost or duplicated, whatever order leaders and followers   *)
(* run in: the count of a semaphore, what its owner has absorbed and what  *)
(* leaders still owe is what the lock manager left behind, plus the one    *)
(* wakeup of a follower that is released and still asleep.                 *)
(***************************************************************************)
WakeupsBalance ==
    \A p \in Procs :
       sem[p] + extraWaits[p] + Cardinality(Owing(p))
          = strays[p] + (IF pc[p] = "waiting" /\ ~member[p] THEN 1 ELSE 0)

(***************************************************************************)
(* The comment on the leader's walk: procArrayGroupSubXactLatestXid is not *)
(* 0 when the group member is a subtransaction.                            *)
(***************************************************************************)
SubMemberHasLatest ==
    \A p \in Procs :
       pc[p] = "walking" /\ idx[p] # NoProc /\ request[idx[p]] = "sub"
          => subLatest[idx[p]]

(***************************************************************************)
(* Nobody sleeps for ever: each follower that pushed itself on the list is *)
(* woken, whoever leads.                                                   *)
(***************************************************************************)
FollowerReleased ==
    \A p \in Procs : pc[p] = "waiting" ~> pc[p] # "waiting"

=============================================================================
