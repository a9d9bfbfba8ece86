------------------------------ MODULE ClogGroup ------------------------------
(***************************************************************************)
(* The commit log (clog.cpp, transam.cpp).  A transaction tree is written  *)
(* page by page, each page under the lock of the SLRU bank it belongs to.  *)
(* A session whose tree fits on one page and that finds the lock busy puts *)
(* itself on a list, whose first member writes for all of them and wakes   *)
(* the others.  A checker reads one entry at a time and goes from a        *)
(* sub-committed subtransaction to its parent.                             *)
(*                                                                         *)
(* One partition of the log is modelled; each has a list of its own.  An   *)
(* update that no other thread can look into, because it is done under the *)
(* bank's lock, is one step.  Threads beside the ones modelled also take   *)
(* the locks for a moment: LWLockConditionalAcquire may fail at any time.  *)
(***************************************************************************)
EXTENDS Integers, Sequences, FiniteSetsExt

CONSTANTS
    Procs,                          \* PGPROCs
    Work,                           \* per PGPROC: the requests it makes
    Parent,                         \* SUBTRANS entries of the CSN log
    CLOG_XACTS_PER_PAGE,
    Banks,                          \* SLRU banks of the partition
    THRESHOLD_SUBTRANS_CLOG_OPT,
    Asked,                          \* xids a checker asks about
    Strays,                         \* wakeups left in a PGPROC's semaphore by
                                    \* LockErrorCleanup (see GroupClearXid)
    NoProc, NoXid, NoBank

\* A request: an xid, its committed subtransactions in ascending order, how they
\* end, whether it is the session's top-level transaction, and the xids cached in
\* the PGPROC.  XidCacheRemoveRunningXids may have left those in another order.
RequestRecords == [xid : Nat, subs : Seq(Nat), cached : Seq(Nat),
                   st : {"committed", "aborted"}, top : BOOLEAN]

Requests == UNION {Range(Work[p]) : p \in Procs}
SubsOf(r) == Range(r.subs)
TreeOf(r) == {r.xid} \cup SubsOf(r)
Xids == UNION {TreeOf(r) : r \in Requests}

ASSUME ClogAssumption ==
    /\ {CLOG_XACTS_PER_PAGE, Banks} \subseteq Nat \ {0}
    /\ THRESHOLD_SUBTRANS_CLOG_OPT \in Nat /\ Strays \in [Procs -> Nat]
    /\ Work \in [Procs -> Seq(RequestRecords)]
    /\ Asked \subseteq Xids
    /\ NoProc \notin Procs /\ NoXid \notin Nat /\ NoBank \notin Nat

\* An xid ends once.  Only a top-level transaction commits, together with the
\* subtransactions whose parents do.
ASSUME TreeAssumption ==
    /\ \A p, q \in Procs : \A i \in DOMAIN Work[p], j \in DOMAIN Work[q] :
          <<p, i>> # <<q, j>> => TreeOf(Work[p][i]) \cap TreeOf(Work[q][j]) = {}
    /\ \A r \in Requests :
          /\ r.st = "committed" => r.top
          /\ r.xid \notin SubsOf(r)
          /\ \A x \in SubsOf(r) :
                x \in DOMAIN Parent /\ Parent[x] \in TreeOf(r) /\ Parent[x] < x

VARIABLES
    clog,           \* CLOG_XID_STATUS per xid
    csnSet,         \* xids whose CSN log entry holds a final CSN
    bankHolder,     \* the group leader that holds a bank's lock
    first,          \* clogGroupFirst
    next,           \* PGPROC.clogGroupNext
    member,         \* PGPROC.clogGroupMember
    fields,         \* PGPROC.clogGroupMemberXid, -XidStatus and -Page
    cached,         \* PGPROC.subxids.xids, as many as PGXACT.nxids says
    sem,            \* count of PGPROC.sem
    pc,
    todo,           \* thread: how far it is in CLogSetTreeStatus
    sent,           \* thread: requests so far
    nextidx,        \* thread: head of the list as it read it
    wakeidx,        \* leader: the next member to wake
    bank,           \* leader: the bank whose lock it holds
    extraWaits,     \* follower: wakeups absorbed so far
    checker         \* the checker: where it is and what it knows

logVars == <<clog, csnSet, bankHolder>>
procVars == <<fields, cached>>
listVars == <<first, next, member>>
semVars == <<sem, extraWaits>>
callVars == <<todo, sent>>
leaderVars == <<nextidx, wakeidx, bank>>
vars == <<logVars, procVars, listVars, semVars, callVars, leaderVars, pc, checker>>

Page(x) == x \div CLOG_XACTS_PER_PAGE
BankOf(page) == page % Banks
Goto(p, label) == pc' = [pc EXCEPT ![p] = label]

-----------------------------------------------------------------------------
(* CLogSetTreeStatus: a call of CLogSetPageStatus for each page            *)

\* The subtransactions that are on other pages than the xid itself.
Elsewhere(r) == {x \in SubsOf(r) : Page(x) # Page(r.xid)}

\* Where CLogSetTreeStatus is: it marks the pages elsewhere sub-committed, writes the
\* page of the xid itself, or gives the pages elsewhere their final status.  left are
\* the xids that the call of set_status_by_pages has not come to yet.
Pass(phase, left) == [phase |-> phase, left |-> left]
OwnPage == Pass("own", {})
Nothing == Pass("none", {})

\* Mutant: without the sub-committed status in between.
CLogSetTreeStatus_Directly(r) == OwnPage

CLogSetTreeStatus(r) ==
    IF r.st = "committed" /\ Elsewhere(r) # {}
    THEN Pass("sub", Elsewhere(r)) ELSE OwnPage

\* May the leader of a group do it, who goes by the PGPROC alone?
MayGroup(r) ==
    /\ Elsewhere(r) = {}
    /\ r.top
    /\ Len(r.subs) <= THRESHOLD_SUBTRANS_CLOG_OPT
    /\ r.subs = r.cached

\* set_status_by_pages: the call for the first page of those left.
set_status_by_pages(left, st) ==
    LET page == Min({Page(x) : x \in left})
    IN [xid |-> NoXid, subs |-> {x \in left : Page(x) = page}, st |-> st, page |-> page,
        group |-> FALSE]

\* The call of CLogSetPageStatus that is next.
PageCall(r, t) ==
    IF t.phase = "own"
    THEN [xid |-> r.xid, subs |-> SubsOf(r) \ Elsewhere(r), st |-> r.st,
          page |-> Page(r.xid), group |-> MayGroup(r)]
    ELSE set_status_by_pages(t.left, IF t.phase = "sub" THEN "sub_committed" ELSE r.st)

\* What there is to do after it.
AfterCall(r, t) ==
    LET left == IF t.phase = "own" THEN Elsewhere(r) ELSE t.left \ PageCall(r, t).subs
    IN IF left # {} THEN Pass(IF t.phase = "own" THEN "final" ELSE t.phase, left)
       ELSE IF t.phase = "sub" THEN OwnPage
       ELSE Nothing

\* CLogSetPageStatusInternal: what a page looks like after the call.
Written(xid, subs, st) ==
    [x \in Xids |-> IF x = xid \/ x \in subs THEN st ELSE clog[x]]

-----------------------------------------------------------------------------
(* A session ends a transaction, or rolls back a subtransaction            *)

Request(p) == Work[p][sent[p]]
NextCall(p) == PageCall(Request(p), todo[p])
CallOver(p) == todo' = [todo EXCEPT ![p] = AfterCall(Request(p), @)]

Start(p) ==
    /\ pc[p] = "idle"
    /\ sent[p] < Len(Work[p])
    /\ sent' = [sent EXCEPT ![p] = @ + 1]
    /\ todo' = [todo EXCEPT ![p] = CLogSetTreeStatus(Work[p][sent[p] + 1])]
    /\ cached' = [cached EXCEPT ![p] = Work[p][sent[p] + 1].cached]
    /\ Goto(p, "call")
    /\ UNCHANGED <<logVars, fields, listVars, semVars, leaderVars, checker>>

\* The commit log is written; the CSN log follows, and the PGPROC is cleared.
Finish(p) ==
    /\ pc[p] = "call"
    /\ todo[p] = Nothing
    /\ csnSet' = csnSet \cup TreeOf(Request(p))
    /\ cached' = [cached EXCEPT ![p] = <<>>]
    /\ Goto(p, "idle")
    /\ UNCHANGED <<clog, bankHolder, fields, listVars, semVars, callVars, leaderVars,
                   checker>>

-----------------------------------------------------------------------------
(* CLogSetPageStatus                                                       *)

\* The bank's lock is acquired, the page written and the lock released: at once,
\* or when group update turned out not to be possible.
SetAlone(p) ==
    /\ pc[p] \in {"call", "lock"}
    /\ todo[p] # Nothing
    /\ \E c \in {NextCall(p)} :
          /\ bankHolder[BankOf(c.page)] = NoProc
          /\ clog' = Written(c.xid, c.subs, c.st)
    /\ CallOver(p)
    /\ Goto(p, "call")
    /\ UNCHANGED <<csnSet, bankHolder, procVars, listVars, semVars, sent, leaderVars,
                   checker>>

\* CLogGroupUpdateXidStatus: the fields are set, then the head of the list is
\* read.  Nobody is guided by the fields before p is on the list.
SetMember(p) ==
    /\ pc[p] = "call"
    /\ todo[p] # Nothing
    /\ \E c \in {NextCall(p)} :
          /\ c.group
          /\ fields' = [fields EXCEPT ![p] = [xid |-> c.xid, st |-> c.st, page |-> c.page]]
    /\ member' = [member EXCEPT ![p] = TRUE]
    /\ nextidx' = [nextidx EXCEPT ![p] = first]
    /\ Goto(p, "check")
    /\ UNCHANGED <<logVars, cached, first, next, semVars, callVars, wakeidx, bank,
                   checker>>

SamePage(p) == nextidx[p] # NoProc => fields[nextidx[p]].page = fields[p].page

\* The page of the first member, who may be another's member by now.
OtherPage(p) ==
    /\ pc[p] = "check"
    /\ ~SamePage(p)
    /\ member' = [member EXCEPT ![p] = FALSE]
    /\ nextidx' = [nextidx EXCEPT ![p] = NoProc]
    /\ Goto(p, "lock")
    /\ UNCHANGED <<logVars, procVars, first, next, semVars, callVars, wakeidx, bank,
                   checker>>

SetNext(p) ==
    /\ pc[p] = "check"
    /\ SamePage(p)
    /\ next' = [next EXCEPT ![p] = nextidx[p]]
    /\ Goto(p, "swap")
    /\ UNCHANGED <<logVars, procVars, first, member, semVars, callVars, leaderVars,
                   checker>>

\* The compare-and-swap; whoever found the list empty leads.
Join(p) ==
    /\ pc[p] = "swap"
    /\ first = nextidx[p]
    /\ first' = p
    /\ Goto(p, IF first = NoProc THEN "lead" ELSE "sleep")
    /\ nextidx' = [nextidx EXCEPT ![p] = NoProc]
    /\ UNCHANGED <<logVars, procVars, next, member, semVars, callVars, wakeidx, bank,
                   checker>>

JoinFails(p) ==
    /\ pc[p] = "swap"
    /\ first # nextidx[p]
    /\ nextidx' = [nextidx EXCEPT ![p] = first]
    /\ Goto(p, "check")
    /\ UNCHANGED <<logVars, procVars, listVars, semVars, callVars, wakeidx, bank,
                   checker>>

\* Mutant: any wakeup will do.
Awake_Any(p) == TRUE

\* Has the leader let p go?
Awake(p) == ~member[p]

\* The call is over; a follower makes up for the wakeups it has absorbed.
Sleep(p) ==
    /\ pc[p] = "sleep"
    /\ sem[p] > 0
    /\ IF Awake(p)
       THEN /\ sem' = [sem EXCEPT ![p] = @ - 1 + extraWaits[p]]
            /\ extraWaits' = [extraWaits EXCEPT ![p] = 0]
            /\ CallOver(p)
            /\ Goto(p, "call")
       ELSE /\ sem' = [sem EXCEPT ![p] = @ - 1]
            /\ extraWaits' = [extraWaits EXCEPT ![p] = @ + 1]
            /\ UNCHANGED <<pc, todo>>
    /\ UNCHANGED <<logVars, procVars, listVars, sent, leaderVars,
                   checker>>

-----------------------------------------------------------------------------
(* The leader of a group                                                   *)

\* It acquires the lock of its page's bank and detaches the list.
Detach(p) ==
    LET b == BankOf(fields[p].page)
    IN /\ pc[p] = "lead"
       /\ bankHolder[b] = NoProc
       /\ bankHolder' = [bankHolder EXCEPT ![b] = p]
       /\ bank' = [bank EXCEPT ![p] = b]
       /\ nextidx' = [nextidx EXCEPT ![p] = first]
       /\ wakeidx' = [wakeidx EXCEPT ![p] = first]
       /\ first' = NoProc
       /\ Goto(p, "walk")
       /\ UNCHANGED <<clog, csnSet, procVars, next, member, semVars, callVars, checker>>

\* Mutant: the leader keeps the lock of its own page's bank.
WrongBank_Never(p) == FALSE

WrongBank(p) ==
    nextidx[p] # NoProc /\ BankOf(fields[nextidx[p]].page) # bank[p]

\* A member with a page of another bank: the lock is exchanged.
ReleaseBank(p) ==
    /\ pc[p] = "walk"
    /\ WrongBank(p)
    /\ bankHolder' = [bankHolder EXCEPT ![bank[p]] = NoProc]
    /\ bank' = [bank EXCEPT ![p] = NoBank]
    /\ Goto(p, "relock")
    /\ UNCHANGED <<clog, csnSet, procVars, listVars, semVars, callVars, nextidx,
                   wakeidx, checker>>

AcquireBank(p) ==
    LET b == BankOf(fields[nextidx[p]].page)
    IN /\ pc[p] = "relock"
       /\ bankHolder[b] = NoProc
       /\ bankHolder' = [bankHolder EXCEPT ![b] = p]
       /\ bank' = [bank EXCEPT ![p] = b]
       /\ Goto(p, "walk")
       /\ UNCHANGED <<clog, csnSet, procVars, listVars, semVars, callVars, nextidx,
                      wakeidx, checker>>

\* One member is served, from the fields of its PGPROC.
Serve(p) ==
    LET m == nextidx[p]
    IN /\ pc[p] = "walk"
       /\ m # NoProc
       /\ ~WrongBank(p)
       /\ clog' = Written(fields[m].xid, Range(cached[m]), fields[m].st)
       /\ nextidx' = [nextidx EXCEPT ![p] = next[m]]
       /\ UNCHANGED <<csnSet, bankHolder, procVars, listVars, semVars, callVars, wakeidx,
                      bank, pc, checker>>

Unlock(p) ==
    /\ pc[p] = "walk"
    /\ nextidx[p] = NoProc
    /\ bankHolder' = [bankHolder EXCEPT ![bank[p]] = NoProc]
    /\ bank' = [bank EXCEPT ![p] = NoBank]
    /\ Goto(p, "wake")
    /\ UNCHANGED <<clog, csnSet, procVars, listVars, semVars, callVars, nextidx, wakeidx,
                   checker>>

\* Mutant: clogGroupNext is cleared before it is read.
Release_ClearsFirst(p) ==
    LET m == wakeidx[p]
    IN /\ pc[p] = "wake"
       /\ m # NoProc
       /\ next' = [next EXCEPT ![m] = NoProc]
       /\ wakeidx' = [wakeidx EXCEPT ![p] = next'[m]]
       /\ member' = [member EXCEPT ![m] = FALSE]
       /\ nextidx' = [nextidx EXCEPT ![p] = IF m = p THEN NoProc ELSE m]
       /\ Goto(p, IF m = p THEN "wake" ELSE "unlock")
       /\ UNCHANGED <<logVars, procVars, first, semVars, callVars, bank, checker>>

\* The next member is let go.  It may be gone before its semaphore is unlocked.
Release(p) ==
    LET m == wakeidx[p]
    IN /\ pc[p] = "wake"
       /\ m # NoProc
       /\ wakeidx' = [wakeidx EXCEPT ![p] = next[m]]
       /\ next' = [next EXCEPT ![m] = NoProc]
       /\ member' = [member EXCEPT ![m] = FALSE]
       /\ nextidx' = [nextidx EXCEPT ![p] = IF m = p THEN NoProc ELSE m]
       /\ Goto(p, IF m = p THEN "wake" ELSE "unlock")
       /\ UNCHANGED <<logVars, procVars, first, semVars, callVars, bank, checker>>

SemUnlock(p) ==
    /\ pc[p] = "unlock"
    /\ sem' = [sem EXCEPT ![nextidx[p]] = @ + 1]
    /\ nextidx' = [nextidx EXCEPT ![p] = NoProc]
    /\ Goto(p, "wake")
    /\ UNCHANGED <<extraWaits, logVars, procVars, listVars, callVars, wakeidx,
                   bank, checker>>

Leave(p) ==
    /\ pc[p] = "wake"
    /\ wakeidx[p] = NoProc
    /\ CallOver(p)
    /\ Goto(p, "call")
    /\ UNCHANGED <<logVars, procVars, listVars, semVars, sent, leaderVars,
                   checker>>

-----------------------------------------------------------------------------
(* TransactionIdDidCommit                                                  *)

Idle == [at |-> "idle", x |-> NoXid, asked |-> NoXid, was |-> FALSE, answer |-> FALSE]

\* Every transaction is known by the status of its top-level xid.
Committed == UNION {TreeOf(r) : r \in {q \in Requests : q.top /\ clog[q.xid] = "committed"}}

\* Mutant: a sub-committed transaction counts as committed.
TransactionLogFetch_TrustsSub(c, x) ==
    /\ bankHolder[BankOf(Page(x))] = NoProc
    /\ checker' = [c EXCEPT !.x = x, !.at = "done",
          !.answer = clog[x] \in {"committed", "sub_committed"}]

\* TransactionLogFetch reads the entry of x under the bank's lock, shared.
TransactionLogFetch(c, x) ==
    /\ bankHolder[BankOf(Page(x))] = NoProc
    /\ checker' = [c EXCEPT !.x = x,
          !.at = IF clog[x] = "sub_committed" THEN "parent" ELSE "done",
          !.answer = clog[x] = "committed"]

TransactionIdDidCommit(x) ==
    /\ checker.at \in {"idle", "done"}
    /\ x \in Asked
    /\ TransactionLogFetch([Idle EXCEPT !.asked = x, !.was = x \in Committed], x)
    /\ UNCHANGED <<logVars, procVars, listVars, semVars, callVars, leaderVars, pc>>

\* SubTransGetParent: the CSN log has the parent, or the CSN already.
SubTransGetParent ==
    /\ checker.at = "parent"
    /\ checker' = IF checker.x \in csnSet
                  THEN [checker EXCEPT !.at = "done", !.answer = TRUE]
                  ELSE [checker EXCEPT !.at = "fetch", !.x = Parent[checker.x]]
    /\ UNCHANGED <<logVars, procVars, listVars, semVars, callVars, leaderVars, pc>>

\* ... and the parent is asked about.
DidParentCommit ==
    /\ checker.at = "fetch"
    /\ TransactionLogFetch(checker, checker.x)
    /\ UNCHANGED <<logVars, procVars, listVars, semVars, callVars, leaderVars, pc>>

-----------------------------------------------------------------------------
(* The specification                                                       *)

NoFields == [xid |-> NoXid, st |-> "in_progress", page |-> 0]

Init ==
    /\ clog = [x \in Xids |-> "in_progress"] /\ csnSet = {}
    /\ bankHolder = [b \in 0 .. Banks - 1 |-> NoProc]
    /\ first = NoProc /\ next = [p \in Procs |-> NoProc]
    /\ member = [p \in Procs |-> FALSE]
    /\ fields = [p \in Procs |-> NoFields] /\ cached = [p \in Procs |-> <<>>]
    /\ sem = Strays /\ extraWaits = [p \in Procs |-> 0]
    /\ pc = [p \in Procs |-> "idle"]
    /\ todo = [p \in Procs |-> Nothing] /\ sent = [p \in Procs |-> 0]
    /\ nextidx = [p \in Procs |-> NoProc] /\ wakeidx = [p \in Procs |-> NoProc]
    /\ bank = [p \in Procs |-> NoBank]
    /\ checker = Idle

\* What a thread that records the end of a transaction does by itself, if only
\* when a bank's lock is free.
Step(p) ==
    \/ SetAlone(p) \/ Detach(p) \/ AcquireBank(p)
    \/ Finish(p) \/ OtherPage(p) \/ SetNext(p)
    \/ Join(p) \/ JoinFails(p) \/ Sleep(p)
    \/ ReleaseBank(p) \/ Serve(p) \/ Unlock(p)
    \/ Release(p) \/ SemUnlock(p) \/ Leave(p)

Check == (\E x \in Asked : TransactionIdDidCommit(x))
            \/ SubTransGetParent \/ DidParentCommit

Next ==
    \/ \E p \in Procs : Start(p) \/ SetMember(p) \/ Step(p)
    \/ Check

Spec == Init /\ [][Next]_vars

(***************************************************************************)
(* Threads run on; nothing makes one join a group (SetMember), start on    *)
(* another transaction or ask.                                             *)
(***************************************************************************)
Fairness == \A p \in Procs : WF_vars(Step(p))

FairSpec == Spec /\ Fairness

-----------------------------------------------------------------------------
(* Properties                                                              *)

Statuses == {"in_progress", "committed", "aborted", "sub_committed"}
Labels == {"idle", "call", "lock", "check", "swap", "sleep", "lead", "walk", "relock",
           "wake", "unlock"}

(***************************************************************************)
(* The type invariant.                                                     *)
(***************************************************************************)
TypeOK ==
    /\ clog \in [Xids -> Statuses] /\ csnSet \subseteq Xids
    /\ bankHolder \in [0 .. Banks - 1 -> Procs \cup {NoProc}]
    /\ first \in Procs \cup {NoProc}
    /\ next \in [Procs -> Procs \cup {NoProc}]
    /\ nextidx \in [Procs -> Procs \cup {NoProc}]
    /\ wakeidx \in [Procs -> Procs \cup {NoProc}]
    /\ member \in [Procs -> BOOLEAN]
    /\ fields \in [Procs -> [xid : Xids \cup {NoXid}, st : Statuses, page : Nat]]
    /\ cached \in [Procs -> Seq(Nat)]
    /\ bank \in [Procs -> (0 .. Banks - 1) \cup {NoBank}]
    /\ sem \in [Procs -> Nat] /\ extraWaits \in [Procs -> Nat]
    /\ pc \in [Procs -> Labels]
    /\ todo \in [Procs -> [phase : {"sub", "own", "final", "none"}, left : SUBSET Xids]]
    /\ sent \in [Procs -> Nat] /\ \A p \in Procs : sent[p] <= Len(Work[p])
    /\ checker \in [at : {"idle", "parent", "fetch", "done"}, x : Xids \cup {NoXid},
                    asked : Xids \cup {NoXid}, was : BOOLEAN, answer : BOOLEAN]

(***************************************************************************)
(* When CLogSetTreeStatus returns, by whatever way, the commit log has the *)
(* outcome of the whole tree: nobody is let go before he is served, and a  *)
(* leader that goes by the fields of a PGPROC finds the right ones there.  *)
(***************************************************************************)
ServedWhenReturned ==
    \A p \in Procs : pc[p] = "call" /\ todo[p] = Nothing =>
       \A x \in TreeOf(Request(p)) : clog[x] = Request(p).st

(***************************************************************************)
(* CLogSetStatusBit asserts LWLockHeldByMeInMode: a leader that serves a   *)
(* member holds the lock of the bank that member's page belongs to, even   *)
(* when members with different pages have got into one group.              *)
(***************************************************************************)
BankLockHeld ==
    \A p \in Procs : pc[p] = "walk" /\ nextidx[p] # NoProc /\ ~WrongBank(p) =>
       bankHolder[BankOf(fields[nextidx[p]].page)] = p

(***************************************************************************)
(* TransactionIdDidCommit, which reads several entries one after the       *)
(* other, is right: yes only if the transaction has committed, and yes if  *)
(* it had when the question was put.                                       *)
(***************************************************************************)
CheckerExact ==
    checker.at = "done" =>
       /\ checker.answer => checker.asked \in Committed
       /\ checker.was => checker.answer

\* What TransactionIdDidCommit would say if it ran in one step.
DidCommit[x \in Xids] ==
    \/ clog[x] = "committed"
    \/ clog[x] = "sub_committed" /\ x \in DOMAIN Parent /\ DidCommit[Parent[x]]

Atomic == INSTANCE AtomicClog WITH
    Trees <- {TreeOf(r) : r \in Requests},
    committed <- {x \in Xids : DidCommit[x]},
    aborted <- {x \in Xids : clog[x] = "aborted"}

(***************************************************************************)
(* "Note that as far as concurrent checkers are concerned, main            *)
(* transaction commit as a whole is still atomic": although the pages of a *)
(* tree are written one after the other, it commits in one step.           *)
(***************************************************************************)
ImplementsAtomicClog == Atomic!Spec

(***************************************************************************)
(* Whoever begins to record the end of a transaction gets it done: no      *)
(* follower is left asleep and leaders do not wait for each other.         *)
(***************************************************************************)
EndIsRecorded == \A p \in Procs : pc[p] = "call" ~> pc[p] = "idle"

=============================================================================
