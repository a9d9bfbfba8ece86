----------------------------- MODULE ClogProofs -----------------------------
(***************************************************************************)
(* ClogGroup records every outcome, keeps its locks straight, answers its  *)
(* checkers exactly and implements AtomicClog, for any number of PGPROCs,  *)
(* banks and pages and any trees of transactions.                          *)
(***************************************************************************)
EXTENDS ClogGroup, WellFoundedInduction, TLAPS

\* Where a leader goes along its list, and where it takes members off it.
Walking == {"walk", "relock"}
Unrolling == {"wake", "unlock"}

\* Where a leader is.
Leading == {"lead"} \cup Walking \cup Unrolling

\* p is on a list: it has pushed itself on it and was not taken off yet.
Queued(p) == member[p] /\ pc[p] \in {"sleep"} \cup Leading

\* The commit log has the outcome of p's request.
Served(p) == \A x \in TreeOf(Request(p)) : clog[x] = Request(p).st

(***************************************************************************)
(* own says for everybody on a list whose list it is.  Each list is linked *)
(* by clogGroupNext and ends with its leader, which found it empty.  The   *)
(* list that still grows starts at clogGroupFirst, the detached ones where *)
(* their leaders say; nobody else points there.  clogGroupNext of somebody *)
(* who is on no list says nothing.                                         *)
(***************************************************************************)
Linked(own, q) == own[q] # NoProc /\ next[q] # NoProc

OwnInv(own) ==
    /\ \A q \in Procs : (own[q] # NoProc) <=> Queued(q)
    /\ \A q \in Procs : (own[q] = q) <=> (member[q] /\ pc[q] \in Leading)
    /\ \A q \in Procs : own[q] # NoProc => (next[q] = NoProc <=> own[q] = q)

LinkInv(own) ==
    /\ \A q \in Procs : Linked(own, q) => own[next[q]] = own[q] /\ next[q] # first
    /\ \A q, r \in Procs : Linked(own, q) /\ Linked(own, r) /\ next[q] = next[r] => q = r
    /\ \A p, q \in Procs : pc[p] \in Walking \cup Unrolling /\ Linked(own, q) =>
                              next[q] # wakeidx[p]

RootInv(own) ==
    /\ first # NoProc => own[first] # NoProc /\ pc[own[first]] = "lead"
    /\ \A p \in Procs :
          /\ pc[p] = "lead" => first # NoProc /\ own[first] = p /\ member[p]
          /\ pc[p] \in Walking =>
                /\ wakeidx[p] # NoProc /\ own[wakeidx[p]] = p /\ member[p]
                /\ nextidx[p] # NoProc => own[nextidx[p]] = p
          /\ pc[p] \in Unrolling =>
                IF wakeidx[p] = NoProc THEN ~member[p] ELSE own[wakeidx[p]] = p

\* done are those of the detached lists that their leader has served; what it
\* has served is closed under clogGroupNext up to where it is.
DoneInv(own, done) ==
    /\ \A q \in done :
          /\ own[q] # NoProc /\ pc[own[q]] \in Walking \cup Unrolling
          /\ Served(q)
          /\ next[q] # NoProc =>
                \/ next[q] \in done
                \/ pc[own[q]] \in Walking /\ next[q] = nextidx[own[q]]
    /\ \A p \in Procs :
          /\ pc[p] \in Walking => wakeidx[p] = nextidx[p] \/ wakeidx[p] \in done
          /\ pc[p] \in Unrolling /\ wakeidx[p] # NoProc => wakeidx[p] \in done

ListInv ==
    \E own \in [Procs -> Procs \cup {NoProc}], done \in SUBSET Procs :
       OwnInv(own) /\ LinkInv(own) /\ RootInv(own) /\ DoneInv(own, done)

\* A leader that walks holds the lock of the bank it says it holds.
HolderInv ==
    \A p \in Procs : /\ pc[p] = "walk" => bank[p] # NoBank /\ bankHolder[bank[p]] = p
                     /\ pc[p] = "relock" => nextidx[p] # NoProc

\* A session that records an outcome is at one of its requests, which its PGPROC
\* has the xids of; one that does so in a group may, and says in the PGPROC what.
FieldInv ==
    \A p \in Procs :
       /\ pc[p] # "idle" => sent[p] \in DOMAIN Work[p] /\ cached[p] = Request(p).cached
       /\ pc[p] \in {"check", "swap", "sleep"} \cup Leading =>
             /\ todo[p].phase = "own" /\ MayGroup(Request(p))
             /\ fields[p].xid = Request(p).xid /\ fields[p].st = Request(p).st
       /\ pc[p] \in {"check", "swap"} => member[p]
       /\ pc[p] = "swap" => next[p] = nextidx[p]

\* Whoever was let go was served.
ReleasedInv ==
    \A p \in Procs : pc[p] \in {"sleep"} \cup Leading /\ ~member[p] => Served(p)

\* The status of the xids elsewhere while the xid itself gets its own.
Halfway(r) == IF r.st = "committed" THEN "sub_committed" ELSE "in_progress"

Uniform(S, st) == \A x \in S : clog[x] = st

\* What the commit log says of r when CLogSetTreeStatus is at t.
Progress(r, t) ==
    /\ t.left \subseteq Elsewhere(r)
    /\ t.phase = "sub" =>
          /\ r.st = "committed"
          /\ Uniform((TreeOf(r) \ Elsewhere(r)) \cup t.left, "in_progress")
          /\ Uniform(Elsewhere(r) \ t.left, "sub_committed")
    /\ t.phase = "own" =>
          /\ \E st \in {"in_progress", r.st} : Uniform(TreeOf(r) \ Elsewhere(r), st)
          /\ Uniform(Elsewhere(r), Halfway(r))
    /\ t.phase = "final" =>
          /\ Uniform(TreeOf(r) \ t.left, r.st)
          /\ Uniform(t.left, Halfway(r))
    /\ t.phase = "none" => Uniform(TreeOf(r), r.st)

\* Requests to come, the one a session is at, and the finished ones.
StatusInv ==
    \A p \in Procs : \A i \in DOMAIN Work[p] :
       /\ i > sent[p] =>
             /\ Uniform(TreeOf(Work[p][i]), "in_progress")
             /\ TreeOf(Work[p][i]) \cap csnSet = {}
       /\ i = sent[p] /\ pc[p] # "idle" =>
             /\ Progress(Work[p][i], todo[p])
             /\ TreeOf(Work[p][i]) \cap csnSet = {}
       /\ i < sent[p] \/ (i = sent[p] /\ pc[p] = "idle") =>
             Uniform(TreeOf(Work[p][i]), Work[p][i].st)

\* A checker goes up the tree it has asked about, which is one that commits,
\* and if that had committed already, it still has.
CheckerInv ==
    /\ checker.was => checker.asked \in Committed
    /\ checker.at \in {"parent", "fetch"} =>
          \E r \in Requests :
             /\ r.st = "committed" /\ {checker.asked, checker.x} \subseteq TreeOf(r)
             /\ checker.at = "parent" => checker.x \in SubsOf(r)
    /\ checker.at = "done" =>
          /\ checker.answer => checker.asked \in Committed
          /\ checker.was => checker.answer

IInv ==
    /\ TypeOK
    /\ HolderInv
    /\ FieldInv
    /\ ListInv
    /\ ReleasedInv
    /\ StatusInv
    /\ CheckerInv

-----------------------------------------------------------------------------
(* Requests, trees and pages                                               *)

LEMMA WorkFacts ==
    ASSUME NEW p \in Procs
    PROVE  /\ Work[p] \in Seq(RequestRecords) /\ Len(Work[p]) \in Nat
           /\ DOMAIN Work[p] = 1 .. Len(Work[p])
           /\ \A i \in DOMAIN Work[p] : Work[p][i] \in RequestRecords \cap Requests
<1>1. Work[p] \in Seq(RequestRecords)
    BY ClogAssumption
<1>2. Len(Work[p]) \in Nat /\ DOMAIN Work[p] = 1 .. Len(Work[p])
    BY <1>1
<1>3. \A i \in DOMAIN Work[p] : Work[p][i] \in RequestRecords
    BY <1>1
<1>4. \A i \in DOMAIN Work[p] : Work[p][i] \in Requests
    BY DEF Requests, Range
<1> QED
    BY <1>1, <1>2, <1>3, <1>4

\* A request is somewhere in the work of a PGPROC.
LEMMA RequestPlace ==
    ASSUME NEW r \in Requests
    PROVE  \E p \in Procs : \E i \in DOMAIN Work[p] : r = Work[p][i]
BY DEF Requests, Range

LEMMA TreeFacts ==
    ASSUME NEW r \in Requests
    PROVE  /\ r \in RequestRecords
           /\ r.xid \in Nat /\ r.subs \in Seq(Nat) /\ r.cached \in Seq(Nat)
           /\ r.st \in {"committed", "aborted"}
           /\ TreeOf(r) \subseteq Xids /\ TreeOf(r) \subseteq Nat
           /\ r.xid \in TreeOf(r) /\ SubsOf(r) \subseteq TreeOf(r)
           /\ Elsewhere(r) \subseteq SubsOf(r) /\ r.xid \notin Elsewhere(r)
           /\ TreeOf(r) = {r.xid} \cup SubsOf(r)
<1>1. r \in RequestRecords
    BY RequestPlace, WorkFacts
<1>2. /\ r.xid \in Nat /\ r.subs \in Seq(Nat) /\ r.cached \in Seq(Nat)
      /\ r.st \in {"committed", "aborted"}
    BY <1>1 DEF RequestRecords
<1>3. SubsOf(r) \subseteq Nat
    BY <1>2 DEF SubsOf, Range
<1>4. TreeOf(r) \subseteq Xids
    BY DEF Xids
<1>5. r.xid \in TreeOf(r) /\ SubsOf(r) \subseteq TreeOf(r) /\ TreeOf(r) = {r.xid} \cup SubsOf(r)
    BY DEF TreeOf
<1>6. Elsewhere(r) \subseteq SubsOf(r) /\ r.xid \notin Elsewhere(r)
    BY DEF Elsewhere
<1> QED
    BY <1>1, <1>2, <1>3, <1>4, <1>5, <1>6

LEMMA XidsNat == Xids \subseteq Nat /\ NoXid \notin Xids
<1>1. Xids \subseteq Nat
    BY TreeFacts DEF Xids
<1> QED
    BY <1>1, ClogAssumption

\* An xid is of one request only, which is in one place.
LEMMA OnePlace ==
    ASSUME NEW p \in Procs, NEW q \in Procs,
           NEW i \in DOMAIN Work[p], NEW j \in DOMAIN Work[q],
           NEW x \in TreeOf(Work[p][i]), x \in TreeOf(Work[q][j])
    PROVE  p = q /\ i = j
BY TreeAssumption

LEMMA OneTree ==
    ASSUME NEW r \in Requests, NEW s \in Requests,
           NEW x \in TreeOf(r), x \in TreeOf(s)
    PROVE  r = s
<1>1. PICK p \in Procs : \E i \in DOMAIN Work[p] : r = Work[p][i]
    BY RequestPlace
<1>2. PICK i \in DOMAIN Work[p] : r = Work[p][i]
    BY <1>1
<1>3. PICK q \in Procs : \E j \in DOMAIN Work[q] : s = Work[q][j]
    BY RequestPlace
<1>4. PICK j \in DOMAIN Work[q] : s = Work[q][j]
    BY <1>3
<1> QED
    BY <1>2, <1>4, OnePlace

LEMMA PageIsNat == \A x \in Nat : Page(x) \in Nat
<1>1. CLOG_XACTS_PER_PAGE \in Nat /\ CLOG_XACTS_PER_PAGE > 0
    BY ClogAssumption
<1>2. ASSUME NEW x \in Nat, NEW c \in Nat, c > 0
      PROVE  x \div c \in Nat
    BY <1>2
<1> QED
    BY <1>1, <1>2 DEF Page

LEMMA BankOfPage == \A g \in Nat : BankOf(g) \in 0 .. Banks - 1
<1>1. Banks \in Nat /\ Banks > 0
    BY ClogAssumption
<1>2. ASSUME NEW g \in Nat, NEW b \in Nat, b > 0
      PROVE  g % b \in 0 .. b - 1
    BY <1>2
<1> QED
    BY <1>1, <1>2 DEF BankOf

LEMMA NoBankIsNone == NoBank \notin 0 .. Banks - 1
BY ClogAssumption

\* What a call writes, and what remains afterwards.
Phases == [phase : {"sub", "own", "final", "none"}, left : SUBSET Xids]

LEMMA CallOwn ==
    ASSUME NEW r \in Requests, NEW t \in Phases, t.phase = "own"
    PROVE  /\ PageCall(r, t).xid = r.xid /\ PageCall(r, t).st = r.st
           /\ PageCall(r, t).subs = SubsOf(r) \ Elsewhere(r)
           /\ PageCall(r, t).page = Page(r.xid) /\ PageCall(r, t).group = MayGroup(r)
           /\ AfterCall(r, t) = IF Elsewhere(r) # {} THEN Pass("final", Elsewhere(r))
                                ELSE Nothing
<1>1. t.phase # "sub"
    OBVIOUS
<1> QED
    BY <1>1 DEF PageCall, AfterCall

LEMMA CallElsewhere ==
    ASSUME NEW r \in Requests, NEW t \in Phases, t.phase # "own"
    PROVE  LET c == PageCall(r, t)
           IN /\ c.xid = NoXid /\ c.group = FALSE
              /\ c.subs \subseteq t.left
              /\ c.st = IF t.phase = "sub" THEN "sub_committed" ELSE r.st
              /\ AfterCall(r, t) = IF t.left \ c.subs # {} THEN Pass(t.phase, t.left \ c.subs)
                                   ELSE IF t.phase = "sub" THEN OwnPage
                                   ELSE Nothing
<1>1. PageCall(r, t) =
         set_status_by_pages(t.left, IF t.phase = "sub" THEN "sub_committed" ELSE r.st)
    BY DEF PageCall
<1>2. LET c == PageCall(r, t)
      IN /\ c.xid = NoXid /\ c.group = FALSE
         /\ c.subs \subseteq t.left
         /\ c.st = IF t.phase = "sub" THEN "sub_committed" ELSE r.st
    BY <1>1 DEF set_status_by_pages
<1> QED
    BY <1>2 DEF AfterCall

LEMMA PassTypes ==
    /\ OwnPage \in Phases /\ Nothing \in Phases
    /\ OwnPage.phase = "own" /\ Nothing.phase = "none" /\ OwnPage # Nothing
    /\ OwnPage.left = {} /\ Nothing.left = {}
    /\ \A ph \in {"sub", "own", "final", "none"}, S \in SUBSET Xids :
          Pass(ph, S) \in Phases /\ Pass(ph, S).phase = ph /\ Pass(ph, S).left = S
BY DEF OwnPage, Nothing, Pass, Phases

LEMMA StartTypes ==
    ASSUME NEW r \in Requests
    PROVE  CLogSetTreeStatus(r) \in Phases
<1>1. Elsewhere(r) \in SUBSET Xids
    BY TreeFacts
<1> QED
    BY <1>1, PassTypes DEF CLogSetTreeStatus

LEMMA AfterTypes ==
    ASSUME NEW r \in Requests, NEW t \in Phases
    PROVE  AfterCall(r, t) \in Phases
<1>1. Elsewhere(r) \in SUBSET Xids
    BY TreeFacts
<1>2. CASE t.phase = "own"
    BY <1>1, <1>2, CallOwn, PassTypes
<1>3. CASE t.phase # "own"
    <2>1. PICK S \in SUBSET Xids : S = t.left \ PageCall(r, t).subs
        BY DEF Phases
    <2>2. t.phase \in {"sub", "own", "final", "none"}
        BY DEF Phases
    <2>3. AfterCall(r, t) \in {Pass(t.phase, S), OwnPage, Nothing}
        BY <1>3, <2>1, CallElsewhere
    <2> QED
        BY <2>2, <2>3, PassTypes
<1> QED
    BY <1>2, <1>3

-----------------------------------------------------------------------------
(* Types                                                                   *)

\* A step belongs to a PGPROC or to the checker.
LEMMA Steps ==
    ASSUME [Next]_vars
    PROVE  \/ UNCHANGED vars
           \/ \E p \in Procs :
                 \/ Start(p) \/ Finish(p) \/ SetAlone(p) \/ SetMember(p) \/ OtherPage(p)
                 \/ SetNext(p) \/ Join(p) \/ JoinFails(p) \/ Sleep(p) \/ Detach(p)
                 \/ ReleaseBank(p) \/ AcquireBank(p) \/ Serve(p) \/ Unlock(p)
                 \/ Release(p) \/ SemUnlock(p) \/ Leave(p)
           \/ \E x \in Asked : TransactionIdDidCommit(x)
           \/ SubTransGetParent \/ DidParentCommit
BY DEF Next, Step, Check

\* The checker changes nothing but what it knows.
LEMMA CheckerSteps ==
    ASSUME \/ \E x \in Asked : TransactionIdDidCommit(x)
           \/ SubTransGetParent \/ DidParentCommit \/ UNCHANGED vars
    PROVE  UNCHANGED <<clog, csnSet, bankHolder, first, next, member, fields, cached, sem, pc,
                      todo, sent, nextidx, wakeidx, bank, extraWaits>>
BY DEF TransactionIdDidCommit, SubTransGetParent, DidParentCommit, vars, logVars, procVars,
       listVars, semVars, callVars, leaderVars

LEMMA TypeFacts ==
    ASSUME TypeOK, NEW p \in Procs
    PROVE  /\ todo \in [Procs -> Phases] /\ todo[p] \in Phases
           /\ sent[p] \in Nat /\ sent[p] <= Len(Work[p])
           /\ pc[p] \in Labels /\ member[p] \in BOOLEAN
           /\ \A x \in Xids : clog[x] \in Statuses
BY DEF TypeOK, Phases

\* The request a session is at, when it is at one.
LEMMA RequestFacts ==
    ASSUME TypeOK, NEW p \in Procs, sent[p] \in DOMAIN Work[p]
    PROVE  Request(p) \in Requests
BY WorkFacts DEF Request

LEMMA WrittenType ==
    ASSUME TypeOK, NEW xid, NEW subs, NEW st \in Statuses
    PROVE  Written(xid, subs, st) \in [Xids -> Statuses]
BY DEF TypeOK, Written

LEMMA CallStatus ==
    ASSUME NEW r \in Requests, NEW t \in Phases
    PROVE  PageCall(r, t).st \in Statuses
<1>1. r.st \in Statuses /\ "sub_committed" \in Statuses
    BY TreeFacts DEF Statuses
<1>2. CASE t.phase = "own"
    BY <1>1, <1>2, CallOwn
<1>3. CASE t.phase # "own"
    BY <1>1, <1>3, CallElsewhere
<1> QED
    BY <1>2, <1>3

\* The types of what a checker knows.
CheckerType ==
    [at : {"idle", "parent", "fetch", "done"}, x : Xids \cup {NoXid},
     asked : Xids \cup {NoXid}, was : BOOLEAN, answer : BOOLEAN]

LEMMA FetchFacts ==
    ASSUME NEW c \in CheckerType, NEW x \in Xids, TransactionLogFetch(c, x)
    PROVE  /\ checker' \in CheckerType
           /\ checker'.x = x /\ checker'.asked = c.asked /\ checker'.was = c.was
           /\ checker'.at = IF clog[x] = "sub_committed" THEN "parent" ELSE "done"
           /\ checker'.answer <=> clog[x] = "committed"
BY DEF TransactionLogFetch, CheckerType

LEMMA IdleFacts ==
    ASSUME NEW x \in Xids, NEW b \in BOOLEAN
    PROVE  /\ [Idle EXCEPT !.asked = x, !.was = b] \in CheckerType
           /\ [Idle EXCEPT !.asked = x, !.was = b].asked = x
           /\ [Idle EXCEPT !.asked = x, !.was = b].was = b
BY DEF Idle, CheckerType

LEMMA CheckerTypeStep ==
    ASSUME TypeOK, CheckerInv,
           \/ \E x \in Asked : TransactionIdDidCommit(x)
           \/ SubTransGetParent \/ DidParentCommit
    PROVE  checker' \in CheckerType
<1>0. checker \in CheckerType
    BY DEF TypeOK, CheckerType
<1>1. ASSUME NEW x \in Asked, TransactionIdDidCommit(x)
      PROVE  checker' \in CheckerType
    <2>1. x \in Xids
        BY ClogAssumption
    <2> DEFINE b == x \in Committed
    <2>2. b \in BOOLEAN
        OBVIOUS
    <2>3. TransactionLogFetch([Idle EXCEPT !.asked = x, !.was = b], x)
        BY <1>1 DEF TransactionIdDidCommit
    <2> HIDE DEF b
    <2> QED
        BY <2>1, <2>2, <2>3, IdleFacts, FetchFacts
<1>2. CASE SubTransGetParent
    <2>1. checker.at = "parent"
        BY <1>2 DEF SubTransGetParent
    <2>2. PICK r \in Requests : checker.x \in SubsOf(r)
        BY <2>1 DEF CheckerInv
    <2>3. Parent[checker.x] \in Xids
        BY <2>2, TreeAssumption, TreeFacts
    <2> QED
        BY <1>0, <1>2, <2>3 DEF SubTransGetParent, CheckerType
<1>3. CASE DidParentCommit
    <2>1. checker.at = "fetch" /\ TransactionLogFetch(checker, checker.x)
        BY <1>3 DEF DidParentCommit
    <2>2. PICK r \in Requests : {checker.asked, checker.x} \subseteq TreeOf(r)
        BY <2>1 DEF CheckerInv
    <2>3. checker.x \in Xids
        BY <2>2, TreeFacts
    <2> QED
        BY <1>0, <2>1, <2>3, FetchFacts
<1> QED
    BY <1>1, <1>2, <1>3

LEMMA TypeStep ==
    ASSUME TypeOK, HolderInv, FieldInv, ListInv, CheckerInv, [Next]_vars
    PROVE  TypeOK'
<1>1. CASE UNCHANGED vars
    BY <1>1 DEF vars, logVars, procVars, listVars, semVars, callVars, leaderVars, TypeOK
<1>2. CASE \/ \E x \in Asked : TransactionIdDidCommit(x)
           \/ SubTransGetParent \/ DidParentCommit
    <2>1. checker' \in CheckerType
        BY <1>2, CheckerTypeStep
    <2> QED
        BY <1>2, <2>1, CheckerSteps DEF TypeOK, CheckerType
<1>3. ASSUME NEW p \in Procs, Start(p)
      PROVE  TypeOK'
    <2>1. sent[p] + 1 \in DOMAIN Work[p]
        BY <1>3, WorkFacts DEF Start, TypeOK
    <2>2. PICK r \in Requests : r = Work[p][sent[p] + 1]
        BY <2>1, WorkFacts
    <2>3. r.cached \in Seq(Nat)
        BY <2>2, TreeFacts
    <2>4. CLogSetTreeStatus(r) \in Phases
        BY StartTypes
    <2>5. /\ sent' = [sent EXCEPT ![p] = sent[p] + 1]
          /\ todo' = [todo EXCEPT ![p] = CLogSetTreeStatus(r)]
          /\ cached' = [cached EXCEPT ![p] = r.cached]
          /\ pc' = [pc EXCEPT ![p] = "call"]
          /\ UNCHANGED <<clog, csnSet, bankHolder, first, next, member, fields, sem, nextidx,
                        wakeidx, bank, extraWaits, checker>>
        BY <1>3, <2>2 DEF Start, Goto, logVars, listVars, semVars, leaderVars
    <2>6. sent' \in [Procs -> Nat] /\ \A q \in Procs : sent'[q] <= Len(Work[q])
        <3>1. sent \in [Procs -> Nat] /\ \A q \in Procs : sent[q] <= Len(Work[q])
            BY DEF TypeOK
        <3>2. sent[p] + 1 <= Len(Work[p])
            BY <2>1, WorkFacts
        <3> QED
            BY <2>5, <3>1, <3>2
    <2>7. todo' \in [Procs -> Phases]
        BY <2>4, <2>5, TypeFacts
    <2>8. cached' \in [Procs -> Seq(Nat)]
        BY <2>3, <2>5 DEF TypeOK
    <2>9. pc' \in [Procs -> Labels]
        BY <2>5 DEF TypeOK, Labels
    <2> QED
        BY <2>5, <2>6, <2>7, <2>8, <2>9 DEF TypeOK, Phases
<1>4. ASSUME NEW p \in Procs, Finish(p)
      PROVE  TypeOK'
    <2>1. /\ csnSet' = csnSet \cup TreeOf(Request(p)) /\ pc[p] = "call"
          /\ cached' = [cached EXCEPT ![p] = <<>>]
          /\ pc' = [pc EXCEPT ![p] = "idle"]
          /\ UNCHANGED <<clog, bankHolder, first, next, member, fields, sem, nextidx,
                        wakeidx, bank, extraWaits, checker, todo, sent>>
        BY <1>4 DEF Finish, Goto, listVars, semVars, leaderVars, callVars
    <2>2. csnSet' \subseteq Xids
        BY <2>1, RequestFacts, TreeFacts DEF FieldInv, TypeOK
    <2>3. cached' \in [Procs -> Seq(Nat)] /\ pc' \in [Procs -> Labels]
        BY <2>1 DEF TypeOK, Labels
    <2> QED
        BY <2>1, <2>2, <2>3 DEF TypeOK
<1>5. ASSUME NEW p \in Procs, SetAlone(p)
      PROVE  TypeOK'
    <2>1. PICK r \in Requests : r = Request(p)
        BY <1>5, RequestFacts DEF FieldInv, SetAlone
    <2>2. /\ clog' = Written(NextCall(p).xid, NextCall(p).subs, NextCall(p).st)
          /\ todo' = [todo EXCEPT ![p] = AfterCall(r, todo[p])]
          /\ pc' = [pc EXCEPT ![p] = "call"]
          /\ UNCHANGED <<csnSet, bankHolder, first, next, member, fields, cached, sem, nextidx,
                        wakeidx, bank, extraWaits, checker, sent>>
        BY <1>5, <2>1 DEF SetAlone, CallOver, Goto, procVars, listVars, semVars, leaderVars
    <2>3. NextCall(p).st \in Statuses
        BY <2>1, TypeFacts, CallStatus DEF NextCall
    <2>4. clog' \in [Xids -> Statuses]
        BY <2>2, <2>3, WrittenType
    <2>5. todo' \in [Procs -> Phases]
        BY <2>2, TypeFacts, AfterTypes
    <2>6. pc' \in [Procs -> Labels]
        BY <2>2 DEF TypeOK, Labels
    <2> QED
        BY <2>2, <2>4, <2>5, <2>6 DEF TypeOK, Phases
<1>6. ASSUME NEW p \in Procs, SetMember(p)
      PROVE  TypeOK'
    <2>1. PICK r \in Requests : r = Request(p)
        BY <1>6, RequestFacts DEF FieldInv, SetMember
    <2> DEFINE c == PageCall(r, todo[p])
    <2>2. /\ c.group
          /\ fields' = [fields EXCEPT ![p] = [xid |-> c.xid, st |-> c.st, page |-> c.page]]
          /\ member' = [member EXCEPT ![p] = TRUE]
          /\ nextidx' = [nextidx EXCEPT ![p] = first]
          /\ pc' = [pc EXCEPT ![p] = "check"]
          /\ UNCHANGED <<clog, csnSet, bankHolder, first, next, cached, sem, todo, sent,
                        wakeidx, bank, extraWaits, checker>>
        BY <1>6, <2>1 DEF SetMember, NextCall, Goto, logVars, semVars, callVars
    <2>3. todo[p].phase = "own"
        BY <2>2, TypeFacts, CallElsewhere
    <2>4. c.xid \in Xids /\ c.st \in Statuses /\ c.page \in Nat
        BY <2>3, TypeFacts, CallOwn, TreeFacts, PageIsNat, CallStatus
    <2>5. fields' \in [Procs -> [xid : Xids \cup {NoXid}, st : Statuses, page : Nat]]
        <3> HIDE DEF c
        <3> QED
            BY <2>2, <2>4 DEF TypeOK
    <2>6. /\ member' \in [Procs -> BOOLEAN] /\ pc' \in [Procs -> Labels]
          /\ nextidx' \in [Procs -> Procs \cup {NoProc}]
        BY <2>2 DEF TypeOK, Labels
    <2> QED
        BY <2>2, <2>5, <2>6 DEF TypeOK
<1>7. ASSUME NEW p \in Procs, OtherPage(p) \/ SetNext(p) \/ Join(p) \/ JoinFails(p)
      PROVE  TypeOK'
    <2> USE DEF TypeOK, Labels, Goto, logVars, procVars, listVars, semVars, callVars, leaderVars
    <2>1. CASE OtherPage(p)
        BY <2>1 DEF OtherPage
    <2>2. CASE SetNext(p)
        BY <2>2 DEF SetNext
    <2>3. CASE Join(p)
        BY <2>3 DEF Join
    <2>4. CASE JoinFails(p)
        BY <2>4 DEF JoinFails
    <2> QED
        BY <1>7, <2>1, <2>2, <2>3, <2>4
<1>8. ASSUME NEW p \in Procs, Sleep(p)
      PROVE  TypeOK'
    <2>1. /\ sem[p] > 0
          /\ UNCHANGED <<clog, csnSet, bankHolder, first, next, member, fields, cached,
                        nextidx, wakeidx, bank, checker, sent>>
        BY <1>8 DEF Sleep, logVars, procVars, listVars, leaderVars
    <2>2. sem \in [Procs -> Nat] /\ extraWaits \in [Procs -> Nat] /\ pc \in [Procs -> Labels]
        BY DEF TypeOK
    <2>3. CASE /\ sem' = [sem EXCEPT ![p] = sem[p] - 1 + extraWaits[p]]
               /\ extraWaits' = [extraWaits EXCEPT ![p] = 0]
               /\ todo' = [todo EXCEPT ![p] = AfterCall(Request(p), todo[p])]
               /\ pc' = [pc EXCEPT ![p] = "call"]
        <3>1. Request(p) \in Requests
            BY <1>8, RequestFacts DEF FieldInv, Sleep
        <3>2. todo' \in [Procs -> Phases]
            BY <2>3, <3>1, TypeFacts, AfterTypes
        <3>3. sem' \in [Procs -> Nat] /\ extraWaits' \in [Procs -> Nat]
            BY <2>1, <2>2, <2>3
        <3>4. pc' \in [Procs -> Labels]
            BY <2>2, <2>3 DEF Labels
        <3> QED
            BY <2>1, <3>2, <3>3, <3>4 DEF TypeOK, Phases
    <2>4. CASE /\ sem' = [sem EXCEPT ![p] = sem[p] - 1]
               /\ extraWaits' = [extraWaits EXCEPT ![p] = extraWaits[p] + 1]
               /\ UNCHANGED <<pc, todo>>
        <3>3. sem' \in [Procs -> Nat] /\ extraWaits' \in [Procs -> Nat]
            BY <2>1, <2>2, <2>4
        <3> QED
            BY <2>1, <2>4, <3>3 DEF TypeOK
    <2> QED
        BY <1>8, <2>3, <2>4 DEF Sleep, CallOver, Goto
<1>9. ASSUME NEW p \in Procs, Detach(p)
      PROVE  TypeOK'
    <2>1. BankOf(fields[p].page) \in 0 .. Banks - 1
        BY BankOfPage DEF TypeOK
    <2> QED
        BY <1>9, <2>1 DEF Detach, TypeOK, Labels, Goto, procVars, semVars, callVars
<1>10. ASSUME NEW p \in Procs, ReleaseBank(p) \/ Unlock(p)
       PROVE  TypeOK'
    BY <1>10 DEF ReleaseBank, Unlock, TypeOK, Labels, Goto, procVars, listVars, semVars, callVars
<1>11. ASSUME NEW p \in Procs, AcquireBank(p)
       PROVE  TypeOK'
    <2>1. pc[p] = "relock"
        BY <1>11 DEF AcquireBank
    <2>2. nextidx[p] \in Procs
        BY <2>1 DEF HolderInv, TypeOK
    <2>3. BankOf(fields[nextidx[p]].page) \in 0 .. Banks - 1
        BY <2>2, BankOfPage DEF TypeOK
    <2> QED
        BY <1>11, <2>3 DEF AcquireBank, TypeOK, Labels, Goto, procVars, listVars, semVars, callVars
<1>12. ASSUME NEW p \in Procs, Serve(p)
       PROVE  TypeOK'
    <2>1. PICK m \in Procs : m = nextidx[p]
        BY <1>12 DEF Serve, TypeOK
    <2>2. /\ clog' = Written(fields[m].xid, Range(cached[m]), fields[m].st)
          /\ nextidx' = [nextidx EXCEPT ![p] = next[m]]
          /\ UNCHANGED <<csnSet, bankHolder, first, next, member, fields, cached, sem, todo,
                        sent, wakeidx, bank, extraWaits, pc, checker>>
        BY <1>12, <2>1 DEF Serve, procVars, listVars, semVars, callVars
    <2>3. fields[m].st \in Statuses
        BY DEF TypeOK
    <2>4. clog' \in [Xids -> Statuses]
        BY <2>2, <2>3, WrittenType
    <2> QED
        BY <2>2, <2>4 DEF TypeOK
<1>13. ASSUME NEW p \in Procs, Release(p)
       PROVE  TypeOK'
    BY <1>13 DEF Release, TypeOK, Labels, Goto, logVars, procVars, semVars, callVars
<1>14. ASSUME NEW p \in Procs, SemUnlock(p)
       PROVE  TypeOK'
    <2>1. /\ sem' = [sem EXCEPT ![nextidx[p]] = sem[nextidx[p]] + 1]
          /\ nextidx' = [nextidx EXCEPT ![p] = NoProc]
          /\ pc' = [pc EXCEPT ![p] = "wake"]
          /\ UNCHANGED <<clog, csnSet, bankHolder, first, next, member, fields, cached, todo,
                        sent, wakeidx, bank, extraWaits, checker>>
        BY <1>14 DEF SemUnlock, Goto, logVars, procVars, listVars, callVars
    <2>2. sem' \in [Procs -> Nat]
        <3>1. sem \in [Procs -> Nat]
            BY DEF TypeOK
        <3>2. CASE nextidx[p] \in Procs
            BY <2>1, <3>1, <3>2
        <3>3. CASE nextidx[p] \notin Procs
            BY <2>1, <3>1, <3>3
        <3> QED
            BY <3>2, <3>3
    <2>3. nextidx' \in [Procs -> Procs \cup {NoProc}] /\ pc' \in [Procs -> Labels]
        BY <2>1 DEF TypeOK, Labels
    <2> QED
        BY <2>1, <2>2, <2>3 DEF TypeOK
<1>15. ASSUME NEW p \in Procs, Leave(p)
       PROVE  TypeOK'
    <2>1. /\ todo' = [todo EXCEPT ![p] = AfterCall(Request(p), todo[p])]
          /\ pc' = [pc EXCEPT ![p] = "call"]
          /\ UNCHANGED <<clog, csnSet, bankHolder, first, next, member, fields, cached, sem,
                        sent, nextidx, wakeidx, bank, extraWaits, checker>>
        BY <1>15 DEF Leave, CallOver, Goto, logVars, procVars, listVars, semVars, leaderVars
    <2>2. Request(p) \in Requests
        BY <1>15, RequestFacts DEF FieldInv, Leave
    <2>3. todo' \in [Procs -> Phases]
        BY <2>1, <2>2, TypeFacts, AfterTypes
    <2>4. pc' \in [Procs -> Labels]
        BY <2>1 DEF TypeOK, Labels
    <2> QED
        BY <2>1, <2>3, <2>4 DEF TypeOK, Phases
<1> QED
    BY <1>1, <1>2, <1>3, <1>4, <1>5, <1>6, <1>7, <1>8, <1>9, <1>10, <1>11, <1>12, <1>13, <1>14,
       <1>15, Steps

-----------------------------------------------------------------------------
(* Locks and fields                                                        *)

\* A step that leaves the locks alone and brings nobody to where they matter.
LEMMA SameHolder ==
    ASSUME HolderInv, UNCHANGED <<bankHolder, bank>>,
           \A q \in Procs :
              /\ pc'[q] = "walk" => pc[q] = "walk"
              /\ pc'[q] = "relock" => pc[q] = "relock" /\ nextidx'[q] = nextidx[q]
    PROVE  HolderInv'
BY DEF HolderInv

\* A leader takes the lock of a bank that nobody holds.
LEMMA TakeBank ==
    ASSUME TypeOK, HolderInv, NEW p \in Procs, NEW b \in 0 .. Banks - 1,
           bankHolder[b] = NoProc,
           bankHolder' = [bankHolder EXCEPT ![b] = p],
           bank' = [bank EXCEPT ![p] = b],
           pc' = [pc EXCEPT ![p] = "walk"],
           \A q \in Procs : q # p => nextidx'[q] = nextidx[q]
    PROVE  HolderInv'
<1>1. ASSUME NEW q \in Procs, q # p, pc[q] = "walk"
      PROVE  bank[q] # b
    BY <1>1, ClogAssumption DEF HolderInv
<1>2. b # NoBank
    BY NoBankIsNone
<1>3. /\ bankHolder'[b] = p /\ bank'[p] = b /\ pc'[p] = "walk"
      /\ \A q \in Procs : q # p => bank'[q] = bank[q] /\ pc'[q] = pc[q]
      /\ \A c \in 0 .. Banks - 1 : c # b => bankHolder'[c] = bankHolder[c]
      /\ \A q \in Procs : bank[q] # NoBank => bank[q] \in 0 .. Banks - 1
    BY DEF TypeOK
<1>4. ASSUME NEW q \in Procs, q # p
      PROVE  /\ pc'[q] = "walk" => bank'[q] # NoBank /\ bankHolder'[bank'[q]] = q
             /\ pc'[q] = "relock" => nextidx'[q] # NoProc
    BY <1>1, <1>3, <1>4 DEF HolderInv
<1> QED
    BY <1>2, <1>3, <1>4 DEF HolderInv

\* A leader gives its bank's lock back.
LEMMA GiveBank ==
    ASSUME TypeOK, HolderInv, NEW p \in Procs, pc[p] = "walk",
           bankHolder' = [bankHolder EXCEPT ![bank[p]] = NoProc],
           bank' = [bank EXCEPT ![p] = NoBank], UNCHANGED nextidx,
           NEW label \in Labels \ {"walk"}, pc' = [pc EXCEPT ![p] = label],
           label = "relock" => nextidx[p] # NoProc
    PROVE  HolderInv'
<1>1. ASSUME NEW q \in Procs, q # p, pc[q] = "walk"
      PROVE  bank[q] # bank[p]
    BY <1>1 DEF HolderInv
<1> QED
    BY <1>1 DEF HolderInv, TypeOK

LEMMA HolderStep ==
    ASSUME TypeOK, HolderInv, [Next]_vars
    PROVE  HolderInv'
<1>0. pc \in [Procs -> Labels] /\ nextidx \in [Procs -> Procs \cup {NoProc}]
    BY DEF TypeOK
<1>1. CASE \/ UNCHANGED vars \/ \E x \in Asked : TransactionIdDidCommit(x)
           \/ SubTransGetParent \/ DidParentCommit
    BY <1>1, CheckerSteps, SameHolder
<1>2. ASSUME NEW p \in Procs,
             \/ Start(p) \/ Finish(p) \/ SetAlone(p) \/ SetMember(p) \/ OtherPage(p)
             \/ SetNext(p) \/ Join(p) \/ JoinFails(p) \/ Sleep(p) \/ Release(p)
             \/ SemUnlock(p) \/ Leave(p) \/ Serve(p)
      PROVE  HolderInv'
    <2>1. /\ UNCHANGED <<bankHolder, bank>>
          /\ \A q \in Procs : q # p => pc'[q] = pc[q] /\ nextidx'[q] = nextidx[q]
          /\ pc'[p] = "walk" => pc[p] = "walk"
          /\ pc'[p] # "relock"
        <3> USE <1>0 DEF Goto, logVars, procVars, listVars, semVars, callVars, leaderVars
        <3>1. CASE Start(p) \/ Finish(p) \/ SetAlone(p) \/ SetMember(p)
            BY <3>1 DEF Start, Finish, SetAlone, SetMember
        <3>2. CASE OtherPage(p) \/ SetNext(p) \/ Join(p) \/ JoinFails(p)
            BY <3>2 DEF OtherPage, SetNext, Join, JoinFails
        <3>3. CASE Sleep(p)
            BY <3>3 DEF Sleep
        <3>4. CASE Release(p) \/ SemUnlock(p) \/ Leave(p)
            BY <3>4 DEF Release, SemUnlock, Leave
        <3>5. CASE Serve(p)
            BY <3>5 DEF Serve
        <3> QED
            BY <1>2, <3>1, <3>2, <3>3, <3>4, <3>5
    <2> QED
        BY <2>1, SameHolder
<1>3. ASSUME NEW p \in Procs, Detach(p)
      PROVE  HolderInv'
    <2>1. PICK b \in 0 .. Banks - 1 : b = BankOf(fields[p].page)
        BY BankOfPage DEF TypeOK
    <2>2. \A q \in Procs : q # p => nextidx'[q] = nextidx[q]
        BY <1>0, <1>3 DEF Detach
    <2> QED
        BY <1>3, <2>1, <2>2, TakeBank DEF Detach, Goto
<1>4. ASSUME NEW p \in Procs, AcquireBank(p)
      PROVE  HolderInv'
    <2>1. nextidx[p] \in Procs
        BY <1>0, <1>4 DEF HolderInv, AcquireBank
    <2>2. PICK b \in 0 .. Banks - 1 : b = BankOf(fields[nextidx[p]].page)
        BY <2>1, BankOfPage DEF TypeOK
    <2> QED
        BY <1>4, <2>2, TakeBank DEF AcquireBank, Goto
<1>5. ASSUME NEW p \in Procs, ReleaseBank(p)
      PROVE  HolderInv'
    <2>1. "relock" \in Labels \ {"walk"}
        BY DEF Labels
    <2> QED
        BY <1>5, <2>1, GiveBank DEF ReleaseBank, WrongBank, Goto
<1>6. ASSUME NEW p \in Procs, Unlock(p)
      PROVE  HolderInv'
    <2>1. "wake" \in Labels \ {"walk"}
        BY DEF Labels
    <2> QED
        BY <1>6, <2>1, GiveBank DEF Unlock, Goto
<1> QED
    BY <1>1, <1>2, <1>3, <1>4, <1>5, <1>6, Steps

\* What FieldInv says of one PGPROC.
FieldsOf(p) ==
    /\ pc[p] # "idle" => sent[p] \in DOMAIN Work[p] /\ cached[p] = Work[p][sent[p]].cached
    /\ pc[p] \in {"check", "swap", "sleep"} \cup Leading =>
          /\ todo[p].phase = "own" /\ MayGroup(Work[p][sent[p]])
          /\ fields[p].xid = Work[p][sent[p]].xid /\ fields[p].st = Work[p][sent[p]].st
    /\ pc[p] \in {"check", "swap"} => member[p]
    /\ pc[p] = "swap" => next[p] = nextidx[p]

LEMMA FieldsOfAll == FieldInv <=> \A p \in Procs : FieldsOf(p)
BY DEF FieldInv, FieldsOf, Request

\* A leader touches member and clogGroupNext of those on its list only.
LEMMA ReleasesQueued ==
    ASSUME TypeOK, ListInv, NEW p \in Procs, Release(p)
    PROVE  wakeidx[p] \in Procs /\ Queued(wakeidx[p])
<1>1. PICK own \in [Procs -> Procs \cup {NoProc}], done \in SUBSET Procs :
            OwnInv(own) /\ LinkInv(own) /\ RootInv(own) /\ DoneInv(own, done)
    BY DEF ListInv
<1>2. wakeidx[p] \in Procs /\ pc[p] = "wake"
    BY DEF Release, TypeOK
<1>3. own[wakeidx[p]] = p
    BY <1>1, <1>2, ClogAssumption DEF RootInv, Unrolling
<1> QED
    BY <1>1, <1>2, <1>3, ClogAssumption DEF OwnInv

LEMMA FieldStep ==
    ASSUME TypeOK, ListInv, FieldInv, [Next]_vars
    PROVE  FieldInv'
<1> SUFFICES ASSUME NEW q \in Procs
             PROVE  FieldsOf(q)'
    BY FieldsOfAll DEF FieldInv, FieldsOf, Request
<1>0. FieldsOf(q)
    BY FieldsOfAll
<1>00. /\ pc \in [Procs -> Labels] /\ nextidx \in [Procs -> Procs \cup {NoProc}]
       /\ next \in [Procs -> Procs \cup {NoProc}] /\ member \in [Procs -> BOOLEAN]
       /\ todo \in [Procs -> Phases] /\ sent \in [Procs -> Nat]
       /\ cached \in [Procs -> Seq(Nat)] /\ fields = [r \in Procs |-> fields[r]]
    BY DEF TypeOK, Phases
<1>1. CASE \/ UNCHANGED vars \/ \E x \in Asked : TransactionIdDidCommit(x)
           \/ SubTransGetParent \/ DidParentCommit
    BY <1>0, <1>1, CheckerSteps DEF FieldsOf
<1>2. ASSUME NEW p \in Procs, Start(p)
      PROVE  FieldsOf(q)'
    <2>1. sent[p] + 1 \in DOMAIN Work[p]
        BY <1>2, WorkFacts DEF Start, TypeOK
    <2>2. /\ sent' = [sent EXCEPT ![p] = sent[p] + 1]
          /\ cached' = [cached EXCEPT ![p] = Work[p][sent[p] + 1].cached]
          /\ pc' = [pc EXCEPT ![p] = "call"]
          /\ \A r \in Procs : r # p => todo'[r] = todo[r]
          /\ UNCHANGED <<fields, member, next, nextidx>>
        BY <1>00, <1>2 DEF Start, Goto, logVars, listVars, semVars, leaderVars
    <2>3. CASE q = p
        BY <1>00, <2>1, <2>2, <2>3 DEF FieldsOf, Leading, Walking, Unrolling
    <2>4. CASE q # p
        BY <1>0, <1>00, <2>2, <2>4 DEF FieldsOf
    <2> QED
        BY <2>3, <2>4
<1>3. ASSUME NEW p \in Procs, Finish(p)
      PROVE  FieldsOf(q)'
    <2>2. /\ cached' = [cached EXCEPT ![p] = <<>>]
          /\ pc' = [pc EXCEPT ![p] = "idle"]
          /\ UNCHANGED <<sent, todo, fields, member, next, nextidx>>
        BY <1>3 DEF Finish, Goto, logVars, listVars, semVars, leaderVars, callVars
    <2>3. CASE q = p
        BY <1>00, <2>2, <2>3 DEF FieldsOf, Leading, Walking, Unrolling
    <2>4. CASE q # p
        BY <1>0, <1>00, <2>2, <2>4 DEF FieldsOf
    <2> QED
        BY <2>3, <2>4
<1>4. ASSUME NEW p \in Procs, SetAlone(p) \/ Leave(p) \/ (Sleep(p) /\ Awake(p))
      PROVE  FieldsOf(q)'
    <2>1. /\ pc[p] # "idle" /\ pc' = [pc EXCEPT ![p] = "call"]
          /\ \A r \in Procs : r # p => todo'[r] = todo[r]
          /\ UNCHANGED <<sent, cached, fields, member, next, nextidx>>
        BY <1>00, <1>4 DEF SetAlone, Leave, Sleep, CallOver, Goto, procVars, listVars, leaderVars
    <2>3. CASE q = p
        BY <1>0, <1>00, <2>1, <2>3 DEF FieldsOf, Leading, Walking, Unrolling
    <2>4. CASE q # p
        BY <1>0, <1>00, <2>1, <2>4 DEF FieldsOf
    <2> QED
        BY <2>3, <2>4
<1>5. ASSUME NEW p \in Procs, Sleep(p) /\ ~Awake(p)
      PROVE  FieldsOf(q)'
    <2>1. UNCHANGED <<pc, todo, sent, cached, fields, member, next, nextidx>>
        BY <1>5 DEF Sleep, procVars, listVars, leaderVars
    <2> QED
        BY <1>0, <2>1 DEF FieldsOf
<1>6. ASSUME NEW p \in Procs, SetMember(p)
      PROVE  FieldsOf(q)'
    <2>1. PICK r \in Requests : r = Request(p)
        BY <1>6, RequestFacts DEF FieldInv, SetMember
    <2> DEFINE c == PageCall(r, todo[p])
    <2>2. /\ c.group /\ pc[p] = "call"
          /\ fields' = [fields EXCEPT ![p] = [xid |-> c.xid, st |-> c.st, page |-> c.page]]
          /\ member' = [member EXCEPT ![p] = TRUE]
          /\ nextidx' = [nextidx EXCEPT ![p] = first]
          /\ pc' = [pc EXCEPT ![p] = "check"]
          /\ UNCHANGED <<next, cached, todo, sent>>
        BY <1>6, <2>1 DEF SetMember, NextCall, Goto, logVars, semVars, callVars
    <2>3. todo[p].phase = "own"
        BY <2>2, TypeFacts, CallElsewhere
    <2>4. c.xid = r.xid /\ c.st = r.st /\ MayGroup(r)
        BY <2>2, <2>3, TypeFacts, CallOwn
    <2>5. CASE q = p
        <3>2. fields'[p].xid = r.xid /\ fields'[p].st = r.st
            <4> HIDE DEF c
            <4> QED
                BY <1>00, <2>2, <2>4
        <3> QED
            BY <1>0, <1>00, <2>1, <2>2, <2>4, <2>3, <2>5, <3>2
               DEF FieldsOf, Request, Leading, Walking, Unrolling
    <2>6. CASE q # p
        <3> HIDE DEF c
        <3> QED
            BY <1>0, <1>00, <2>2, <2>6 DEF FieldsOf
    <2> QED
        BY <2>5, <2>6
<1>7. ASSUME NEW p \in Procs, OtherPage(p) \/ SetNext(p) \/ Join(p) \/ JoinFails(p)
      PROVE  FieldsOf(q)'
    <2>0. UNCHANGED <<cached, todo, sent, fields>>
        BY <1>7 DEF OtherPage, SetNext, Join, JoinFails, procVars, callVars
    <2> USE <1>0, <1>00, <2>0 DEF FieldsOf, Goto, listVars, leaderVars, Leading, Walking, Unrolling
    <2>1. CASE OtherPage(p)
        BY <2>1 DEF OtherPage
    <2>2. CASE SetNext(p)
        BY <2>2 DEF SetNext
    <2>3. CASE Join(p)
        BY <2>3 DEF Join
    <2>4. CASE JoinFails(p)
        BY <2>4 DEF JoinFails
    <2> QED
        BY <1>7, <2>1, <2>2, <2>3, <2>4
<1>8. ASSUME NEW p \in Procs,
             Detach(p) \/ ReleaseBank(p) \/ AcquireBank(p) \/ Serve(p) \/ Unlock(p) \/ SemUnlock(p)
      PROVE  FieldsOf(q)'
    <2>0. /\ UNCHANGED <<cached, todo, sent, fields, next, member>>
          /\ pc[p] \in Leading /\ pc'[p] \in Leading
          /\ \A r \in Procs : r # p => pc'[r] = pc[r] /\ nextidx'[r] = nextidx[r]
        BY <1>00, <1>8 DEF Detach, ReleaseBank, AcquireBank, Serve, Unlock, SemUnlock, Goto,
           procVars, listVars, callVars, Leading, Walking, Unrolling
    <2>1. pc'[p] \notin {"idle", "check", "swap"}
        BY <2>0 DEF Leading, Walking, Unrolling
    <2>2. CASE q = p
        BY <1>0, <2>0, <2>1, <2>2 DEF FieldsOf, Leading, Walking, Unrolling
    <2>3. CASE q # p
        BY <1>0, <2>0, <2>3 DEF FieldsOf
    <2> QED
        BY <2>2, <2>3
<1>9. ASSUME NEW p \in Procs, Release(p)
      PROVE  FieldsOf(q)'
    <2>1. PICK m \in Procs : m = wakeidx[p] /\ Queued(m)
        BY <1>9, ReleasesQueued
    <2>2. /\ next' = [next EXCEPT ![m] = NoProc]
          /\ member' = [member EXCEPT ![m] = FALSE]
          /\ \A r \in Procs : r # p => nextidx'[r] = nextidx[r] /\ pc'[r] = pc[r]
          /\ pc[p] = "wake" /\ pc'[p] \in {"wake", "unlock"}
          /\ UNCHANGED <<cached, todo, sent, fields>>
        BY <1>00, <1>9, <2>1 DEF Release, Goto, procVars, callVars
    <2>3. pc[m] \notin {"check", "swap"}
        BY <2>1 DEF Queued, Leading, Walking, Unrolling
    <2>4. CASE q = p
        BY <1>0, <1>00, <2>2, <2>4 DEF FieldsOf, Leading, Walking, Unrolling
    <2>5. CASE q # p
        BY <1>0, <1>00, <2>2, <2>3, <2>5 DEF FieldsOf
    <2> QED
        BY <2>4, <2>5
<1> QED
    BY <1>1, <1>2, <1>3, <1>4, <1>5, <1>6, <1>7, <1>8, <1>9, Steps

-----------------------------------------------------------------------------
(* What the commit log says                                                *)

\* A step that writes for r: it leaves other trees alone and takes no outcome back.
Touches(r) ==
    /\ \A x \in Xids \ TreeOf(r) : clog'[x] = clog[x]
    /\ \A x \in TreeOf(r) : clog[x] = r.st => clog'[x] = r.st

LEMMA WrittenAt ==
    ASSUME NEW xid, NEW subs, NEW st, clog' = Written(xid, subs, st)
    PROVE  \A x \in Xids : clog'[x] = IF x = xid \/ x \in subs THEN st ELSE clog[x]
BY DEF Written

LEMMA SameProgress ==
    ASSUME NEW r \in Requests, NEW t \in Phases, Progress(r, t),
           \A x \in TreeOf(r) : clog'[x] = clog[x]
    PROVE  Progress(r, t)'
<1>1. t.left \subseteq Elsewhere(r) /\ Elsewhere(r) \subseteq TreeOf(r)
    BY TreeFacts DEF Progress
<1>2. \A S \in SUBSET TreeOf(r) : \A st : Uniform(S, st) => Uniform(S, st)'
    BY DEF Uniform
<1>3. /\ t.left \in SUBSET TreeOf(r) /\ Elsewhere(r) \in SUBSET TreeOf(r)
      /\ (TreeOf(r) \ Elsewhere(r)) \cup t.left \in SUBSET TreeOf(r)
      /\ Elsewhere(r) \ t.left \in SUBSET TreeOf(r)
      /\ TreeOf(r) \ Elsewhere(r) \in SUBSET TreeOf(r)
      /\ TreeOf(r) \ t.left \in SUBSET TreeOf(r) /\ TreeOf(r) \in SUBSET TreeOf(r)
    BY <1>1
<1> QED
    BY <1>2, <1>3 DEF Progress

\* The call that CLogSetTreeStatus has come to brings it on.
LEMMA WriteProgress ==
    ASSUME NEW r \in Requests, NEW t \in Phases, Progress(r, t),
           NEW c, c = PageCall(r, t), clog' = Written(c.xid, c.subs, c.st)
    PROVE  Touches(r) /\ Progress(r, AfterCall(r, t))'
<1>1. /\ t.left \subseteq Elsewhere(r) /\ Elsewhere(r) \subseteq SubsOf(r)
      /\ r.xid \notin Elsewhere(r) /\ TreeOf(r) = {r.xid} \cup SubsOf(r)
      /\ TreeOf(r) \subseteq Xids /\ r.xid \in Xids
    BY TreeFacts DEF Progress
<1>2. \A x \in Xids : clog'[x] = IF x = c.xid \/ x \in c.subs THEN c.st ELSE clog[x]
    BY WrittenAt
<1>3. CASE t.phase = "own"
    <2>1. \A x \in Xids : clog'[x] = IF x \in TreeOf(r) \ Elsewhere(r) THEN r.st ELSE clog[x]
        <3>1. c.xid = r.xid /\ c.subs = SubsOf(r) \ Elsewhere(r) /\ c.st = r.st
            BY <1>3, CallOwn
        <3> QED
            BY <1>1, <1>2, <3>1
    <2>2. Touches(r)
        BY <1>1, <2>1 DEF Touches
    <2>3. Uniform(Elsewhere(r), Halfway(r))' /\ Uniform(TreeOf(r) \ Elsewhere(r), r.st)'
        BY <1>1, <1>3, <2>1 DEF Progress, Uniform, Halfway
    <2>4. PICK E \in SUBSET Xids : E = Elsewhere(r)
        BY <1>1
    <2>5. CASE E # {}
        <3>1. AfterCall(r, t) = Pass("final", E)
            BY <1>3, <2>4, <2>5, CallOwn
        <3>2. AfterCall(r, t).phase = "final" /\ AfterCall(r, t).left = E
            BY <3>1, PassTypes
        <3> QED
            BY <2>2, <2>3, <2>4, <3>2 DEF Progress
    <2>6. CASE E = {}
        <3>1. AfterCall(r, t) = Nothing
            BY <1>3, <2>4, <2>6, CallOwn
        <3>2. AfterCall(r, t).phase = "none" /\ AfterCall(r, t).left = {}
            BY <3>1, PassTypes
        <3>3. TreeOf(r) \ Elsewhere(r) = TreeOf(r)
            BY <2>4, <2>6
        <3> QED
            BY <2>2, <2>3, <3>2, <3>3 DEF Progress
    <2> QED
        BY <2>5, <2>6
<1>4. CASE t.phase # "own"
    <2>0. PICK S \in SUBSET Xids : S = t.left \ c.subs
        BY <1>1
    <2>1. /\ c.xid = NoXid /\ c.subs \subseteq t.left
          /\ c.st = IF t.phase = "sub" THEN "sub_committed" ELSE r.st
          /\ AfterCall(r, t) = IF S # {} THEN Pass(t.phase, S)
                               ELSE IF t.phase = "sub" THEN OwnPage ELSE Nothing
        BY <1>4, <2>0, CallElsewhere
    <2>2. \A x \in Xids : clog'[x] = IF x \in c.subs THEN c.st ELSE clog[x]
        BY <1>2, <2>1, XidsNat
    <2>3. CASE t.phase = "sub"
        <3>1. /\ r.st = "committed" /\ c.st = "sub_committed"
              /\ \A x \in TreeOf(r) \ Elsewhere(r) : clog[x] = "in_progress"
              /\ \A x \in t.left : clog[x] = "in_progress"
              /\ \A x \in Elsewhere(r) \ t.left : clog[x] = "sub_committed"
            BY <2>1, <2>3 DEF Progress, Uniform
        <3>2. Touches(r)
            BY <1>1, <2>1, <2>2, <3>1 DEF Touches
        <3>3. /\ \A x \in TreeOf(r) \ Elsewhere(r) : clog'[x] = "in_progress"
              /\ \A x \in S : clog'[x] = "in_progress"
              /\ \A x \in Elsewhere(r) \ S : clog'[x] = "sub_committed"
            BY <1>1, <2>0, <2>1, <2>2, <3>1
        <3>4. CASE S # {}
            <4>1. AfterCall(r, t).phase = "sub" /\ AfterCall(r, t).left = S
                BY <2>1, <2>3, <3>4, PassTypes
            <4>2. S \subseteq Elsewhere(r)
                BY <1>1, <2>0
            <4>3. Uniform((TreeOf(r) \ Elsewhere(r)) \cup S, "in_progress")'
                BY <3>3 DEF Uniform
            <4>4. Uniform(Elsewhere(r) \ S, "sub_committed")'
                BY <3>3 DEF Uniform
            <4> QED
                BY <3>1, <3>2, <4>1, <4>2, <4>3, <4>4 DEF Progress
        <3>5. CASE S = {}
            <4>1. AfterCall(r, t).phase = "own" /\ AfterCall(r, t).left = {}
                BY <2>1, <2>3, <3>5, PassTypes
            <4>2. Uniform(TreeOf(r) \ Elsewhere(r), "in_progress")'
                BY <3>3 DEF Uniform
            <4>3. Uniform(Elsewhere(r), Halfway(r))'
                BY <3>1, <3>3, <3>5 DEF Uniform, Halfway
            <4> QED
                BY <3>2, <4>1, <4>2, <4>3 DEF Progress
        <3> QED
            BY <3>4, <3>5
    <2>4. CASE t.phase \in {"final", "none"}
        <3>1. /\ c.st = r.st
              /\ \A x \in TreeOf(r) \ t.left : clog[x] = r.st
              /\ t.phase = "final" => \A x \in t.left : clog[x] = Halfway(r)
              /\ t.phase = "none" => \A x \in t.left : clog[x] = r.st
            BY <1>1, <2>1, <2>4 DEF Progress, Uniform
        <3>2. Touches(r)
            BY <1>1, <2>1, <2>2, <3>1 DEF Touches
        <3>3. /\ \A x \in TreeOf(r) \ S : clog'[x] = r.st
              /\ t.phase = "final" => \A x \in S : clog'[x] = Halfway(r)
              /\ t.phase = "none" => \A x \in S : clog'[x] = r.st
            BY <1>1, <2>0, <2>1, <2>2, <3>1
        <3>4. CASE S # {}
            <4>1. AfterCall(r, t).phase = t.phase /\ AfterCall(r, t).left = S
                BY <2>1, <2>4, <3>4, PassTypes
            <4>2. S \subseteq Elsewhere(r)
                BY <1>1, <2>0
            <4>3. Uniform(TreeOf(r) \ S, r.st)'
                BY <3>3 DEF Uniform
            <4>4. /\ t.phase = "final" => Uniform(S, Halfway(r))'
                  /\ t.phase = "none" => Uniform(TreeOf(r), r.st)'
                BY <3>3 DEF Uniform, Halfway
            <4> QED
                BY <2>4, <3>2, <4>1, <4>2, <4>3, <4>4 DEF Progress, Halfway
        <3>5. CASE S = {}
            <4>1. AfterCall(r, t).phase = "none" /\ AfterCall(r, t).left = {}
                BY <2>1, <2>4, <3>5, PassTypes
            <4>2. Uniform(TreeOf(r), r.st)'
                BY <3>3, <3>5 DEF Uniform
            <4> QED
                BY <3>2, <4>1, <4>2 DEF Progress
        <3> QED
            BY <3>4, <3>5
    <2> QED
        BY <1>4, <2>3, <2>4 DEF Phases
<1> QED
    BY <1>3, <1>4

\* CLogSetTreeStatus starts with nothing written.
LEMMA StartProgress ==
    ASSUME NEW r \in Requests, Uniform(TreeOf(r), "in_progress")
    PROVE  Progress(r, CLogSetTreeStatus(r))
<1>1. Elsewhere(r) \subseteq TreeOf(r) /\ Elsewhere(r) \in SUBSET Xids
    BY TreeFacts
<1>2. CASE r.st = "committed" /\ Elsewhere(r) # {}
    <2>1. CLogSetTreeStatus(r).phase = "sub" /\ CLogSetTreeStatus(r).left = Elsewhere(r)
        BY <1>1, <1>2, PassTypes DEF CLogSetTreeStatus
    <2> QED
        BY <1>1, <1>2, <2>1 DEF Progress, Uniform
<1>3. CASE ~(r.st = "committed" /\ Elsewhere(r) # {})
    <2>1. CLogSetTreeStatus(r).phase = "own" /\ CLogSetTreeStatus(r).left = {}
        BY <1>3, PassTypes DEF CLogSetTreeStatus
    <2> QED
        BY <1>1, <1>3, <2>1 DEF Progress, Uniform, Halfway
<1> QED
    BY <1>2, <1>3

\* The leader's walk is at somebody on its list.
LEMMA ServesQueued ==
    ASSUME TypeOK, ListInv, NEW p \in Procs, Serve(p)
    PROVE  nextidx[p] \in Procs /\ Queued(nextidx[p])
<1>1. PICK own \in [Procs -> Procs \cup {NoProc}], done \in SUBSET Procs :
            OwnInv(own) /\ LinkInv(own) /\ RootInv(own) /\ DoneInv(own, done)
    BY DEF ListInv
<1>2. nextidx[p] \in Procs /\ nextidx[p] # NoProc /\ pc[p] \in Walking
    BY DEF Serve, TypeOK, Walking
<1>3. own[nextidx[p]] = p
    BY <1>1, <1>2 DEF RootInv
<1> QED
    BY <1>1, <1>2, <1>3, ClogAssumption DEF OwnInv

\* The leader finds in the PGPROC of a member what that member asks for.
LEMMA ServeWrites ==
    ASSUME TypeOK, ListInv, FieldInv, NEW p \in Procs, Serve(p),
           NEW m \in Procs, m = nextidx[p]
    PROVE  /\ Queued(m) /\ pc[m] # "idle" /\ sent[m] \in DOMAIN Work[m]
           /\ Request(m) \in Requests /\ Elsewhere(Request(m)) = {}
           /\ \A x \in Xids : clog'[x] = IF x \in TreeOf(Request(m)) THEN Request(m).st
                                         ELSE clog[x]
<1>1. Queued(m) /\ pc[m] \in {"sleep"} \cup Leading /\ pc[m] # "idle"
    BY ServesQueued DEF Queued, Leading, Walking, Unrolling
<1>2. /\ sent[m] \in DOMAIN Work[m] /\ cached[m] = Request(m).cached
      /\ MayGroup(Request(m))
      /\ fields[m].xid = Request(m).xid /\ fields[m].st = Request(m).st
    BY <1>1 DEF FieldInv
<1>3. PICK r \in Requests : r = Request(m)
    BY <1>2, RequestFacts
<1>4. Elsewhere(r) = {} /\ cached[m] = r.subs
    BY <1>2, <1>3 DEF MayGroup
<1>5. clog' = Written(r.xid, SubsOf(r), r.st)
    BY <1>2, <1>3, <1>4 DEF Serve, SubsOf
<1>6. \A x \in Xids : clog'[x] = IF x = r.xid \/ x \in SubsOf(r) THEN r.st ELSE clog[x]
    BY <1>5, WrittenAt
<1>7. TreeOf(r) = {r.xid} \cup SubsOf(r)
    BY TreeFacts
<1>8. \A x \in Xids : clog'[x] = IF x \in TreeOf(r) THEN r.st ELSE clog[x]
    BY <1>6, <1>7
<1> QED
    BY <1>1, <1>2, <1>3, <1>4, <1>8

LEMMA AloneWrites ==
    ASSUME TypeOK, FieldInv, StatusInv, NEW p \in Procs, SetAlone(p)
    PROVE  /\ pc[p] # "idle" /\ sent[p] \in DOMAIN Work[p]
           /\ \E r \in Requests, t \in Phases :
                 /\ r = Request(p) /\ t = todo[p]
                 /\ Progress(r, t)
                 /\ Touches(r) /\ Progress(r, AfterCall(r, t))'
                 /\ todo' = [todo EXCEPT ![p] = AfterCall(r, t)]
<1>1. pc[p] # "idle"
    BY DEF SetAlone
<1>2. sent[p] \in DOMAIN Work[p]
    BY <1>1 DEF FieldInv
<1>3. PICK r \in Requests : r = Request(p)
    BY <1>2, RequestFacts
<1>4. PICK t \in Phases : t = todo[p]
    BY TypeFacts
<1>5. Progress(r, t)
    BY <1>1, <1>2, <1>3, <1>4 DEF StatusInv, Request
<1>6. PICK c : c = PageCall(r, t)
    OBVIOUS
<1>7. clog' = Written(c.xid, c.subs, c.st)
    BY <1>3, <1>4, <1>6 DEF SetAlone, NextCall
<1>8. Touches(r) /\ Progress(r, AfterCall(r, t))'
    BY <1>5, <1>6, <1>7, WriteProgress
<1>9. todo' = [todo EXCEPT ![p] = AfterCall(r, t)]
    BY <1>3, <1>4 DEF SetAlone, CallOver
<1> QED
    BY <1>1, <1>2, <1>3, <1>4, <1>5, <1>8, <1>9

\* Nobody writes but for one request, and nothing that is already in is taken back.
LEMMA StepTouches ==
    ASSUME TypeOK, ListInv, FieldInv, StatusInv, [Next]_vars
    PROVE  \/ clog' = clog
           \/ \E m \in Procs : \E r \in Requests :
                 /\ pc[m] # "idle" /\ sent[m] \in DOMAIN Work[m] /\ r = Request(m)
                 /\ Touches(r)
<1>1. ASSUME NEW p \in Procs, SetAlone(p)
      PROVE  \E m \in Procs : \E r \in Requests :
                 /\ pc[m] # "idle" /\ sent[m] \in DOMAIN Work[m] /\ r = Request(m)
                 /\ Touches(r)
    BY <1>1, AloneWrites
<1>2. ASSUME NEW p \in Procs, Serve(p)
      PROVE  \E m \in Procs : \E r \in Requests :
                 /\ pc[m] # "idle" /\ sent[m] \in DOMAIN Work[m] /\ r = Request(m)
                 /\ Touches(r)
    <2>1. PICK m \in Procs : m = nextidx[p]
        BY <1>2, ServesQueued
    <2>2. PICK r \in Requests : r = Request(m)
        BY <1>2, <2>1, ServeWrites
    <2>3. \A x \in Xids : clog'[x] = IF x \in TreeOf(r) THEN r.st ELSE clog[x]
        BY <1>2, <2>1, <2>2, ServeWrites
    <2>4. Touches(r)
        BY <2>3, TreeFacts DEF Touches
    <2> QED
        BY <1>2, <2>1, <2>2, <2>4, ServeWrites
<1>3. ASSUME NEW p \in Procs,
             \/ Start(p) \/ Finish(p) \/ SetMember(p) \/ OtherPage(p)
             \/ SetNext(p) \/ Join(p) \/ JoinFails(p) \/ Sleep(p) \/ Detach(p)
             \/ ReleaseBank(p) \/ AcquireBank(p) \/ Unlock(p)
             \/ Release(p) \/ SemUnlock(p) \/ Leave(p)
      PROVE  clog' = clog
    BY <1>3 DEF Start, Finish, SetMember, OtherPage, SetNext, Join, JoinFails, Sleep, Detach,
       ReleaseBank, AcquireBank, Unlock, Release, SemUnlock, Leave, logVars
<1> QED
    BY <1>1, <1>2, <1>3, Steps, CheckerSteps

\* Who is served stays served while its request is the same.
LEMMA KeepsServed ==
    ASSUME TypeOK, ListInv, FieldInv, StatusInv, [Next]_vars,
           NEW q \in Procs, sent[q] \in DOMAIN Work[q], sent'[q] = sent[q], Served(q)
    PROVE  Served(q)'
<1>1. PICK r \in Requests : r = Request(q)
    BY RequestFacts
<1>2. Request(q)' = r
    BY <1>1 DEF Request
<1>3. \A x \in TreeOf(r) : x \in Xids /\ clog[x] = r.st
    BY <1>1, TreeFacts DEF Served
<1>4. \A x \in TreeOf(r) : clog'[x] = r.st
    <2>1. CASE clog' = clog
        BY <1>3, <2>1
    <2>2. ASSUME NEW m \in Procs, NEW s \in Requests, Touches(s)
          PROVE  \A x \in TreeOf(r) : clog'[x] = r.st
        <3>1. CASE s = r
            BY <1>3, <2>2, <3>1 DEF Touches
        <3>2. CASE s # r
            <4>1. \A x \in TreeOf(r) : x \notin TreeOf(s)
                BY <3>2, OneTree
            <4> QED
                BY <1>3, <2>2, <4>1 DEF Touches
        <3> QED
            BY <3>1, <3>2
    <2> QED
        BY <2>1, <2>2, StepTouches
<1> QED
    BY <1>2, <1>4 DEF Served

\* What StatusInv says of one request.
StatusOf(p, i) ==
    /\ i > sent[p] =>
          /\ Uniform(TreeOf(Work[p][i]), "in_progress")
          /\ TreeOf(Work[p][i]) \cap csnSet = {}
    /\ i = sent[p] /\ pc[p] # "idle" =>
          /\ Progress(Work[p][i], todo[p])
          /\ TreeOf(Work[p][i]) \cap csnSet = {}
    /\ i < sent[p] \/ (i = sent[p] /\ pc[p] = "idle") =>
          Uniform(TreeOf(Work[p][i]), Work[p][i].st)

LEMMA StatusOfAll == StatusInv <=> \A p \in Procs : \A i \in DOMAIN Work[p] : StatusOf(p, i)
BY DEF StatusInv, StatusOf

\* A step that concerns other requests only.
LEMMA SameStatus ==
    ASSUME TypeOK, NEW q \in Procs, NEW i \in DOMAIN Work[q], StatusOf(q, i),
           \A x \in TreeOf(Work[q][i]) : clog'[x] = clog[x] /\ (x \in csnSet' => x \in csnSet),
           sent'[q] = sent[q], pc'[q] = "idle" <=> pc[q] = "idle", todo'[q] = todo[q]
    PROVE  StatusOf(q, i)'
<1>1. PICK r \in Requests : r = Work[q][i]
    BY WorkFacts
<1>2. PICK t \in Phases : t = todo[q]
    BY TypeFacts
<1>3. Progress(r, t) => Progress(r, t)'
    BY <1>1, SameProgress
<1>4. \A st : Uniform(TreeOf(r), st) => Uniform(TreeOf(r), st)'
    BY <1>1 DEF Uniform
<1>5. TreeOf(r) \cap csnSet = {} => TreeOf(r) \cap csnSet' = {}
    BY <1>1
<1> QED
    BY <1>1, <1>2, <1>3, <1>4, <1>5 DEF StatusOf

\* Whoever a leader wrote for has nothing left to write.
LEMMA OverProgress ==
    ASSUME NEW r \in Requests, NEW t \in Phases, t.phase = "own", Elsewhere(r) = {},
           Uniform(TreeOf(r), r.st)
    PROVE  Progress(r, AfterCall(r, t))
<1>1. AfterCall(r, t) = Nothing
    BY CallOwn
<1>2. AfterCall(r, t).phase = "none" /\ AfterCall(r, t).left = {}
    BY <1>1, PassTypes
<1> QED
    BY <1>2 DEF Progress

LEMMA LeaveFacts ==
    ASSUME TypeOK, ListInv, NEW p \in Procs, Leave(p)
    PROVE  pc[p] \in Leading /\ ~member[p]
<1>1. pc[p] \in Unrolling /\ wakeidx[p] = NoProc
    BY DEF Leave, Unrolling
<1>2. PICK own \in [Procs -> Procs \cup {NoProc}], done \in SUBSET Procs :
            OwnInv(own) /\ LinkInv(own) /\ RootInv(own) /\ DoneInv(own, done)
    BY DEF ListInv
<1> QED
    BY <1>1, <1>2 DEF RootInv, Leading

LEMMA StatusStep ==
    ASSUME TypeOK, ListInv, FieldInv, ReleasedInv, StatusInv, [Next]_vars
    PROVE  StatusInv'
<1> SUFFICES ASSUME NEW q \in Procs, NEW i \in DOMAIN Work[q]
             PROVE  StatusOf(q, i)'
    BY StatusOfAll DEF StatusInv, StatusOf
<1>0. StatusOf(q, i) /\ sent \in [Procs -> Nat] /\ pc \in [Procs -> Labels]
          /\ todo \in [Procs -> Phases] /\ i \in Nat
    <2>1. StatusOf(q, i)
        BY StatusOfAll
    <2>2. i \in Nat
        BY WorkFacts
    <2>3. /\ sent \in [Procs -> Nat] /\ pc \in [Procs -> Labels]
          /\ todo \in [Procs -> Phases]
        BY DEF TypeOK, Phases
    <2> QED
        BY <2>1, <2>2, <2>3
<1>r. PICK r \in Requests : r = Work[q][i]
    BY WorkFacts
<1>x. TreeOf(r) \subseteq Xids
    BY TreeFacts
<1>1. CASE \/ UNCHANGED vars \/ \E x \in Asked : TransactionIdDidCommit(x)
           \/ SubTransGetParent \/ DidParentCommit
    BY <1>0, <1>1, CheckerSteps, SameStatus
<1>2. ASSUME NEW p \in Procs,
             \/ SetMember(p) \/ OtherPage(p) \/ SetNext(p) \/ Join(p) \/ JoinFails(p)
             \/ (Sleep(p) /\ ~Awake(p)) \/ Detach(p) \/ ReleaseBank(p) \/ AcquireBank(p)
             \/ Unlock(p) \/ Release(p) \/ SemUnlock(p)
      PROVE  StatusOf(q, i)'
    <2>1. /\ UNCHANGED <<clog, csnSet, sent, todo>>
          /\ pc'[q] = "idle" <=> pc[q] = "idle"
        <3> USE <1>0 DEF logVars, callVars, Goto, Labels
        <3>1. CASE \/ SetMember(p) \/ OtherPage(p) \/ SetNext(p) \/ Join(p) \/ JoinFails(p)
                   \/ (Sleep(p) /\ ~Awake(p))
            BY <3>1 DEF SetMember, OtherPage, SetNext, Join, JoinFails, Sleep
        <3>2. CASE Detach(p) \/ ReleaseBank(p) \/ AcquireBank(p)
            BY <3>2 DEF Detach, ReleaseBank, AcquireBank
        <3>3. CASE Unlock(p) \/ Release(p) \/ SemUnlock(p)
            BY <3>3 DEF Unlock, Release, SemUnlock
        <3> QED
            BY <1>2, <3>1, <3>2, <3>3
    <2> QED
        BY <1>0, <2>1, SameStatus
<1>3. ASSUME NEW p \in Procs, Start(p)
      PROVE  StatusOf(q, i)'
    <2>1. /\ sent' = [sent EXCEPT ![p] = sent[p] + 1] /\ pc[p] = "idle"
          /\ todo' = [todo EXCEPT ![p] = CLogSetTreeStatus(Work[p][sent[p] + 1])]
          /\ pc' = [pc EXCEPT ![p] = "call"]
          /\ UNCHANGED <<clog, csnSet>>
        BY <1>3 DEF Start, Goto, logVars
    <2>2. CASE q # p
        BY <1>0, <2>1, <2>2, SameStatus
    <2>3. CASE q = p /\ i = sent[p] + 1
        <3>1. Uniform(TreeOf(r), "in_progress") /\ TreeOf(r) \cap csnSet = {}
            BY <1>0, <1>r, <2>3 DEF StatusOf
        <3>2. Uniform(TreeOf(r), "in_progress")'
            BY <2>1, <3>1 DEF Uniform
        <3>3. Progress(r, CLogSetTreeStatus(r))'
            <4>1. PICK t \in Phases : t = CLogSetTreeStatus(r)
                BY StartTypes
            <4>2. Progress(r, t)
                BY <3>1, <4>1, StartProgress
            <4>3. Progress(r, t)'
                BY <2>1, <4>2, SameProgress
            <4> QED
                BY <4>1, <4>3
        <3>4. /\ sent'[q] = i /\ pc'[q] # "idle" /\ todo'[q] = CLogSetTreeStatus(r)
              /\ TreeOf(r) \cap csnSet' = {}
            BY <1>0, <1>r, <2>1, <2>3, <3>1
        <3> QED
            BY <1>0, <1>r, <3>3, <3>4 DEF StatusOf
    <2>4. CASE q = p /\ i # sent[p] + 1
        <3>1. /\ sent'[q] = sent[p] + 1 /\ pc'[q] # "idle"
              /\ i > sent'[q] <=> i > sent[q] /\ ~(i = sent'[q])
              /\ i < sent'[q] <=> i < sent[q] \/ (i = sent[q] /\ pc[q] = "idle")
            BY <1>0, <2>1, <2>4
        <3>2. \A st : Uniform(TreeOf(r), st) => Uniform(TreeOf(r), st)'
            BY <2>1 DEF Uniform
        <3> QED
            BY <1>0, <1>r, <2>1, <2>4, <3>1, <3>2 DEF StatusOf
    <2> QED
        BY <2>2, <2>3, <2>4
<1>4. ASSUME NEW p \in Procs, Finish(p)
      PROVE  StatusOf(q, i)'
    <2>1. /\ pc[p] = "call" /\ todo[p] = Nothing
          /\ csnSet' = csnSet \cup TreeOf(Request(p))
          /\ pc' = [pc EXCEPT ![p] = "idle"]
          /\ UNCHANGED <<clog, sent, todo>>
        BY <1>4 DEF Finish, Goto, callVars
    <2>2. sent[p] \in DOMAIN Work[p] /\ Request(p) = Work[p][sent[p]]
        BY <2>1 DEF FieldInv, Request
    <2>3. CASE q = p /\ i = sent[p]
        <3>1. Progress(r, Nothing)
            BY <1>0, <1>r, <2>1, <2>3 DEF StatusOf
        <3>2. Uniform(TreeOf(r), r.st)
            BY <3>1, PassTypes DEF Progress
        <3>3. Uniform(TreeOf(r), r.st)'
            BY <2>1, <3>2 DEF Uniform
        <3> QED
            BY <1>0, <1>r, <2>1, <2>3, <3>3 DEF StatusOf
    <2>4. CASE ~(q = p /\ i = sent[p])
        <3>1. \A x \in TreeOf(Work[q][i]) : x \notin TreeOf(Request(p))
            BY <2>2, <2>4, OnePlace
        <3>2. \A x \in TreeOf(Work[q][i]) : x \in csnSet' => x \in csnSet
            BY <2>1, <3>1
        <3>3. CASE q # p
            BY <1>0, <2>1, <3>2, <3>3, SameStatus
        <3>4. CASE q = p
            <4>1. /\ i # sent'[q] /\ sent'[q] = sent[q]
                  /\ i > sent[q] \/ i < sent[q]
                BY <1>0, <2>1, <2>4, <3>4
            <4>2. \A st : Uniform(TreeOf(r), st) => Uniform(TreeOf(r), st)'
                BY <2>1 DEF Uniform
            <4>3. TreeOf(r) \cap csnSet = {} => TreeOf(r) \cap csnSet' = {}
                BY <1>r, <3>2
            <4> QED
                BY <1>0, <1>r, <4>1, <4>2, <4>3 DEF StatusOf
        <3> QED
            BY <3>3, <3>4
    <2> QED
        BY <2>3, <2>4
<1>5. ASSUME NEW p \in Procs, SetAlone(p)
      PROVE  StatusOf(q, i)'
    <2>1. pc[p] # "idle" /\ sent[p] \in DOMAIN Work[p]
        BY <1>5, AloneWrites
    <2>2. PICK s \in Requests, t \in Phases :
                 /\ s = Request(p) /\ t = todo[p]
                 /\ Touches(s) /\ Progress(s, AfterCall(s, t))'
                 /\ todo' = [todo EXCEPT ![p] = AfterCall(s, t)]
        BY <1>5, AloneWrites
    <2>3. /\ pc' = [pc EXCEPT ![p] = "call"] /\ UNCHANGED <<csnSet, sent>>
        BY <1>5 DEF SetAlone, Goto
    <2>4. CASE q = p /\ i = sent[p]
        <3>1. r = s
            BY <1>r, <2>2, <2>4 DEF Request
        <3>2. /\ sent'[q] = i /\ pc'[q] # "idle" /\ todo'[q] = AfterCall(s, t)
              /\ TreeOf(r) \cap csnSet' = {}
            BY <1>0, <1>r, <2>1, <2>2, <2>3, <2>4 DEF StatusOf
        <3> QED
            BY <1>0, <1>r, <2>2, <3>1, <3>2 DEF StatusOf
    <2>5. CASE ~(q = p /\ i = sent[p])
        <3>1. \A x \in TreeOf(Work[q][i]) : x \notin TreeOf(s)
            BY <2>1, <2>2, <2>5, OnePlace DEF Request
        <3>2. \A x \in TreeOf(Work[q][i]) : clog'[x] = clog[x]
            BY <1>r, <1>x, <2>2, <3>1 DEF Touches
        <3>3. CASE q # p
            BY <1>0, <2>2, <2>3, <3>2, <3>3, SameStatus
        <3>4. CASE q = p
            <4>1. /\ i # sent'[q] /\ sent'[q] = sent[q]
                  /\ i > sent[q] \/ i < sent[q]
                BY <1>0, <2>3, <2>5, <3>4
            <4>2. \A st : Uniform(TreeOf(r), st) => Uniform(TreeOf(r), st)'
                BY <1>r, <3>2 DEF Uniform
            <4> QED
                BY <1>0, <1>r, <2>3, <4>1, <4>2 DEF StatusOf
        <3> QED
            BY <3>3, <3>4
    <2> QED
        BY <2>4, <2>5
<1>6. ASSUME NEW p \in Procs, Serve(p)
      PROVE  StatusOf(q, i)'
    <2>1. PICK m \in Procs : m = nextidx[p]
        BY <1>6, ServesQueued
    <2>2. /\ pc[m] # "idle" /\ sent[m] \in DOMAIN Work[m] /\ Elsewhere(Request(m)) = {}
          /\ \A x \in Xids : clog'[x] = IF x \in TreeOf(Request(m)) THEN Request(m).st
                                        ELSE clog[x]
          /\ todo[m].phase = "own"
        <3>1. Queued(m)
            BY <1>6, <2>1, ServeWrites
        <3>2. todo[m].phase = "own"
            BY <3>1 DEF FieldInv, Queued
        <3> QED
            BY <1>6, <2>1, <3>2, ServeWrites
    <2>3. UNCHANGED <<csnSet, sent, todo, pc>>
        BY <1>6 DEF Serve, callVars
    <2>4. CASE q = m /\ i = sent[m]
        <3>1. PICK t \in Phases : t = todo[m]
            BY TypeFacts
        <3>2. r = Request(m)
            BY <1>r, <2>4 DEF Request
        <3>3. Progress(r, t) /\ TreeOf(r) \cap csnSet = {}
            BY <1>0, <1>r, <2>2, <2>4, <3>1 DEF StatusOf
        <3>4. Uniform(TreeOf(r), r.st)'
            BY <1>x, <2>2, <3>2 DEF Uniform
        <3>5. Progress(r, t)'
            <4>1. Uniform(TreeOf(r) \ Elsewhere(r), r.st)'
                BY <3>4 DEF Uniform
            <4>2. Uniform(Elsewhere(r), Halfway(r))'
                BY <2>2, <3>2 DEF Uniform
            <4>3. t.left \subseteq Elsewhere(r)
                BY <3>3 DEF Progress
            <4> QED
                BY <2>2, <3>1, <4>1, <4>2, <4>3 DEF Progress
        <3> QED
            BY <1>0, <1>r, <2>2, <2>3, <2>4, <3>1, <3>3, <3>5 DEF StatusOf
    <2>5. CASE ~(q = m /\ i = sent[m])
        <3>1. \A x \in TreeOf(Work[q][i]) : x \notin TreeOf(Request(m))
            BY <2>2, <2>5, OnePlace DEF Request
        <3>2. \A x \in TreeOf(Work[q][i]) : clog'[x] = clog[x]
            BY <1>r, <1>x, <2>2, <3>1
        <3> QED
            BY <1>0, <2>3, <3>2, SameStatus
    <2> QED
        BY <2>4, <2>5
<1>7. ASSUME NEW p \in Procs, Leave(p) \/ (Sleep(p) /\ Awake(p))
      PROVE  StatusOf(q, i)'
    <2>1. pc[p] \in {"sleep"} \cup Leading /\ ~member[p] /\ pc[p] # "idle"
        <3>1. CASE Leave(p)
            BY <3>1, LeaveFacts DEF Leave
        <3>2. CASE Sleep(p) /\ Awake(p)
            BY <3>2 DEF Sleep, Awake
        <3> QED
            BY <1>7, <3>1, <3>2
    <2>2. /\ todo' = [todo EXCEPT ![p] = AfterCall(Request(p), todo[p])]
          /\ pc' = [pc EXCEPT ![p] = "call"]
          /\ UNCHANGED <<clog, csnSet, sent>>
        BY <1>7 DEF Leave, Sleep, CallOver, Goto, logVars
    <2>3. CASE q = p /\ i = sent[p]
        <3>1. r = Request(p)
            BY <1>r, <2>3 DEF Request
        <3>2. Uniform(TreeOf(r), r.st)
            BY <2>1, <3>1 DEF ReleasedInv, Served, Uniform
        <3>3. todo[p].phase = "own" /\ Elsewhere(r) = {}
            BY <2>1, <3>1 DEF FieldInv, MayGroup
        <3>4. PICK t \in Phases : t = AfterCall(r, todo[p])
            BY TypeFacts, AfterTypes
        <3>5. Progress(r, t)
            BY <3>2, <3>3, <3>4, TypeFacts, OverProgress
        <3>6. Progress(r, t)'
            BY <2>2, <3>5, SameProgress
        <3> QED
            BY <1>0, <1>r, <2>1, <2>2, <2>3, <3>1, <3>4, <3>6 DEF StatusOf
    <2>4. CASE q = p /\ i # sent[p]
        <3>1. /\ i # sent'[q] /\ sent'[q] = sent[q]
              /\ i > sent[q] \/ i < sent[q]
            BY <1>0, <2>2, <2>4
        <3>2. \A st : Uniform(TreeOf(r), st) => Uniform(TreeOf(r), st)'
            BY <2>2 DEF Uniform
        <3> QED
            BY <1>0, <1>r, <2>2, <3>1, <3>2 DEF StatusOf
    <2>5. CASE q # p
        BY <1>0, <2>2, <2>5, SameStatus
    <2> QED
        BY <2>3, <2>4, <2>5
<1> QED
    BY <1>1, <1>2, <1>3, <1>4, <1>5, <1>6, <1>7, Steps

-----------------------------------------------------------------------------
(* The lists                                                               *)

\* Whoever is on a list and was served stays served.
ServedStays == \A q \in Procs : Queued(q) /\ Served(q) => Served(q)'

LEMMA ServedStaysStep ==
    ASSUME TypeOK, ListInv, FieldInv, StatusInv, [Next]_vars
    PROVE  ServedStays
<1> SUFFICES ASSUME NEW q \in Procs, Queued(q), Served(q)
             PROVE  Served(q)'
    BY DEF ServedStays
<1>1. pc[q] # "idle"
    BY DEF Queued, Leading, Walking, Unrolling
<1>2. sent[q] \in DOMAIN Work[q]
    BY <1>1 DEF FieldInv
<1>3. sent'[q] = sent[q]
    <2>1. ASSUME NEW p \in Procs, Start(p)
          PROVE  sent'[q] = sent[q]
        BY <1>1, <2>1 DEF Start, TypeOK
    <2>2. ASSUME NEW p \in Procs,
                 \/ Finish(p) \/ SetAlone(p) \/ SetMember(p) \/ OtherPage(p)
                 \/ SetNext(p) \/ Join(p) \/ JoinFails(p) \/ Sleep(p) \/ Detach(p)
                 \/ ReleaseBank(p) \/ AcquireBank(p) \/ Serve(p) \/ Unlock(p)
                 \/ Release(p) \/ SemUnlock(p) \/ Leave(p)
          PROVE  sent' = sent
        BY <2>2 DEF Finish, SetAlone, SetMember, OtherPage, SetNext, Join, JoinFails, Sleep,
           Detach, ReleaseBank, AcquireBank, Serve, Unlock, Release, SemUnlock, Leave, callVars
    <2> QED
        BY <2>1, <2>2, Steps, CheckerSteps
<1> QED
    BY <1>2, <1>3, KeepsServed

\* A step that moves nobody from or to a list and no leader along one.
SameLists ==
    /\ UNCHANGED <<first, wakeidx>>
    /\ \A q \in Procs :
          /\ Queued(q)' <=> Queued(q)
          /\ Queued(q) => next'[q] = next[q]
          /\ pc'[q] = "lead" <=> pc[q] = "lead"
          /\ pc'[q] \in Walking <=> pc[q] \in Walking
          /\ pc'[q] \in Unrolling <=> pc[q] \in Unrolling
          /\ pc[q] \in Leading => member'[q] = member[q]
          /\ pc[q] \in Walking => nextidx'[q] = nextidx[q]

LEMMA SameListsKeep ==
    ASSUME TypeOK, TypeOK', ListInv, ServedStays, SameLists
    PROVE  ListInv'
<1>1. PICK own \in [Procs -> Procs \cup {NoProc}], done \in SUBSET Procs :
            OwnInv(own) /\ LinkInv(own) /\ RootInv(own) /\ DoneInv(own, done)
    BY DEF ListInv
<1>2. \A q \in Procs : pc'[q] \in Leading <=> pc[q] \in Leading
    BY DEF SameLists, Leading
<1>3. \A q \in Procs : own[q] # NoProc => next'[q] = next[q]
    BY <1>1 DEF SameLists, OwnInv
<1>4. OwnInv(own)'
    BY <1>1, <1>2, <1>3 DEF SameLists, OwnInv
<1>5. LinkInv(own)'
    BY <1>1, <1>3 DEF SameLists, LinkInv, Linked
<1>6. RootInv(own)'
    <2>1. first' # NoProc => own[first'] # NoProc /\ pc'[own[first']] = "lead"
        BY <1>1 DEF SameLists, RootInv, TypeOK
    <2>2. ASSUME NEW p \in Procs
          PROVE  /\ pc'[p] = "lead" => first' # NoProc /\ own[first'] = p /\ member'[p]
                 /\ pc'[p] \in Walking =>
                       /\ wakeidx'[p] # NoProc /\ own[wakeidx'[p]] = p /\ member'[p]
                       /\ nextidx'[p] # NoProc => own[nextidx'[p]] = p
        BY <1>1 DEF SameLists, RootInv, Leading
    <2>3. ASSUME NEW p \in Procs
          PROVE  pc'[p] \in Unrolling =>
                    IF wakeidx'[p] = NoProc THEN ~member'[p] ELSE own[wakeidx'[p]] = p
        BY <1>1 DEF SameLists, RootInv, Leading
    <2> QED
        BY <2>1, <2>2, <2>3 DEF RootInv
<1>7. DoneInv(own, done)'
    <2>1. ASSUME NEW q \in done
          PROVE  /\ own[q] # NoProc /\ pc'[own[q]] \in Walking \cup Unrolling
                 /\ Served(q)'
                 /\ next'[q] # NoProc =>
                       \/ next'[q] \in done
                       \/ pc'[own[q]] \in Walking /\ next'[q] = nextidx'[own[q]]
        <3>1. own[q] # NoProc /\ own[q] \in Procs /\ Queued(q) /\ Served(q)
            BY <1>1 DEF DoneInv, OwnInv
        <3>2. Served(q)'
            BY <3>1 DEF ServedStays
        <3> QED
            BY <1>1, <1>3, <3>1, <3>2 DEF SameLists, DoneInv
    <2>2. ASSUME NEW p \in Procs
          PROVE  /\ pc'[p] \in Walking => wakeidx'[p] = nextidx'[p] \/ wakeidx'[p] \in done
                 /\ pc'[p] \in Unrolling /\ wakeidx'[p] # NoProc => wakeidx'[p] \in done
        BY <1>1 DEF SameLists, DoneInv
    <2> QED
        BY <2>1, <2>2 DEF DoneInv
<1> QED
    BY <1>4, <1>5, <1>6, <1>7 DEF ListInv

LEMMA StepsOnSameLists ==
    ASSUME TypeOK, FieldInv, NEW p \in Procs,
           \/ Start(p) \/ Finish(p) \/ SetAlone(p) \/ SetMember(p) \/ OtherPage(p)
           \/ SetNext(p) \/ JoinFails(p) \/ Sleep(p) \/ ReleaseBank(p) \/ AcquireBank(p)
           \/ SemUnlock(p)
    PROVE  SameLists
<1>0. /\ pc \in [Procs -> Labels] /\ nextidx \in [Procs -> Procs \cup {NoProc}]
      /\ next \in [Procs -> Procs \cup {NoProc}] /\ member \in [Procs -> BOOLEAN]
    BY DEF TypeOK
<1> USE <1>0 DEF Goto, logVars, procVars, listVars, semVars, callVars, leaderVars,
                 SameLists, Queued, Leading, Walking, Unrolling
<1>1. CASE Start(p)
    BY <1>1 DEF Start
<1>2. CASE Finish(p)
    BY <1>2 DEF Finish
<1>3. CASE SetAlone(p)
    BY <1>3 DEF SetAlone
<1>4. CASE SetMember(p)
    BY <1>4 DEF SetMember
<1>5. CASE OtherPage(p)
    BY <1>5 DEF OtherPage
<1>6. CASE SetNext(p)
    BY <1>6 DEF SetNext
<1>7. CASE JoinFails(p)
    BY <1>7 DEF JoinFails
<1>8. CASE Sleep(p) /\ Awake(p)
    BY <1>8 DEF Sleep, Awake
<1>9. CASE Sleep(p) /\ ~Awake(p)
    BY <1>9 DEF Sleep, Awake
<1>10. CASE ReleaseBank(p)
    BY <1>10 DEF ReleaseBank
<1>11. CASE AcquireBank(p)
    BY <1>11 DEF AcquireBank
<1>12. CASE SemUnlock(p)
    BY <1>12 DEF SemUnlock
<1> QED
    BY <1>1, <1>2, <1>3, <1>4, <1>5, <1>6, <1>7, <1>8, <1>9, <1>10, <1>11, <1>12

\* A PGPROC pushes itself on the list that grows, or starts one.
LEMMA JoinLists ==
    ASSUME TypeOK, TypeOK', ListInv, FieldInv, ServedStays, NEW p \in Procs, Join(p)
    PROVE  ListInv'
<1> USE ClogAssumption
<1>1. PICK own \in [Procs -> Procs \cup {NoProc}], done \in SUBSET Procs :
            OwnInv(own) /\ LinkInv(own) /\ RootInv(own) /\ DoneInv(own, done)
    BY DEF ListInv
<1>2. /\ pc[p] = "swap" /\ member[p] /\ next[p] = first
      /\ first' = p
      /\ pc' = [pc EXCEPT ![p] = IF first = NoProc THEN "lead" ELSE "sleep"]
      /\ nextidx' = [nextidx EXCEPT ![p] = NoProc]
      /\ UNCHANGED <<next, member, wakeidx>>
    BY DEF Join, Goto, FieldInv
<1>3. PICK o2 \in [Procs -> Procs \cup {NoProc}] :
            o2 = [own EXCEPT ![p] = IF first = NoProc THEN p ELSE own[first]]
    BY DEF TypeOK
<1>4. /\ own[p] = NoProc
      /\ \A q \in Procs : q # p => o2[q] = own[q] /\ nextidx'[q] = nextidx[q] /\ pc'[q] = pc[q]
      /\ \A q \in Procs : Linked(own, q) => next[q] # p /\ own[next[q]] # NoProc
      /\ o2[p] # NoProc /\ o2[p] = (IF first = NoProc THEN p ELSE own[first])
      /\ p # first
      /\ pc'[p] = (IF first = NoProc THEN "lead" ELSE "sleep")
    <2>1. own[p] = NoProc
        BY <1>1, <1>2 DEF OwnInv, Queued, Leading, Walking, Unrolling
    <2>2. p # first
        BY <1>1, <2>1 DEF RootInv
    <2>3. \A q \in Procs : Linked(own, q) => next[q] # p /\ own[next[q]] # NoProc
        BY <1>1, <2>1 DEF LinkInv, Linked
    <2>4. first # NoProc => own[first] # NoProc
        BY <1>1 DEF RootInv
    <2> QED
        BY <1>2, <1>3, <2>1, <2>2, <2>3, <2>4 DEF TypeOK
<1>5. \A q \in Procs : /\ q # p => (Queued(q)' <=> Queued(q))
                       /\ q # p => (Linked(o2, q)' <=> Linked(own, q))
    BY <1>2, <1>4 DEF Queued, Linked
<1>6. OwnInv(o2)'
    <2>1. ASSUME NEW q \in Procs, q # p
          PROVE  /\ o2[q] # NoProc <=> Queued(q)'
                 /\ o2[q] = q <=> member'[q] /\ pc'[q] \in Leading
                 /\ o2[q] # NoProc => (next'[q] = NoProc <=> o2[q] = q)
        BY <1>1, <1>2, <1>4, <1>5, <2>1 DEF OwnInv
    <2>2. first # NoProc => own[first] # p
        BY <1>1, <1>2, <1>4 DEF RootInv
    <2>3. /\ o2[p] # NoProc <=> Queued(p)'
          /\ o2[p] = p <=> member'[p] /\ pc'[p] \in Leading
          /\ o2[p] # NoProc => (next'[p] = NoProc <=> o2[p] = p)
        BY <1>2, <1>4, <2>2 DEF Queued, Leading, Walking, Unrolling
    <2> QED
        BY <2>1, <2>3 DEF OwnInv
<1>7. LinkInv(o2)'
    <2>1. ASSUME NEW q \in Procs, Linked(o2, q)'
          PROVE  o2[next'[q]] = o2[q] /\ next'[q] # first'
        <3>1. CASE q = p
            BY <1>2, <1>3, <1>4, <2>1, <3>1 DEF TypeOK, Linked
        <3>2. CASE q # p
            BY <1>1, <1>2, <1>4, <1>5, <2>1, <3>2 DEF LinkInv, TypeOK, Linked
        <3> QED
            BY <3>1, <3>2
    <2>2. ASSUME NEW q \in Procs, NEW r \in Procs, Linked(o2, q)', Linked(o2, r)',
                 next'[q] = next'[r]
          PROVE  q = r
        <3>1. \A s \in Procs : Linked(own, s) => next[s] # first
            BY <1>1 DEF LinkInv
        <3>2. CASE q # p /\ r # p
            <4>1. Linked(own, q) /\ Linked(own, r) /\ next[q] = next[r]
                BY <1>2, <1>5, <2>2, <3>2
            <4> QED
                BY <1>1, <4>1 DEF LinkInv
        <3>3. CASE q = p /\ r # p
            <4>1. Linked(own, r) /\ next[r] = first
                BY <1>2, <1>5, <2>2, <3>3
            <4> QED
                BY <3>1, <4>1
        <3>4. CASE q # p /\ r = p
            <4>1. Linked(own, q) /\ next[q] = first
                BY <1>2, <1>5, <2>2, <3>4
            <4> QED
                BY <3>1, <4>1
        <3> QED
            BY <3>2, <3>3, <3>4
    <2>3. \A r \in Procs : pc[r] \in Walking \cup Unrolling =>
                              wakeidx[r] = NoProc \/ own[wakeidx[r]] = r
        BY <1>1 DEF RootInv
    <2>4. ASSUME NEW r \in Procs, NEW q \in Procs, pc'[r] \in Walking \cup Unrolling,
                 Linked(o2, q)'
          PROVE  next'[q] # wakeidx'[r]
        <3>1. r # p /\ pc[r] \in Walking \cup Unrolling /\ pc[r] # "lead"
            BY <1>4, <2>4 DEF Walking, Unrolling
        <3>2. CASE q = p
            <4>1. first # NoProc
                BY <1>2, <2>4, <3>2 DEF Linked
            <4>2. own[first] # r
                BY <1>1, <3>1, <4>1 DEF RootInv
            <4> QED
                BY <1>2, <2>3, <3>1, <3>2, <4>1, <4>2
        <3>3. CASE q # p
            BY <1>1, <1>2, <1>5, <2>4, <3>1, <3>3 DEF LinkInv
        <3> QED
            BY <3>2, <3>3
    <2> QED
        BY <2>1, <2>2, <2>4 DEF LinkInv
<1>8. RootInv(o2)'
    <2>1. first' # NoProc => o2[first'] # NoProc /\ pc'[o2[first']] = "lead"
        <3>1. CASE first = NoProc
            BY <1>2, <1>4, <3>1
        <3>2. CASE first # NoProc
            <4>1. own[first] # NoProc /\ own[first] \in Procs /\ pc[own[first]] = "lead"
                BY <1>1, <3>2 DEF RootInv, TypeOK
            <4> QED
                BY <1>2, <1>4, <3>2, <4>1
        <3> QED
            BY <3>1, <3>2
    <2>2. ASSUME NEW r \in Procs, pc'[r] = "lead"
          PROVE  first' # NoProc /\ o2[first'] = r /\ member'[r]
        BY <1>1, <1>2, <1>4, <2>2 DEF RootInv
    <2>3. ASSUME NEW r \in Procs, pc'[r] \in Walking
          PROVE  /\ wakeidx'[r] # NoProc /\ o2[wakeidx'[r]] = r /\ member'[r]
                 /\ nextidx'[r] # NoProc => o2[nextidx'[r]] = r
        <3>1. r # p /\ pc[r] \in Walking
            BY <1>4, <2>3 DEF Walking
        <3>2. /\ wakeidx[r] # NoProc /\ own[wakeidx[r]] = r /\ member[r]
              /\ nextidx[r] # NoProc => own[nextidx[r]] = r
            BY <1>1, <3>1 DEF RootInv
        <3>3. /\ wakeidx[r] \in Procs \ {p}
              /\ nextidx[r] # NoProc => nextidx[r] \in Procs \ {p}
            <4>1. /\ wakeidx[r] \in Procs
                  /\ nextidx[r] # NoProc => nextidx[r] \in Procs
                BY <3>2 DEF TypeOK
            <4> QED
                BY <1>4, <3>2, <4>1
        <3>4. /\ wakeidx'[r] = wakeidx[r] /\ member'[r] = member[r] /\ nextidx'[r] = nextidx[r]
              /\ o2[wakeidx[r]] = own[wakeidx[r]]
              /\ nextidx[r] # NoProc => o2[nextidx[r]] = own[nextidx[r]]
            BY <1>2, <1>4, <3>1, <3>3
        <3> QED
            BY <3>2, <3>4
    <2>4. ASSUME NEW r \in Procs, pc'[r] \in Unrolling
          PROVE  IF wakeidx'[r] = NoProc THEN ~member'[r] ELSE o2[wakeidx'[r]] = r
        <3>1. r # p /\ pc[r] \in Unrolling
            BY <1>4, <2>4 DEF Unrolling
        <3>2. IF wakeidx[r] = NoProc THEN ~member[r] ELSE own[wakeidx[r]] = r
            BY <1>1, <3>1 DEF RootInv
        <3>3. ASSUME wakeidx[r] # NoProc
              PROVE  wakeidx[r] \in Procs \ {p}
            <4>1. wakeidx[r] \in Procs
                BY <3>3 DEF TypeOK
            <4> QED
                BY <1>4, <3>2, <3>3, <4>1
        <3>4. /\ wakeidx'[r] = wakeidx[r] /\ member'[r] = member[r]
              /\ wakeidx[r] # NoProc => o2[wakeidx[r]] = own[wakeidx[r]]
            BY <1>2, <1>4, <3>3
        <3> QED
            BY <3>2, <3>4
    <2> QED
        BY <2>1, <2>2, <2>3, <2>4 DEF RootInv
<1>9. DoneInv(o2, done)'
    <2>1. ASSUME NEW q \in done
          PROVE  /\ o2[q] # NoProc /\ pc'[o2[q]] \in Walking \cup Unrolling
                 /\ Served(q)'
                 /\ next'[q] # NoProc =>
                       \/ next'[q] \in done
                       \/ pc'[o2[q]] \in Walking /\ next'[q] = nextidx'[o2[q]]
        <3>1. own[q] # NoProc /\ own[q] \in Procs /\ q # p /\ Served(q) /\ Queued(q)
            BY <1>1, <1>4 DEF DoneInv, OwnInv
        <3>2. own[q] # p
            BY <1>1, <1>2 DEF DoneInv, Walking, Unrolling
        <3>3. Served(q)'
            BY <3>1 DEF ServedStays
        <3> QED
            BY <1>1, <1>2, <1>4, <3>1, <3>2, <3>3 DEF DoneInv
    <2>2. ASSUME NEW r \in Procs
          PROVE  /\ pc'[r] \in Walking => wakeidx'[r] = nextidx'[r] \/ wakeidx'[r] \in done
                 /\ pc'[r] \in Unrolling /\ wakeidx'[r] # NoProc => wakeidx'[r] \in done
        BY <1>1, <1>2, <1>4 DEF DoneInv, Walking, Unrolling
    <2> QED
        BY <2>1, <2>2 DEF DoneInv
<1> QED
    BY <1>6, <1>7, <1>8, <1>9 DEF ListInv

\* The leader detaches its list.
LEMMA DetachLists ==
    ASSUME TypeOK, TypeOK', ListInv, ServedStays, NEW p \in Procs, Detach(p)
    PROVE  ListInv'
<1>1. PICK own \in [Procs -> Procs \cup {NoProc}], done \in SUBSET Procs :
            OwnInv(own) /\ LinkInv(own) /\ RootInv(own) /\ DoneInv(own, done)
    BY DEF ListInv
<1>2. /\ pc[p] = "lead"
      /\ first' = NoProc
      /\ pc' = [pc EXCEPT ![p] = "walk"]
      /\ nextidx' = [nextidx EXCEPT ![p] = first]
      /\ wakeidx' = [wakeidx EXCEPT ![p] = first]
      /\ UNCHANGED <<next, member>>
    BY DEF Detach, Goto
<1>3. /\ \A q \in Procs : q # p => /\ pc'[q] = pc[q] /\ wakeidx'[q] = wakeidx[q]
                                   /\ nextidx'[q] = nextidx[q]
      /\ pc'[p] = "walk" /\ wakeidx'[p] = first /\ nextidx'[p] = first
      /\ first # NoProc /\ own[first] = p /\ member[p]
    BY <1>1, <1>2 DEF TypeOK, RootInv
<1>4. \A q \in Procs : /\ Queued(q)' <=> Queued(q)
                       /\ pc'[q] \in Leading <=> pc[q] \in Leading
                       /\ pc'[q] \in Walking <=> pc[q] \in Walking \/ q = p
                       /\ pc'[q] \in Unrolling <=> pc[q] \in Unrolling /\ q # p
    BY <1>2, <1>3 DEF Queued, Leading, Walking, Unrolling
<1>5. OwnInv(own)'
    BY <1>1, <1>2, <1>4 DEF OwnInv
<1>6. LinkInv(own)'
    <2>1. \A q \in Procs : Linked(own, q)' <=> Linked(own, q)
        BY <1>2 DEF Linked
    <2>2. \A q \in Procs : Linked(own, q) => next'[q] # first'
        BY <1>2 DEF Linked
    <2>3. \A r, q \in Procs : pc'[r] \in Walking \cup Unrolling /\ Linked(own, q) =>
                                 next'[q] # wakeidx'[r]
        BY <1>1, <1>2, <1>3, <1>4 DEF LinkInv
    <2> QED
        BY <1>1, <1>2, <2>1, <2>2, <2>3 DEF LinkInv
<1>7. RootInv(own)'
    <2>1. ASSUME NEW r \in Procs
          PROVE  /\ pc'[r] # "lead"
                 /\ pc'[r] \in Walking =>
                       /\ wakeidx'[r] # NoProc /\ own[wakeidx'[r]] = r /\ member'[r]
                       /\ nextidx'[r] # NoProc => own[nextidx'[r]] = r
        BY <1>1, <1>2, <1>3, <1>4 DEF RootInv
    <2>2. ASSUME NEW r \in Procs, pc'[r] \in Unrolling
          PROVE  IF wakeidx'[r] = NoProc THEN ~member'[r] ELSE own[wakeidx'[r]] = r
        BY <1>1, <1>2, <1>3, <1>4, <2>2 DEF RootInv
    <2> QED
        BY <1>2, <2>1, <2>2 DEF RootInv
<1>8. DoneInv(own, done)'
    <2>1. ASSUME NEW q \in done
          PROVE  /\ own[q] # NoProc /\ pc'[own[q]] \in Walking \cup Unrolling
                 /\ Served(q)'
                 /\ next'[q] # NoProc =>
                       \/ next'[q] \in done
                       \/ pc'[own[q]] \in Walking /\ next'[q] = nextidx'[own[q]]
        <3>1. own[q] # NoProc /\ own[q] \in Procs /\ Served(q) /\ Queued(q)
            BY <1>1 DEF DoneInv, OwnInv
        <3>2. own[q] # p
            BY <1>1, <1>2 DEF DoneInv, Walking, Unrolling
        <3>3. Served(q)'
            BY <3>1 DEF ServedStays
        <3> QED
            BY <1>1, <1>2, <1>3, <3>1, <3>2, <3>3 DEF DoneInv
    <2>2. ASSUME NEW r \in Procs
          PROVE  /\ pc'[r] \in Walking => wakeidx'[r] = nextidx'[r] \/ wakeidx'[r] \in done
                 /\ pc'[r] \in Unrolling /\ wakeidx'[r] # NoProc => wakeidx'[r] \in done
        BY <1>1, <1>3, <1>4 DEF DoneInv
    <2> QED
        BY <2>1, <2>2 DEF DoneInv
<1> QED
    BY <1>5, <1>6, <1>7, <1>8 DEF ListInv

\* The leader's walk passes a member.
LEMMA ServeLists ==
    ASSUME TypeOK, TypeOK', ListInv, FieldInv, ServedStays, NEW p \in Procs, Serve(p)
    PROVE  ListInv'
<1>0. PICK m \in Procs : m = nextidx[p]
    BY ServesQueued
<1>1. PICK own \in [Procs -> Procs \cup {NoProc}], done \in SUBSET Procs :
            OwnInv(own) /\ LinkInv(own) /\ RootInv(own) /\ DoneInv(own, done)
    BY DEF ListInv
<1>2. /\ pc[p] \in Walking /\ m # NoProc
      /\ nextidx' = [nextidx EXCEPT ![p] = next[m]]
      /\ UNCHANGED <<first, next, member, wakeidx, pc, sent>>
    BY <1>0 DEF Serve, Walking, listVars, callVars
<1>3. /\ \A q \in Procs : q # p => nextidx'[q] = nextidx[q]
      /\ nextidx'[p] = next[m] /\ own[m] = p
    BY <1>0, <1>1, <1>2 DEF TypeOK, RootInv
<1>4. Served(m)'
    <2>1. PICK r \in Requests : r = Request(m)
        BY <1>0, ServeWrites
    <2>2. \A x \in TreeOf(r) : clog'[x] = r.st
        BY <1>0, <2>1, ServeWrites, TreeFacts
    <2>3. Request(m)' = r
        BY <1>2, <2>1 DEF Request
    <2> QED
        BY <2>2, <2>3 DEF Served
<1>5. PICK d2 \in SUBSET Procs : d2 = done \cup {m}
    OBVIOUS
<1>6. OwnInv(own)' /\ LinkInv(own)'
    <2>1. \A q \in Procs : Queued(q)' <=> Queued(q)
        BY <1>2 DEF Queued
    <2>2. \A q \in Procs : Linked(own, q)' <=> Linked(own, q)
        BY <1>2 DEF Linked
    <2> QED
        BY <1>1, <1>2, <2>1, <2>2 DEF OwnInv, LinkInv
<1>7. RootInv(own)'
    <2>1. next[m] # NoProc => own[next[m]] = p
        BY <1>1, <1>3, ClogAssumption DEF LinkInv, Linked
    <2> QED
        BY <1>1, <1>2, <1>3, <2>1 DEF RootInv
<1>8. DoneInv(own, d2)'
    <2>1. ASSUME NEW q \in d2
          PROVE  /\ own[q] # NoProc /\ pc'[own[q]] \in Walking \cup Unrolling
                 /\ Served(q)'
                 /\ next'[q] # NoProc =>
                       \/ next'[q] \in d2
                       \/ pc'[own[q]] \in Walking /\ next'[q] = nextidx'[own[q]]
        <3>1. CASE q = m
            BY <1>2, <1>3, <1>4, <3>1, ClogAssumption
        <3>2. CASE q # m
            <4>1. /\ q \in done /\ own[q] # NoProc /\ own[q] \in Procs /\ Served(q) /\ Queued(q)
                BY <1>1, <1>5, <3>2 DEF DoneInv, OwnInv
            <4>2. Served(q)'
                BY <4>1 DEF ServedStays
            <4>3. CASE own[q] = p
                BY <1>0, <1>1, <1>2, <1>5, <4>1, <4>2, <4>3 DEF DoneInv
            <4>4. CASE own[q] # p
                BY <1>1, <1>2, <1>3, <1>5, <4>1, <4>2, <4>4 DEF DoneInv
            <4> QED
                BY <4>3, <4>4
        <3> QED
            BY <3>1, <3>2
    <2>2. ASSUME NEW r \in Procs
          PROVE  /\ pc'[r] \in Walking => wakeidx'[r] = nextidx'[r] \/ wakeidx'[r] \in d2
                 /\ pc'[r] \in Unrolling /\ wakeidx'[r] # NoProc => wakeidx'[r] \in d2
        BY <1>0, <1>1, <1>2, <1>3, <1>5 DEF DoneInv
    <2> QED
        BY <2>1, <2>2 DEF DoneInv
<1> QED
    BY <1>6, <1>7, <1>8 DEF ListInv

\* The leader has served everybody.
LEMMA UnlockLists ==
    ASSUME TypeOK, TypeOK', ListInv, ServedStays, NEW p \in Procs, Unlock(p)
    PROVE  ListInv'
<1>1. PICK own \in [Procs -> Procs \cup {NoProc}], done \in SUBSET Procs :
            OwnInv(own) /\ LinkInv(own) /\ RootInv(own) /\ DoneInv(own, done)
    BY DEF ListInv
<1>2. /\ pc[p] \in Walking /\ nextidx[p] = NoProc
      /\ pc' = [pc EXCEPT ![p] = "wake"]
      /\ UNCHANGED <<first, next, member, wakeidx, nextidx>>
    BY DEF Unlock, Goto, Walking, listVars
<1>3. \A q \in Procs : q # p => pc'[q] = pc[q]
    BY <1>2 DEF TypeOK
<1>4. \A q \in Procs : /\ Queued(q)' <=> Queued(q)
                       /\ pc'[q] \in Leading <=> pc[q] \in Leading
                       /\ pc'[q] \in Walking <=> pc[q] \in Walking /\ q # p
                       /\ pc'[q] \in Unrolling <=> pc[q] \in Unrolling \/ q = p
                       /\ pc'[q] = "lead" <=> pc[q] = "lead"
    <2>1. pc'[p] = "wake" /\ pc[p] \in {"walk", "relock"}
        BY <1>2 DEF TypeOK, Walking
    <2> QED
        BY <1>2, <1>3, <2>1 DEF Queued, Leading, Walking, Unrolling
<1>5. \A q \in Procs : Linked(own, q)' <=> Linked(own, q)
    BY <1>2 DEF Linked
<1>6. OwnInv(own)'
    BY <1>1, <1>2, <1>4 DEF OwnInv
<1>7. LinkInv(own)'
    BY <1>1, <1>2, <1>4, <1>5 DEF LinkInv
<1>8. RootInv(own)'
    <2>1. first' # NoProc => own[first'] # NoProc /\ pc'[own[first']] = "lead"
        BY <1>1, <1>2, <1>4 DEF RootInv, TypeOK
    <2>2. wakeidx[p] # NoProc /\ own[wakeidx[p]] = p
        BY <1>1, <1>2 DEF RootInv
    <2> QED
        BY <1>1, <1>2, <1>4, <2>1, <2>2 DEF RootInv
<1>9. DoneInv(own, done)'
    <2>1. ASSUME NEW q \in done
          PROVE  /\ own[q] # NoProc /\ pc'[own[q]] \in Walking \cup Unrolling
                 /\ Served(q)'
                 /\ next'[q] # NoProc =>
                       \/ next'[q] \in done
                       \/ pc'[own[q]] \in Walking /\ next'[q] = nextidx'[own[q]]
        <3>1. own[q] # NoProc /\ own[q] \in Procs /\ Served(q) /\ Queued(q)
            BY <1>1 DEF DoneInv, OwnInv
        <3>2. Served(q)'
            BY <3>1 DEF ServedStays
        <3>3. pc'[own[q]] \in Walking \cup Unrolling
            BY <1>1, <1>4, <3>1 DEF DoneInv
        <3> QED
            BY <1>1, <1>2, <1>4, <3>1, <3>2, <3>3 DEF DoneInv
    <2>2. wakeidx[p] \in done
        BY <1>1, <1>2 DEF DoneInv, RootInv
    <2>3. ASSUME NEW r \in Procs
          PROVE  /\ pc'[r] \in Walking => wakeidx'[r] = nextidx'[r] \/ wakeidx'[r] \in done
                 /\ pc'[r] \in Unrolling /\ wakeidx'[r] # NoProc => wakeidx'[r] \in done
        BY <1>1, <1>2, <1>4, <2>2 DEF DoneInv
    <2> QED
        BY <2>1, <2>3 DEF DoneInv
<1> QED
    BY <1>6, <1>7, <1>8, <1>9 DEF ListInv

\* The leader takes a member off its list.
LEMMA ReleaseLists ==
    ASSUME TypeOK, TypeOK', ListInv, ServedStays, NEW p \in Procs, Release(p)
    PROVE  ListInv'
<1> USE ClogAssumption
<1>0. PICK m \in Procs : m = wakeidx[p]
    BY DEF Release, TypeOK
<1>1. PICK own \in [Procs -> Procs \cup {NoProc}], done \in SUBSET Procs :
            OwnInv(own) /\ LinkInv(own) /\ RootInv(own) /\ DoneInv(own, done)
    BY DEF ListInv
<1>2. /\ pc[p] = "wake"
      /\ m = wakeidx[p] /\ m # NoProc
      /\ wakeidx' = [wakeidx EXCEPT ![p] = next[m]]
      /\ next' = [next EXCEPT ![m] = NoProc]
      /\ member' = [member EXCEPT ![m] = FALSE]
      /\ nextidx' = [nextidx EXCEPT ![p] = IF m = p THEN NoProc ELSE m]
      /\ pc' = [pc EXCEPT ![p] = IF m = p THEN "wake" ELSE "unlock"]
      /\ first' = first
    BY <1>0 DEF Release, Goto
<1>3. /\ own[m] = p /\ m \in done
      /\ \A q \in Procs : Linked(own, q) => next[q] # m
    BY <1>1, <1>2 DEF RootInv, LinkInv, DoneInv, Unrolling
<1>4. PICK o2 \in [Procs -> Procs \cup {NoProc}] : o2 = [own EXCEPT ![m] = NoProc]
    OBVIOUS
<1>5. PICK d2 \in SUBSET Procs : d2 = done \ {m}
    OBVIOUS
<1>6. /\ \A q \in Procs : q # p => /\ pc'[q] = pc[q] /\ wakeidx'[q] = wakeidx[q]
                                   /\ nextidx'[q] = nextidx[q]
      /\ pc'[p] \in Unrolling /\ pc[p] \in Unrolling /\ wakeidx'[p] = next[m]
      /\ \A q \in Procs : q # m => o2[q] = own[q] /\ next'[q] = next[q] /\ member'[q] = member[q]
      /\ o2[m] = NoProc /\ next'[m] = NoProc /\ ~member'[m]
    BY <1>2, <1>4 DEF TypeOK, Unrolling
<1>7. /\ \A q \in Procs : /\ q # m => (Queued(q)' <=> Queued(q))
                          /\ pc'[q] \in Leading <=> pc[q] \in Leading
                          /\ pc'[q] \in Walking <=> pc[q] \in Walking
                          /\ pc'[q] \in Unrolling <=> pc[q] \in Unrolling
                          /\ pc'[q] = "lead" <=> pc[q] = "lead"
      /\ ~Queued(m)' /\ pc[p] \notin Walking /\ pc[p] # "lead"
    <2>1. /\ pc'[p] \in {"wake", "unlock"} /\ pc[p] \in {"wake", "unlock"}
        BY <1>6 DEF Unrolling
    <2>2. \A q \in Procs : /\ pc'[q] \in Leading <=> pc[q] \in Leading
                           /\ pc'[q] \in Walking <=> pc[q] \in Walking
                           /\ pc'[q] \in Unrolling <=> pc[q] \in Unrolling
                           /\ pc'[q] = "lead" <=> pc[q] = "lead"
                           /\ pc'[q] = "sleep" <=> pc[q] = "sleep"
        BY <1>6, <2>1 DEF Leading, Walking, Unrolling
    <2>3. \A q \in Procs : q # m => (Queued(q)' <=> Queued(q))
        BY <1>6, <2>2 DEF Queued
    <2> QED
        BY <1>6, <2>1, <2>2, <2>3 DEF Queued, Walking
<1>8. OwnInv(o2)'
    <2>1. ASSUME NEW q \in Procs
          PROVE  /\ o2[q] # NoProc <=> Queued(q)'
                 /\ o2[q] = q <=> member'[q] /\ pc'[q] \in Leading
                 /\ o2[q] # NoProc => (next'[q] = NoProc <=> o2[q] = q)
        <3>1. CASE q = m
            BY <1>2, <1>6, <1>7, <3>1
        <3>2. CASE q # m
            <4>1. /\ o2[q] = own[q] /\ next'[q] = next[q] /\ member'[q] = member[q]
                  /\ Queued(q)' <=> Queued(q)
                  /\ pc'[q] \in Leading <=> pc[q] \in Leading
                BY <1>6, <1>7, <3>2
            <4>2. /\ own[q] # NoProc <=> Queued(q)
                  /\ own[q] = q <=> member[q] /\ pc[q] \in Leading
                  /\ own[q] # NoProc => (next[q] = NoProc <=> own[q] = q)
                BY <1>1 DEF OwnInv
            <4> QED
                BY <4>1, <4>2
        <3> QED
            BY <3>1, <3>2
    <2> QED
        BY <2>1 DEF OwnInv
<1>9. LinkInv(o2)'
    <2>0. ASSUME NEW q \in Procs, Linked(o2, q)'
          PROVE  q # m /\ Linked(own, q) /\ next'[q] = next[q] /\ next[q] # m /\ next[q] \in Procs
        <3>1. q # m
            BY <1>6, <2>0 DEF Linked
        <3>2. Linked(own, q) /\ next'[q] = next[q]
            BY <1>6, <2>0, <3>1 DEF Linked
        <3> QED
            BY <1>3, <3>1, <3>2 DEF Linked, TypeOK
    <2>1. ASSUME NEW q \in Procs, Linked(o2, q)'
          PROVE  o2[next'[q]] = o2[q] /\ next'[q] # first'
        BY <1>1, <1>2, <1>6, <2>0, <2>1 DEF LinkInv
    <2>2. ASSUME NEW q \in Procs, NEW r \in Procs, Linked(o2, q)', Linked(o2, r)',
                 next'[q] = next'[r]
          PROVE  q = r
        BY <1>1, <2>0, <2>2 DEF LinkInv
    <2>3. ASSUME NEW r \in Procs, NEW q \in Procs, pc'[r] \in Walking \cup Unrolling,
                 Linked(o2, q)'
          PROVE  next'[q] # wakeidx'[r]
        <3>1. q # m /\ next'[q] = next[q] /\ Linked(own, q) /\ next[q] \in Procs
            BY <2>0, <2>3
        <3>2. CASE r = p
            <4>1. CASE next[m] = NoProc
                BY <1>6, <3>1, <3>2, <4>1
            <4>2. CASE next[m] # NoProc
                <5>1. Linked(own, m)
                    BY <1>3, <4>2 DEF Linked
                <5> QED
                    BY <1>1, <1>6, <3>1, <3>2, <5>1 DEF LinkInv
            <4> QED
                BY <4>1, <4>2
        <3>3. CASE r # p
            <4>1. pc[r] \in Walking \cup Unrolling /\ wakeidx'[r] = wakeidx[r]
                BY <1>6, <2>3, <3>3
            <4> QED
                BY <1>1, <3>1, <4>1 DEF LinkInv
        <3> QED
            BY <3>2, <3>3
    <2> QED
        BY <2>1, <2>2, <2>3 DEF LinkInv
<1>10. RootInv(o2)'
    <2>1. first # NoProc => first # m
        BY <1>1, <1>2, <1>3 DEF RootInv
    <2>2. first' # NoProc => o2[first'] # NoProc /\ pc'[o2[first']] = "lead"
        <3>1. first # NoProc => own[first] \in Procs /\ own[first] # p
            BY <1>1, <1>2 DEF RootInv, TypeOK
        <3> QED
            BY <1>1, <1>2, <1>6, <2>1, <3>1 DEF RootInv, TypeOK
    <2>3. ASSUME NEW r \in Procs, pc'[r] = "lead"
          PROVE  first' # NoProc /\ o2[first'] = r /\ member'[r]
        <3>1. r # p /\ pc[r] = "lead"
            BY <1>7, <2>3
        <3>2. first # NoProc /\ own[first] = r /\ member[r] /\ first \in Procs
            BY <1>1, <3>1 DEF RootInv, TypeOK
        <3>3. r # m
            BY <1>1, <1>3, <3>1, <3>2 DEF OwnInv, Leading
        <3> QED
            BY <1>2, <1>6, <2>1, <3>2, <3>3
    <2>4. ASSUME NEW r \in Procs, pc'[r] \in Walking
          PROVE  /\ wakeidx'[r] # NoProc /\ o2[wakeidx'[r]] = r /\ member'[r]
                 /\ nextidx'[r] # NoProc => o2[nextidx'[r]] = r
        <3>1. r # p /\ pc[r] \in Walking
            BY <1>7, <2>4
        <3>2. /\ wakeidx[r] # NoProc /\ own[wakeidx[r]] = r /\ member[r]
              /\ nextidx[r] # NoProc => own[nextidx[r]] = r
            BY <1>1, <3>1 DEF RootInv
        <3>3. r # m
            BY <1>1, <1>3, <3>1, <3>2 DEF OwnInv, Leading
        <3>4. /\ wakeidx[r] \in Procs \ {m}
              /\ nextidx[r] # NoProc => nextidx[r] \in Procs \ {m}
            <4>1. /\ wakeidx[r] \in Procs
                  /\ nextidx[r] # NoProc => nextidx[r] \in Procs
                BY <3>2 DEF TypeOK
            <4> QED
                BY <1>3, <3>1, <3>2, <4>1
        <3>5. /\ wakeidx'[r] = wakeidx[r] /\ member'[r] = member[r] /\ nextidx'[r] = nextidx[r]
              /\ o2[wakeidx[r]] = own[wakeidx[r]]
              /\ nextidx[r] # NoProc => o2[nextidx[r]] = own[nextidx[r]]
            BY <1>6, <3>1, <3>3, <3>4
        <3> QED
            BY <3>2, <3>5
    <2>5. ASSUME NEW r \in Procs, pc'[r] \in Unrolling
          PROVE  IF wakeidx'[r] = NoProc THEN ~member'[r] ELSE o2[wakeidx'[r]] = r
        <3>1. CASE r = p
            <4>1. CASE next[m] = NoProc
                <5>1. own[m] = m
                    BY <1>1, <1>3, <4>1 DEF OwnInv
                <5> QED
                    BY <1>3, <1>6, <3>1, <4>1, <5>1
            <4>2. CASE next[m] # NoProc
                <5>1. Linked(own, m) /\ next[m] \in Procs
                    BY <1>3, <4>2 DEF Linked, TypeOK
                <5>2. own[next[m]] = p /\ next[m] # m
                    BY <1>1, <1>3, <5>1 DEF LinkInv
                <5> QED
                    BY <1>6, <3>1, <4>2, <5>1, <5>2
            <4> QED
                BY <4>1, <4>2
        <3>2. CASE r # p
            <4>1. pc[r] \in Unrolling /\ wakeidx'[r] = wakeidx[r]
                BY <1>6, <1>7, <2>5, <3>2
            <4>2. CASE wakeidx[r] = NoProc
                <5>1. ~member[r]
                    BY <1>1, <4>1, <4>2 DEF RootInv
                <5>2. r # m
                    BY <1>1, <1>3, <5>1 DEF OwnInv, Queued
                <5> QED
                    BY <1>6, <4>1, <4>2, <5>1, <5>2
            <4>3. CASE wakeidx[r] # NoProc
                <5>1. own[wakeidx[r]] = r /\ wakeidx[r] \in Procs
                    BY <1>1, <4>1, <4>3 DEF RootInv, TypeOK
                <5>2. wakeidx[r] # m
                    BY <1>3, <3>2, <5>1
                <5> QED
                    BY <1>6, <4>1, <4>3, <5>1, <5>2
            <4> QED
                BY <4>2, <4>3
        <3> QED
            BY <3>1, <3>2
    <2> QED
        BY <2>2, <2>3, <2>4, <2>5 DEF RootInv
<1>11. DoneInv(o2, d2)'
    <2>1. ASSUME NEW q \in d2
          PROVE  /\ o2[q] # NoProc /\ pc'[o2[q]] \in Walking \cup Unrolling
                 /\ Served(q)'
                 /\ next'[q] # NoProc =>
                       \/ next'[q] \in d2
                       \/ pc'[o2[q]] \in Walking /\ next'[q] = nextidx'[o2[q]]
        <3>1. /\ q \in done /\ q # m /\ own[q] # NoProc /\ own[q] \in Procs
              /\ Served(q) /\ Queued(q)
            BY <1>1, <1>5 DEF DoneInv, OwnInv
        <3>2. Served(q)'
            BY <3>1 DEF ServedStays
        <3>3. /\ pc'[own[q]] \in Walking \cup Unrolling
              /\ pc[own[q]] \in Walking =>
                    pc'[own[q]] \in Walking /\ nextidx'[own[q]] = nextidx[own[q]]
            <4>1. pc[own[q]] \in Walking \cup Unrolling
                BY <1>1, <3>1 DEF DoneInv
            <4> QED
                BY <1>6, <1>7, <3>1, <4>1
        <3>4. o2[q] = own[q] /\ next'[q] = next[q]
            BY <1>6, <3>1
        <3>5. next[q] # NoProc => next[q] # m
            BY <1>3, <3>1 DEF Linked
        <3>6. next[q] # NoProc =>
                 \/ next[q] \in done
                 \/ pc[own[q]] \in Walking /\ next[q] = nextidx[own[q]]
            BY <1>1, <3>1 DEF DoneInv
        <3> QED
            BY <1>5, <3>1, <3>2, <3>3, <3>4, <3>5, <3>6
    <2>2. ASSUME NEW r \in Procs, pc'[r] \in Walking
          PROVE  wakeidx'[r] = nextidx'[r] \/ wakeidx'[r] \in d2
        <3>1. r # p /\ pc[r] \in Walking
            BY <1>7, <2>2
        <3>2. wakeidx[r] # m
            BY <1>1, <1>3, <3>1 DEF RootInv
        <3> QED
            BY <1>1, <1>5, <1>6, <3>1, <3>2 DEF DoneInv
    <2>3. ASSUME NEW r \in Procs, pc'[r] \in Unrolling, wakeidx'[r] # NoProc
          PROVE  wakeidx'[r] \in d2
        <3>1. CASE r = p
            <4>1. next[m] # NoProc /\ wakeidx'[r] = next[m]
                BY <1>6, <2>3, <3>1
            <4>2. next[m] \in done
                BY <1>1, <1>3, <1>7, <4>1 DEF DoneInv
            <4>3. next[m] # m
                BY <1>3, <4>1 DEF Linked
            <4> QED
                BY <1>5, <4>1, <4>2, <4>3
        <3>2. CASE r # p
            <4>1. pc[r] \in Unrolling /\ wakeidx'[r] = wakeidx[r]
                BY <1>6, <1>7, <2>3, <3>2
            <4>2. wakeidx[r] # m
                BY <1>1, <1>2, <1>3, <2>3, <3>2, <4>1 DEF RootInv
            <4> QED
                BY <1>1, <1>5, <2>3, <4>1, <4>2 DEF DoneInv
        <3> QED
            BY <3>1, <3>2
    <2> QED
        BY <2>1, <2>2, <2>3 DEF DoneInv
<1> QED
    BY <1>8, <1>9, <1>10, <1>11 DEF ListInv

\* The leader leaves.
LEMMA LeaveLists ==
    ASSUME TypeOK, TypeOK', ListInv, ServedStays, NEW p \in Procs, Leave(p)
    PROVE  ListInv'
<1> USE ClogAssumption
<1>1. PICK own \in [Procs -> Procs \cup {NoProc}], done \in SUBSET Procs :
            OwnInv(own) /\ LinkInv(own) /\ RootInv(own) /\ DoneInv(own, done)
    BY DEF ListInv
<1>2. /\ pc[p] = "wake" /\ wakeidx[p] = NoProc
      /\ pc' = [pc EXCEPT ![p] = "call"]
      /\ UNCHANGED <<first, next, member, wakeidx, nextidx>>
    BY DEF Leave, Goto, listVars, leaderVars
<1>3. PICK d2 \in SUBSET Procs : d2 = {q \in done : own[q] # p}
    OBVIOUS
<1>4. /\ \A q \in Procs : q # p => pc'[q] = pc[q]
      /\ pc'[p] = "call" /\ ~member[p]
    BY <1>1, <1>2 DEF TypeOK, RootInv, Unrolling
<1>5. /\ \A q \in Procs : /\ Queued(q)' <=> Queued(q)
                          /\ member[q] => (pc'[q] \in Leading <=> pc[q] \in Leading)
                          /\ pc'[q] \in Unrolling <=> pc[q] \in Unrolling /\ q # p
                          /\ pc'[q] \in Walking <=> pc[q] \in Walking
                          /\ pc'[q] = "lead" <=> pc[q] = "lead"
    BY <1>2, <1>4 DEF Queued, Leading, Walking, Unrolling
<1>6. \A q \in Procs : Linked(own, q)' <=> Linked(own, q)
    BY <1>2 DEF Linked
<1>7. OwnInv(own)'
    BY <1>1, <1>2, <1>5 DEF OwnInv
<1>8. LinkInv(own)'
    BY <1>1, <1>2, <1>5, <1>6 DEF LinkInv
<1>9. RootInv(own)'
    <2>1. ASSUME NEW r \in Procs
          PROVE  /\ pc'[r] = "lead" => first' # NoProc /\ own[first'] = r /\ member'[r]
                 /\ pc'[r] \in Walking =>
                       /\ wakeidx'[r] # NoProc /\ own[wakeidx'[r]] = r /\ member'[r]
                       /\ nextidx'[r] # NoProc => own[nextidx'[r]] = r
        BY <1>1, <1>2, <1>5 DEF RootInv
    <2>2. ASSUME NEW r \in Procs, pc'[r] \in Unrolling
          PROVE  IF wakeidx'[r] = NoProc THEN ~member'[r] ELSE own[wakeidx'[r]] = r
        BY <1>1, <1>2, <1>5, <2>2 DEF RootInv
    <2>3. first' # NoProc => own[first'] # NoProc /\ pc'[own[first']] = "lead"
        BY <1>1, <1>2, <1>5 DEF RootInv, TypeOK
    <2> QED
        BY <2>1, <2>2, <2>3 DEF RootInv
<1>10. DoneInv(own, d2)'
    <2>1. ASSUME NEW q \in d2
          PROVE  /\ own[q] # NoProc /\ pc'[own[q]] \in Walking \cup Unrolling
                 /\ Served(q)'
                 /\ next'[q] # NoProc =>
                       \/ next'[q] \in d2
                       \/ pc'[own[q]] \in Walking /\ next'[q] = nextidx'[own[q]]
        <3>1. /\ q \in done /\ own[q] # p /\ own[q] # NoProc /\ own[q] \in Procs
              /\ Served(q) /\ Queued(q)
            BY <1>1, <1>3 DEF DoneInv, OwnInv
        <3>2. Served(q)'
            BY <3>1 DEF ServedStays
        <3>3. next[q] # NoProc => own[next[q]] = own[q]
            BY <1>1, <3>1 DEF LinkInv, Linked
        <3> QED
            BY <1>1, <1>2, <1>3, <1>4, <3>1, <3>2, <3>3 DEF DoneInv
    <2>2. ASSUME NEW r \in Procs
          PROVE  /\ pc'[r] \in Walking => wakeidx'[r] = nextidx'[r] \/ wakeidx'[r] \in d2
                 /\ pc'[r] \in Unrolling /\ wakeidx'[r] # NoProc => wakeidx'[r] \in d2
        <3>1. CASE r = p
            BY <1>2, <1>4, <1>5, <3>1 DEF Walking
        <3>2. CASE r # p
            <4>1. /\ pc[r] \in Walking => own[wakeidx[r]] = r
                  /\ pc[r] \in Unrolling /\ wakeidx[r] # NoProc => own[wakeidx[r]] = r
                BY <1>1 DEF RootInv
            <4> QED
                BY <1>1, <1>2, <1>3, <1>5, <3>2, <4>1 DEF DoneInv
        <3> QED
            BY <3>1, <3>2
    <2> QED
        BY <2>1, <2>2 DEF DoneInv
<1> QED
    BY <1>7, <1>8, <1>9, <1>10 DEF ListInv

LEMMA ListStep ==
    ASSUME TypeOK, TypeOK', ListInv, FieldInv, StatusInv, [Next]_vars
    PROVE  ListInv'
<1>0. ServedStays
    BY ServedStaysStep
<1>1. ASSUME UNCHANGED <<pc, first, next, member, wakeidx, nextidx>>
      PROVE  ListInv'
    <2>1. SameLists
        BY <1>1 DEF SameLists, Queued
    <2> QED
        BY <1>0, <2>1, SameListsKeep
<1>2. ASSUME NEW p \in Procs,
             \/ Start(p) \/ Finish(p) \/ SetAlone(p) \/ SetMember(p) \/ OtherPage(p)
             \/ SetNext(p) \/ JoinFails(p) \/ Sleep(p) \/ ReleaseBank(p) \/ AcquireBank(p)
             \/ SemUnlock(p)
      PROVE  ListInv'
    BY <1>0, <1>2, StepsOnSameLists, SameListsKeep
<1>3. ASSUME NEW p \in Procs,
             \/ Join(p) \/ Detach(p) \/ Serve(p) \/ Unlock(p) \/ Release(p) \/ Leave(p)
      PROVE  ListInv'
    BY <1>0, <1>3, JoinLists, DetachLists, ServeLists, UnlockLists, ReleaseLists, LeaveLists
<1> QED
    BY <1>1, <1>2, <1>3, Steps, CheckerSteps

-----------------------------------------------------------------------------
(* Whoever was let go was served                                           *)

LEMMA ReleaseServes ==
    ASSUME TypeOK, ListInv, NEW p \in Procs, Release(p)
    PROVE  wakeidx[p] \in Procs /\ Queued(wakeidx[p]) /\ Served(wakeidx[p])
<1>1. pc[p] \in Unrolling /\ wakeidx[p] # NoProc
    BY DEF Release, Unrolling
<1>2. PICK own \in [Procs -> Procs \cup {NoProc}], done \in SUBSET Procs :
            OwnInv(own) /\ LinkInv(own) /\ RootInv(own) /\ DoneInv(own, done)
    BY DEF ListInv
<1>3. wakeidx[p] \in done /\ wakeidx[p] \in Procs
    BY <1>1, <1>2 DEF DoneInv, TypeOK
<1> QED
    BY <1>2, <1>3 DEF DoneInv, OwnInv

LEMMA ReleasedStep ==
    ASSUME TypeOK, TypeOK', ListInv, FieldInv, ReleasedInv, StatusInv, [Next]_vars
    PROVE  ReleasedInv'
<1> SUFFICES ASSUME NEW q \in Procs, pc'[q] \in {"sleep"} \cup Leading, ~member'[q]
             PROVE  Served(q)'
    BY DEF ReleasedInv
<1>0. /\ pc \in [Procs -> Labels] /\ member \in [Procs -> BOOLEAN]
      /\ sent \in [Procs -> Nat]
    BY DEF TypeOK
\* q was let go earlier, or is so now.
<1> DEFINE Before == /\ pc[q] \in {"sleep"} \cup Leading /\ sent'[q] = sent[q]
                     /\ member[q] => Served(q)
<1>1. Before
    <2> USE <1>0 DEF Goto, logVars, procVars, listVars, semVars, callVars, leaderVars,
                     Leading, Walking, Unrolling
    <2>1. ASSUME UNCHANGED <<pc, member, sent>>
          PROVE  Before
        BY <2>1
    <2>2. ASSUME NEW p \in Procs, Start(p) \/ Finish(p) \/ SetAlone(p)
          PROVE  Before
        BY <2>2 DEF Start, Finish, SetAlone
    <2>3. ASSUME NEW p \in Procs, SetMember(p) \/ OtherPage(p) \/ SetNext(p) \/ JoinFails(p)
          PROVE  Before
        BY <2>3 DEF SetMember, OtherPage, SetNext, JoinFails
    <2>4. ASSUME NEW p \in Procs, Join(p)
          PROVE  Before
        <3>1. pc[p] = "swap" /\ member[p]
            BY <2>4 DEF Join, FieldInv
        <3> QED
            BY <2>4, <3>1 DEF Join
    <2>5. ASSUME NEW p \in Procs, Sleep(p)
          PROVE  Before
        BY <2>5 DEF Sleep
    <2>6. ASSUME NEW p \in Procs,
                 \/ Detach(p) \/ ReleaseBank(p) \/ AcquireBank(p) \/ Serve(p) \/ Unlock(p)
                 \/ SemUnlock(p) \/ Leave(p)
          PROVE  Before
        BY <2>6 DEF Detach, ReleaseBank, AcquireBank, Serve, Unlock, SemUnlock, Leave
    <2>7. ASSUME NEW p \in Procs, Release(p)
          PROVE  Before
        <3>1. PICK m \in Procs : m = wakeidx[p] /\ Served(m)
            BY <2>7, ReleaseServes
        <3>2. /\ pc[p] = "wake" /\ member' = [member EXCEPT ![m] = FALSE]
              /\ pc' = [pc EXCEPT ![p] = IF m = p THEN "wake" ELSE "unlock"]
              /\ sent' = sent
            BY <2>7, <3>1 DEF Release
        <3>3. member[q] => q = m
            BY <3>2
        <3>4. pc[q] \in {"sleep"} \cup Leading
            BY <3>2
        <3> QED
            BY <3>1, <3>2, <3>3, <3>4
    <2> HIDE DEF Before
    <2>8. CASE \/ UNCHANGED vars \/ \E x \in Asked : TransactionIdDidCommit(x)
               \/ SubTransGetParent \/ DidParentCommit
        BY <2>1, <2>8, CheckerSteps
    <2> QED
        BY <2>2, <2>3, <2>4, <2>5, <2>6, <2>7, <2>8, Steps
<1>2. Served(q)
    BY <1>0, <1>1 DEF ReleasedInv
<1>3. pc[q] # "idle"
    BY <1>1 DEF Leading, Walking, Unrolling
<1>4. sent[q] \in DOMAIN Work[q]
    BY <1>3 DEF FieldInv
<1> QED
    BY <1>1, <1>2, <1>4, KeepsServed

-----------------------------------------------------------------------------
(* Trees commit as a whole                                                 *)

\* What the commit log may say of the tree of r: the xid itself has committed as soon
\* as any of them has, and from then on all the others are at least sub-committed.
TreeState(r) ==
    /\ \A x \in TreeOf(r) :
          /\ r.st = "aborted" => clog[x] \in {"in_progress", "aborted"}
          /\ r.st = "committed" => clog[x] # "aborted"
          /\ clog[x] = "sub_committed" => x \in SubsOf(r)
          /\ clog[x] = "committed" => clog[r.xid] = "committed"
          /\ clog[r.xid] = "committed" => clog[x] \in {"committed", "sub_committed"}
          /\ r.st = "committed" /\ x \in csnSet => clog[r.xid] = "committed"
    /\ clog[r.xid] = "committed" => r.st = "committed"

LEMMA UniformState ==
    ASSUME NEW r \in Requests, NEW st \in {"in_progress", r.st}, Uniform(TreeOf(r), st),
           TreeOf(r) \cap csnSet = {} \/ st = r.st
    PROVE  TreeState(r)
BY TreeFacts DEF Uniform, TreeState

LEMMA ProgressState ==
    ASSUME NEW r \in Requests, NEW t \in Phases, Progress(r, t), TreeOf(r) \cap csnSet = {}
    PROVE  TreeState(r)
<1>1. /\ r.st \in {"committed", "aborted"} /\ r.xid \in TreeOf(r) \ Elsewhere(r)
      /\ Elsewhere(r) \subseteq SubsOf(r) /\ Elsewhere(r) \subseteq TreeOf(r)
      /\ t.left \subseteq Elsewhere(r)
    BY TreeFacts DEF Progress
<1>2. t.phase \in {"sub", "own", "final", "none"}
    BY DEF Phases
<1>3. CASE t.phase = "sub"
    BY <1>1, <1>3 DEF Progress, Uniform, TreeState
<1>4. CASE t.phase = "own"
    <2>1. PICK st \in {"in_progress", r.st} : Uniform(TreeOf(r) \ Elsewhere(r), st)
        BY <1>4 DEF Progress
    <2>2. Uniform(Elsewhere(r), Halfway(r))
        BY <1>4 DEF Progress
    <2> QED
        BY <1>1, <2>1, <2>2 DEF Uniform, TreeState, Halfway
<1>5. CASE t.phase = "final"
    BY <1>1, <1>5 DEF Progress, Uniform, TreeState, Halfway
<1>6. CASE t.phase = "none"
    BY <1>6, UniformState DEF Progress
<1> QED
    BY <1>2, <1>3, <1>4, <1>5, <1>6

LEMMA TreeStates ==
    ASSUME TypeOK, StatusInv, NEW r \in Requests
    PROVE  TreeState(r)
<1>1. PICK p \in Procs : \E i \in DOMAIN Work[p] : r = Work[p][i]
    BY RequestPlace
<1>2. PICK i \in DOMAIN Work[p] : r = Work[p][i]
    BY <1>1
<1>3. StatusOf(p, i) /\ i \in Nat /\ sent[p] \in Nat
    BY StatusOfAll, TypeFacts, WorkFacts
<1>4. PICK t \in Phases : t = todo[p]
    BY TypeFacts
<1>5. CASE i > sent[p]
    BY <1>2, <1>3, <1>5, UniformState DEF StatusOf
<1>6. CASE i = sent[p] /\ pc[p] # "idle"
    BY <1>2, <1>3, <1>4, <1>6, ProgressState DEF StatusOf
<1>7. CASE i < sent[p] \/ (i = sent[p] /\ pc[p] = "idle")
    BY <1>2, <1>3, <1>7, UniformState DEF StatusOf
<1> QED
    BY <1>3, <1>5, <1>6, <1>7

\* A transaction has committed when the xid of its request has.
LEMMA CommittedByXid ==
    ASSUME TypeOK, StatusInv, NEW r \in Requests, NEW x \in TreeOf(r)
    PROVE  x \in Committed <=> clog[r.xid] = "committed"
<1>1. clog[r.xid] = "committed" => r.top
    BY TreeStates, TreeAssumption DEF TreeState
<1>2. ASSUME x \in Committed
      PROVE  clog[r.xid] = "committed"
    <2>1. PICK s \in Requests : clog[s.xid] = "committed" /\ x \in TreeOf(s)
        BY <1>2 DEF Committed
    <2> QED
        BY <2>1, OneTree
<1>3. ASSUME clog[r.xid] = "committed"
      PROVE  x \in Committed
    BY <1>1, <1>3 DEF Committed
<1> QED
    BY <1>2, <1>3

LEMMA CommittedStays ==
    ASSUME TypeOK, ListInv, FieldInv, StatusInv, [Next]_vars
    PROVE  Committed \subseteq Committed'
<1> SUFFICES ASSUME NEW r \in Requests, r.top, clog[r.xid] = "committed"
             PROVE  clog'[r.xid] = "committed"
    BY DEF Committed
<1>1. r.st = "committed" /\ r.xid \in TreeOf(r) /\ r.xid \in Xids
    BY TreeStates, TreeFacts DEF TreeState
<1>2. ASSUME NEW s \in Requests, Touches(s)
      PROVE  clog'[r.xid] = "committed"
    <2>1. CASE r.xid \in TreeOf(s)
        BY <1>1, <1>2, <2>1, OneTree DEF Touches
    <2>2. CASE r.xid \notin TreeOf(s)
        BY <1>1, <1>2, <2>2 DEF Touches
    <2> QED
        BY <2>1, <2>2
<1> QED
    BY <1>2, StepTouches

-----------------------------------------------------------------------------
(* The checker                                                             *)

\* A checker reads one entry of the tree it has asked about.
LEMMA FetchKeeps ==
    ASSUME TypeOK, StatusInv, NEW c \in CheckerType, NEW r \in Requests, NEW x \in TreeOf(r),
           c.asked \in TreeOf(r), c.was => c.asked \in Committed,
           TransactionLogFetch(c, x), clog' = clog
    PROVE  CheckerInv'
<1>1. x \in Xids /\ TreeState(r)
    BY TreeFacts, TreeStates
<1>2. PICK k \in CheckerType : k = checker'
    BY <1>1, FetchFacts
<1>3. /\ k.x = x /\ k.asked = c.asked /\ k.was = c.was
      /\ k.at = IF clog[x] = "sub_committed" THEN "parent" ELSE "done"
      /\ k.answer <=> clog[x] = "committed"
    BY <1>1, <1>2, FetchFacts
<1>4. Committed' = Committed
    BY DEF Committed
<1>5. k.asked \in Committed <=> clog[r.xid] = "committed"
    BY <1>3, CommittedByXid
<1>6. k.was => k.asked \in Committed
    BY <1>3
<1>7. k.at \in {"parent", "fetch"} =>
         r.st = "committed" /\ {k.asked, k.x} \subseteq TreeOf(r) /\ k.x \in SubsOf(r)
    BY <1>1, <1>3, TreeFacts DEF TreeState
<1>8. k.at = "done" => (k.answer <=> clog[r.xid] = "committed")
    BY <1>1, <1>3 DEF TreeState
<1> QED
    BY <1>2, <1>4, <1>5, <1>6, <1>7, <1>8 DEF CheckerInv

LEMMA OthersAsk ==
    ASSUME NEW p \in Procs,
           \/ Start(p) \/ Finish(p) \/ SetAlone(p) \/ SetMember(p) \/ OtherPage(p)
           \/ SetNext(p) \/ Join(p) \/ JoinFails(p) \/ Sleep(p) \/ Detach(p)
           \/ ReleaseBank(p) \/ AcquireBank(p) \/ Serve(p) \/ Unlock(p)
           \/ Release(p) \/ SemUnlock(p) \/ Leave(p)
    PROVE  checker' = checker
BY DEF Start, Finish, SetAlone, SetMember, OtherPage, SetNext, Join, JoinFails, Sleep, Detach,
       ReleaseBank, AcquireBank, Serve, Unlock, Release, SemUnlock, Leave

LEMMA CheckerStep ==
    ASSUME TypeOK, ListInv, FieldInv, StatusInv, CheckerInv, [Next]_vars
    PROVE  CheckerInv'
<1>0. checker \in CheckerType
    BY DEF TypeOK, CheckerType
<1>1. ASSUME checker' = checker
      PROVE  CheckerInv'
    BY <1>1, CommittedStays DEF CheckerInv
<1>2. ASSUME NEW x \in Asked, TransactionIdDidCommit(x)
      PROVE  CheckerInv'
    <2>1. PICK r \in Requests : x \in TreeOf(r)
        BY ClogAssumption DEF Xids
    <2>2. x \in Xids
        BY ClogAssumption
    <2>3. PICK b \in BOOLEAN : b = (x \in Committed)
        <3>1. (x \in Committed) \in BOOLEAN
            OBVIOUS
        <3> WITNESS (x \in Committed) \in BOOLEAN
        <3> QED
            OBVIOUS
    <2>4. TransactionLogFetch([Idle EXCEPT !.asked = x, !.was = b], x)
        BY <1>2, <2>3 DEF TransactionIdDidCommit
    <2>5. PICK c \in CheckerType : c = [Idle EXCEPT !.asked = x, !.was = b]
        BY <2>2, IdleFacts
    <2>6. c.asked = x /\ c.was = b
        BY <2>2, <2>5, IdleFacts
    <2>7. clog' = clog
        BY <1>2, CheckerSteps
    <2> QED
        BY <2>1, <2>3, <2>4, <2>5, <2>6, <2>7, FetchKeeps
<1>3. CASE SubTransGetParent
    <2>1. checker.at = "parent" /\ UNCHANGED <<clog, csnSet>>
        BY <1>3, CheckerSteps DEF SubTransGetParent
    <2>2. PICK r \in Requests : /\ r.st = "committed" /\ checker.asked \in TreeOf(r)
                                /\ checker.x \in SubsOf(r)
        BY <2>1 DEF CheckerInv
    <2>3. TreeState(r) /\ checker.x \in TreeOf(r)
        BY <2>2, TreeStates, TreeFacts
    <2>4. Committed' = Committed
        BY <2>1 DEF Committed
    <2>5. checker.was => checker.asked \in Committed
        BY DEF CheckerInv
    <2>6. CASE checker.x \in csnSet
        <3>1. checker.asked \in Committed
            BY <2>2, <2>3, <2>6, CommittedByXid DEF TreeState
        <3>2. /\ checker'.at = "done" /\ checker'.answer
              /\ checker'.asked = checker.asked /\ checker'.was = checker.was
            BY <1>0, <1>3, <2>6 DEF SubTransGetParent, CheckerType
        <3> QED
            BY <2>4, <3>1, <3>2 DEF CheckerInv
    <2>7. CASE checker.x \notin csnSet
        <3>1. Parent[checker.x] \in TreeOf(r)
            BY <2>2, TreeAssumption
        <3>2. /\ checker'.at = "fetch" /\ checker'.x = Parent[checker.x]
              /\ checker'.asked = checker.asked /\ checker'.was = checker.was
            BY <1>0, <1>3, <2>7 DEF SubTransGetParent, CheckerType
        <3> QED
            BY <2>2, <2>4, <2>5, <3>1, <3>2 DEF CheckerInv
    <2> QED
        BY <2>6, <2>7
<1>4. CASE DidParentCommit
    <2>1. checker.at = "fetch" /\ TransactionLogFetch(checker, checker.x)
        BY <1>4 DEF DidParentCommit
    <2>2. PICK r \in Requests : {checker.asked, checker.x} \subseteq TreeOf(r)
        BY <2>1 DEF CheckerInv
    <2>3. PICK c \in CheckerType, x \in TreeOf(r) : c = checker /\ x = checker.x
        BY <1>0, <2>2
    <2>4. c.was => c.asked \in Committed
        BY <2>3 DEF CheckerInv
    <2>5. clog' = clog
        BY <1>4, CheckerSteps
    <2> QED
        BY <2>1, <2>2, <2>3, <2>4, <2>5, FetchKeeps
<1>5. CASE UNCHANGED vars
    BY <1>1, <1>5 DEF vars
<1> QED
    BY <1>1, <1>2, <1>3, <1>4, <1>5, OthersAsk, Steps

-----------------------------------------------------------------------------
(* The invariant                                                           *)

LEMMA InitIInv == Init => IInv
<1> SUFFICES ASSUME Init PROVE IInv
    OBVIOUS
<1> USE DEF Init
<1>0. Banks \in Nat /\ 0 .. Banks - 1 \subseteq Nat
    BY ClogAssumption
<1>1. TypeOK
    <2>1. \A p \in Procs : Len(Work[p]) \in Nat
        BY WorkFacts
    <2>2. /\ clog \in [Xids -> Statuses] /\ csnSet \subseteq Xids
          /\ bankHolder \in [0 .. Banks - 1 -> Procs \cup {NoProc}]
          /\ first \in Procs \cup {NoProc}
          /\ next \in [Procs -> Procs \cup {NoProc}]
          /\ nextidx \in [Procs -> Procs \cup {NoProc}]
          /\ wakeidx \in [Procs -> Procs \cup {NoProc}]
          /\ member \in [Procs -> BOOLEAN]
          /\ bank \in [Procs -> (0 .. Banks - 1) \cup {NoBank}]
          /\ pc \in [Procs -> Labels]
        BY DEF Statuses, Labels
    <2>3. fields \in [Procs -> [xid : Xids \cup {NoXid}, st : Statuses, page : Nat]]
        BY DEF NoFields, Statuses
    <2>4. /\ cached \in [Procs -> Seq(Nat)]
          /\ sem \in [Procs -> Nat] /\ extraWaits \in [Procs -> Nat]
          /\ sent \in [Procs -> Nat] /\ \A p \in Procs : sent[p] <= Len(Work[p])
        BY <2>1, ClogAssumption
    <2>5. todo \in [Procs -> [phase : {"sub", "own", "final", "none"}, left : SUBSET Xids]]
        BY DEF Nothing, Pass
    <2>6. checker \in [at : {"idle", "parent", "fetch", "done"}, x : Xids \cup {NoXid},
                       asked : Xids \cup {NoXid}, was : BOOLEAN, answer : BOOLEAN]
        BY DEF Idle
    <2> QED
        BY <2>2, <2>3, <2>4, <2>5, <2>6 DEF TypeOK
<1>2. \A p \in Procs : pc[p] = "idle"
    OBVIOUS
<1>3. HolderInv /\ FieldInv /\ ReleasedInv
    BY <1>2 DEF HolderInv, FieldInv, ReleasedInv, Leading, Walking, Unrolling
<1>4. ListInv
    <2>1. PICK own \in [Procs -> Procs \cup {NoProc}] : own = [p \in Procs |-> NoProc]
        OBVIOUS
    <2>2. OwnInv(own) /\ LinkInv(own) /\ RootInv(own) /\ DoneInv(own, {})
        BY <1>2, <2>1, ClogAssumption DEF OwnInv, LinkInv, RootInv, DoneInv, Queued, Linked,
           Leading, Walking, Unrolling
    <2> QED
        BY <2>2 DEF ListInv
<1>5. StatusInv
    <2> SUFFICES ASSUME NEW p \in Procs, NEW i \in DOMAIN Work[p]
                 PROVE  StatusOf(p, i)
        BY StatusOfAll
    <2>1. PICK r \in Requests : r = Work[p][i]
        BY WorkFacts
    <2>2. i \in Nat /\ i > 0 /\ sent[p] = 0
        BY WorkFacts
    <2>3. Uniform(TreeOf(r), "in_progress")
        BY TreeFacts DEF Uniform
    <2> QED
        BY <2>1, <2>2, <2>3 DEF StatusOf
<1>6. CheckerInv
    BY DEF CheckerInv, Idle
<1> QED
    BY <1>1, <1>3, <1>4, <1>5, <1>6 DEF IInv

LEMMA NextIInv == IInv /\ [Next]_vars => IInv'
<1> SUFFICES ASSUME IInv, [Next]_vars PROVE IInv'
    OBVIOUS
<1>1. /\ TypeOK /\ HolderInv /\ FieldInv /\ ListInv /\ ReleasedInv /\ StatusInv /\ CheckerInv
    BY DEF IInv
<1>2. TypeOK'
    BY <1>1, TypeStep
<1>3. HolderInv'
    BY <1>1, HolderStep
<1>4. FieldInv'
    BY <1>1, FieldStep
<1>5. ListInv'
    BY <1>1, <1>2, ListStep
<1>6. ReleasedInv'
    BY <1>1, <1>2, ReleasedStep
<1>7. StatusInv'
    BY <1>1, StatusStep
<1>8. CheckerInv'
    BY <1>1, CheckerStep
<1> QED
    BY <1>2, <1>3, <1>4, <1>5, <1>6, <1>7, <1>8 DEF IInv

(***************************************************************************)
(* The inductive invariant: the lists are well linked, whoever is on one   *)
(* says in its PGPROC what is to be written, whoever was let go was        *)
(* served, and the commit log says of every tree what CLogSetTreeStatus    *)
(* has written of it so far.                                               *)
(***************************************************************************)
THEOREM Invariance == Spec => []IInv
BY InitIInv, NextIInv, PTL DEF Spec

(***************************************************************************)
(* The variables of the group update and of the checker keep their types.  *)
(***************************************************************************)
THEOREM TypeCorrect == Spec => []TypeOK
<1>1. IInv => TypeOK
    BY DEF IInv
<1> QED
    BY <1>1, Invariance, PTL

(***************************************************************************)
(* A leader serves a member only under the lock of the bank of that        *)
(* member's page, which is what CLogSetStatusBit asserts.                  *)
(***************************************************************************)
THEOREM LeaderHoldsBank == Spec => []BankLockHeld
<1>1. IInv => BankLockHeld
    BY DEF IInv, HolderInv, BankLockHeld, WrongBank
<1> QED
    BY <1>1, Invariance, PTL

(***************************************************************************)
(* CLogSetTreeStatus returns, alone or from a group, only when the outcome *)
(* of the whole tree is in the commit log.                                 *)
(***************************************************************************)
THEOREM ServedBeforeReturn == Spec => []ServedWhenReturned
<1>1. IInv => ServedWhenReturned
    <2> SUFFICES ASSUME IInv, NEW p \in Procs, pc[p] = "call", todo[p] = Nothing
                 PROVE  \A x \in TreeOf(Request(p)) : clog[x] = Request(p).st
        BY DEF ServedWhenReturned
    <2>1. TypeOK /\ FieldInv /\ StatusInv
        BY DEF IInv
    <2>2. sent[p] \in DOMAIN Work[p]
        BY <2>1 DEF FieldInv
    <2>3. Progress(Request(p), todo[p])
        BY <2>1, <2>2, StatusOfAll DEF StatusOf, Request
    <2>4. todo[p].phase = "none"
        BY PassTypes DEF Nothing, Pass
    <2> QED
        BY <2>3, <2>4 DEF Progress, Uniform
<1> QED
    BY <1>1, Invariance, PTL

(***************************************************************************)
(* TransactionIdDidCommit, which goes from one entry to the next while     *)
(* they are being written, says yes only of a transaction that has         *)
(* committed, and no only of one that had not when it was asked.           *)
(***************************************************************************)
THEOREM CheckerIsExact == Spec => []CheckerExact
<1>1. IInv => CheckerExact
    BY DEF IInv, CheckerInv, CheckerExact
<1> QED
    BY <1>1, Invariance, PTL

-----------------------------------------------------------------------------
(* Commits are atomic                                                      *)

\* What a checker that goes up the tree at once makes of the answers g it has for
\* smaller xids.
Answers(g) ==
    [x \in Xids |-> \/ clog[x] = "committed"
                    \/ clog[x] = "sub_committed" /\ x \in DOMAIN Parent /\ g[Parent[x]]]

\* The entry of x and what its parent says.
LEMMA AnswerOf ==
    ASSUME TypeOK, StatusInv, NEW x \in Xids
    PROVE  /\ clog[x] = "committed" => x \in Committed
           /\ clog[x] = "sub_committed" =>
                 /\ x \in DOMAIN Parent /\ Parent[x] \in Xids /\ Parent[x] < x
                 /\ Parent[x] \in Committed <=> x \in Committed
           /\ x \in Committed => clog[x] \in {"committed", "sub_committed"}
<1>1. PICK r \in Requests : x \in TreeOf(r)
    BY DEF Xids
<1>2. TreeState(r) /\ TreeOf(r) \subseteq Xids
    BY TreeStates, TreeFacts
<1>3. x \in Committed <=> clog[r.xid] = "committed"
    BY <1>1, CommittedByXid
<1>4. ASSUME clog[x] = "sub_committed"
      PROVE  /\ x \in DOMAIN Parent /\ Parent[x] \in Xids /\ Parent[x] < x
             /\ Parent[x] \in Committed <=> x \in Committed
    <2>1. x \in SubsOf(r)
        BY <1>1, <1>2, <1>4 DEF TreeState
    <2>2. x \in DOMAIN Parent /\ Parent[x] \in TreeOf(r) /\ Parent[x] < x
        BY <2>1, TreeAssumption
    <2>3. Parent[x] \in Committed <=> clog[r.xid] = "committed"
        BY <2>2, CommittedByXid
    <2> QED
        BY <1>2, <1>3, <2>2, <2>3
<1> QED
    BY <1>1, <1>2, <1>3, <1>4 DEF TreeState

LEMMA DidCommitIs ==
    ASSUME TypeOK, StatusInv
    PROVE  DidCommit = Answers(DidCommit)
<1> DEFINE G == [x \in Xids |-> x \in Committed]
<1>1. ASSUME NEW x \in Xids
      PROVE  (x \in Committed) <=> \/ clog[x] = "committed"
                                   \/ /\ clog[x] = "sub_committed" /\ x \in DOMAIN Parent
                                      /\ G[Parent[x]]
    <2>1. CASE clog[x] = "sub_committed"
        <3>1. /\ x \in DOMAIN Parent /\ Parent[x] \in Xids
              /\ Parent[x] \in Committed <=> x \in Committed
            BY <2>1, AnswerOf
        <3>2. G[Parent[x]] <=> Parent[x] \in Committed
            BY <3>1, Zenon
        <3> HIDE DEF G
        <3> QED
            BY <2>1, <3>1, <3>2
    <2>2. CASE clog[x] # "sub_committed"
        BY <2>2, AnswerOf
    <2> QED
        BY <2>1, <2>2
<1>2. G = Answers(G)
    <2> DEFINE A(x) == \/ clog[x] = "committed"
                       \/ clog[x] = "sub_committed" /\ x \in DOMAIN Parent /\ G[Parent[x]]
    <2>1. \A x \in Xids : (x \in Committed) = A(x)
        <3> SUFFICES ASSUME NEW x \in Xids
                     PROVE  (x \in Committed) = A(x)
            OBVIOUS
        <3>1. (x \in Committed) <=> A(x)
            BY <1>1
        <3>2. A(x) \in BOOLEAN
            OBVIOUS
        <3> HIDE DEF A
        <3> QED
            BY <3>1, <3>2
    <2>2. Answers(G) = [x \in Xids |-> A(x)]
        BY Zenon DEF Answers
    <2> HIDE DEF A
    <2> QED
        BY <2>1, <2>2, Zenon
<1> HIDE DEF G
<1>3. \E g : g = Answers(g)
    BY <1>2, Zenon
<1>4. DidCommit = CHOOSE g : g = Answers(g)
    BY Zenon DEF DidCommit, Answers
<1> QED
    BY <1>3, <1>4, Zenon

\* An atomic TransactionIdDidCommit says yes of the committed transactions.
DidCommitExact == TypeOK /\ StatusInv => {x \in Xids : DidCommit[x]} = Committed

LEMMA AtomicAnswers == DidCommitExact
<1> SUFFICES ASSUME TypeOK, StatusInv
             PROVE  {x \in Xids : DidCommit[x]} = Committed
    BY DEF DidCommitExact
<1>1. ASSUME NEW x \in Xids
      PROVE  DidCommit[x] <=> \/ clog[x] = "committed"
                              \/ /\ clog[x] = "sub_committed" /\ x \in DOMAIN Parent
                                 /\ DidCommit[Parent[x]]
    BY DidCommitIs, Zenon DEF Answers
<1> DEFINE Wrong == {x \in Xids : ~(DidCommit[x] <=> x \in Committed)}
           R == OpToRel(<, Nat)
<1>2. Wrong = {}
    <2> SUFFICES ASSUME Wrong # {} PROVE FALSE
        OBVIOUS
    <2>1. Wrong \subseteq Nat
        BY XidsNat
    <2>2. IsWellFoundedOn(R, Nat)
        BY NatLessThanWellFounded
    <2>3. PICK x \in Wrong : \A y \in Wrong : ~(<<y, x>> \in R)
        BY <2>1, <2>2, WFMin, Zenon
    <2>4. x \in Xids /\ x \in Nat
        BY <2>1
    <2>5. CASE clog[x] = "sub_committed"
        <3>1. PICK y \in Xids : y = Parent[x]
            BY <2>4, <2>5, AnswerOf
        <3>2. /\ x \in DOMAIN Parent /\ y < x /\ y \in Nat
              /\ y \in Committed <=> x \in Committed
            BY <2>4, <2>5, <3>1, AnswerOf, XidsNat
        <3>3. <<y, x>> \in R
            BY <2>4, <3>2 DEF OpToRel
        <3>4. DidCommit[y] <=> y \in Committed
            BY <2>3, <3>3, Zenon
        <3>5. DidCommit[x] <=> DidCommit[y]
            BY <1>1, <2>4, <2>5, <3>1, <3>2
        <3> QED
            BY <2>3, <3>2, <3>4, <3>5, Zenon
    <2>6. CASE clog[x] # "sub_committed"
        <3>1. DidCommit[x] <=> clog[x] = "committed"
            BY <1>1, <2>4, <2>6
        <3>2. x \in Committed <=> clog[x] = "committed"
            BY <2>4, <2>6, AnswerOf
        <3> QED
            BY <2>3, <3>1, <3>2, Zenon
    <2> QED
        BY <2>5, <2>6
<1>3. Committed \subseteq Xids
    BY DEF Committed, Xids
<1> QED
    BY <1>2, <1>3, Zenon

\* The transactions that a reader finds aborted.
Aborted == {x \in Xids : clog[x] = "aborted"}

\* What TreeStates and CommittedByXid say, before a step and after it.
TreesCommit ==
    TypeOK /\ StatusInv =>
       \A r \in Requests : TreeState(r) /\ \A x \in TreeOf(r) :
          x \in Committed <=> clog[r.xid] = "committed"

LEMMA TreesDoCommit == TreesCommit
BY TreeStates, CommittedByXid DEF TreesCommit

\* A write for one request commits its tree, aborts part of it or tells readers nothing.
LEMMA WriteIsAtomic ==
    ASSUME TypeOK, StatusInv, TypeOK', StatusInv', TreesCommit, TreesCommit',
           NEW r \in Requests, Touches(r)
    PROVE  \/ /\ TreeOf(r) \cap (Committed \cup Aborted) = {}
              /\ Committed' = Committed \cup TreeOf(r) /\ Aborted' = Aborted
           \/ /\ TreeOf(r) \cap Committed = {}
              /\ Aborted \subseteq Aborted' /\ Aborted' \ Aborted \subseteq TreeOf(r)
              /\ Committed' = Committed
           \/ Committed' = Committed /\ Aborted' = Aborted
<1>1. /\ \A s \in Requests : \A x \in TreeOf(s) : x \in Committed <=> clog[s.xid] = "committed"
      /\ TreeState(r)
    BY DEF TreesCommit
<1>2. /\ \A s \in Requests : \A x \in TreeOf(s) :
            x \in Committed' <=> clog'[s.xid] = "committed"
      /\ TreeState(r)'
    BY DEF TreesCommit
<1>3. /\ r.xid \in TreeOf(r) /\ TreeOf(r) \subseteq Xids /\ r.st \in {"committed", "aborted"}
      /\ Committed \subseteq Xids /\ Committed' \subseteq Xids
    <2>1. Committed \subseteq Xids /\ Committed' \subseteq Xids
        BY DEF Committed, Xids
    <2> QED
        BY <2>1, TreeFacts
<1>4. \A x \in Xids \ TreeOf(r) : clog'[x] = clog[x]
    BY DEF Touches
<1>5. \A x \in Xids \ TreeOf(r) : x \in Committed' <=> x \in Committed
    <2> SUFFICES ASSUME NEW x \in Xids \ TreeOf(r)
                 PROVE  x \in Committed' <=> x \in Committed
        OBVIOUS
    <2>1. PICK s \in Requests : x \in TreeOf(s)
        BY DEF Xids
    <2>2. s.xid \in Xids \ TreeOf(r)
        BY <2>1, TreeFacts, OneTree
    <2> QED
        BY <1>1, <1>2, <1>4, <2>1, <2>2
<1>6. r.xid \in Committed => r.xid \in Committed'
    BY <1>1, <1>2, <1>3 DEF Touches, TreeState
<1>7. \A x \in TreeOf(r) : /\ x \in Committed <=> r.xid \in Committed
                           /\ x \in Committed' <=> r.xid \in Committed'
    BY <1>1, <1>2, <1>3
<1>8. CASE r.st = "committed"
    <2>1. \A x \in TreeOf(r) : x \notin Aborted /\ x \notin Aborted'
        BY <1>1, <1>2, <1>8 DEF Aborted, TreeState
    <2>2. Aborted' = Aborted
        BY <1>4, <2>1 DEF Aborted
    <2>3. CASE r.xid \in Committed' /\ r.xid \notin Committed
        <3>1. TreeOf(r) \cap (Committed \cup Aborted) = {}
            BY <1>7, <2>1, <2>3
        <3>2. Committed' = Committed \cup TreeOf(r)
            BY <1>3, <1>5, <1>7, <2>3
        <3> QED
            BY <2>2, <3>1, <3>2
    <2>4. CASE r.xid \in Committed' <=> r.xid \in Committed
        <3>1. Committed' = Committed
            BY <1>3, <1>5, <1>7, <2>4
        <3> QED
            BY <2>2, <3>1
    <2> QED
        BY <1>6, <2>3, <2>4
<1>9. CASE r.st = "aborted"
    <2>1. r.xid \notin Committed /\ r.xid \notin Committed'
        BY <1>1, <1>2, <1>3, <1>9 DEF TreeState
    <2>2. Committed' = Committed /\ TreeOf(r) \cap Committed = {}
        BY <1>3, <1>5, <1>7, <2>1
    <2>3. Aborted \subseteq Aborted'
        BY <1>9 DEF Touches, Aborted
    <2>4. Aborted' \ Aborted \subseteq TreeOf(r)
        BY <1>4 DEF Aborted
    <2> QED
        BY <2>2, <2>3, <2>4
<1> QED
    BY <1>3, <1>8, <1>9

\* The step of AtomicClog that a step is.
LEMMA AtomicStep ==
    ASSUME IInv, IInv', TreesCommit, TreesCommit', DidCommitExact, DidCommitExact',
           [Next]_vars
    PROVE  Atomic!Next \/ UNCHANGED Atomic!clogVars
<1>0. /\ TypeOK /\ FieldInv /\ ListInv /\ StatusInv
      /\ TypeOK' /\ StatusInv'
    BY DEF IInv
<1>1. /\ {x \in Xids : DidCommit[x]} = Committed
      /\ {x \in Xids : DidCommit[x]}' = Committed'
    BY <1>0 DEF DidCommitExact
<1>2. CASE clog' = clog
    <2>1. Committed' = Committed /\ Aborted' = Aborted
        BY <1>2 DEF Committed, Aborted
    <2> QED
        BY <1>1, <2>1, Zenon DEF Atomic!clogVars, Aborted
<1>3. ASSUME NEW r \in Requests, Touches(r)
      PROVE  Atomic!Next \/ UNCHANGED Atomic!clogVars
    <2>1. CASE /\ TreeOf(r) \cap (Committed \cup Aborted) = {}
               /\ Committed' = Committed \cup TreeOf(r) /\ Aborted' = Aborted
        <3>1. Atomic!Commit(TreeOf(r))
            BY <1>1, <2>1, Zenon DEF Atomic!Commit, Atomic!Over, Aborted
        <3> QED
            BY <3>1, Zenon DEF Atomic!Next
    <2>2. CASE /\ TreeOf(r) \cap Committed = {}
               /\ Aborted \subseteq Aborted' /\ Aborted' \ Aborted \subseteq TreeOf(r)
               /\ Committed' = Committed
        <3>1. Atomic!Abort(TreeOf(r))
            BY <1>1, <2>2, Zenon DEF Atomic!Abort, Aborted
        <3> QED
            BY <3>1, Zenon DEF Atomic!Next
    <2>3. CASE Committed' = Committed /\ Aborted' = Aborted
        BY <1>1, <2>3, Zenon DEF Atomic!clogVars, Aborted
    <2> QED
        BY <1>0, <1>3, <2>1, <2>2, <2>3, WriteIsAtomic
<1> QED
    BY <1>0, <1>2, <1>3, StepTouches

(***************************************************************************)
(* The comment of CLogSetTreeStatus, "as far as concurrent checkers are    *)
(* concerned, main transaction commit as a whole is still atomic": the     *)
(* commit log implements AtomicClog, in which a tree commits in one step.  *)
(***************************************************************************)
THEOREM CommitIsAtomic == Spec => ImplementsAtomicClog
<1>1. Init /\ IInv /\ DidCommitExact => Atomic!Init
    <2> SUFFICES ASSUME Init, IInv, DidCommitExact PROVE Atomic!Init
        OBVIOUS
    <2>1. \A x \in Xids : clog[x] = "in_progress"
        BY DEF Init
    <2>2. Committed = {}
        BY <2>1, TreeFacts DEF Committed
    <2>3. Aborted = {}
        BY <2>1 DEF Aborted
    <2>4. {x \in Xids : DidCommit[x]} = Committed
        BY DEF DidCommitExact, IInv
    <2> QED
        BY <2>2, <2>3, <2>4, Zenon DEF Atomic!Init, Aborted
<1>2. IInv /\ IInv' /\ TreesCommit /\ TreesCommit' /\ DidCommitExact /\ DidCommitExact'
         /\ [Next]_vars => [Atomic!Next]_Atomic!clogVars
    BY AtomicStep
<1>3. TreesCommit
    BY TreesDoCommit
<1>4. DidCommitExact
    BY AtomicAnswers
<1> QED
    BY <1>1, <1>2, <1>3, <1>4, Invariance, PTL DEF Spec, ImplementsAtomicClog, Atomic!Spec

=============================================================================
