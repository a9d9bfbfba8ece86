----------------------------- MODULE MvccProofs -----------------------------
(***************************************************************************)
(* MvccVisibility: the invariant and the visibility theorems, for any      *)
(* number of sessions and readers and any nesting of subtransactions.      *)
(***************************************************************************)
EXTENDS MvccInvariant, TLAPS

-----------------------------------------------------------------------------
(***************************************************************************)
(* The sessions' half of the proof: every step of a session that begins,   *)
(* nests, commits or aborts keeps XactInv and is Monotone, that is, takes  *)
(* nothing back that a reader relies on.  One lemma per action.            *)
(***************************************************************************)

\* Every xid of the model is a normal transaction id.
LEMMA XidsNat == \A x \in Xids : x \in Nat /\ 3 <= x /\ x <= MaxXid
  BY MaxXidAssumption DEF Xids, FirstNormalTransactionId

\* Arithmetic: a bound by b + 1 survives when b grows to c.
LEMMA LeSucc ==
  \A a, b, c \in Nat : a <= b + 1 /\ b <= c => a <= c + 1
  OBVIOUS

\* A word without flag bits is a CommitSeqNo; from 3 on it reads as committed.
LEMMA PlainFacts ==
  ASSUME NEW n \in Nat
  PROVE  /\ PlainCsn(n) \in CommitSeqNo
         /\ PlainCsn(n).val = n
         /\ ~COMMITSEQNO_IS_COMMITTING(PlainCsn(n))
         /\ COMMITSEQNO_IS_COMMITTED(PlainCsn(n)) <=> n >= 2
         /\ COMMITSEQNO_IS_ABORTED(PlainCsn(n)) <=> n = 1
  BY DEF PlainCsn, CommitSeqNo, CsnKinds, COMMITSEQNO_IS_COMMITTING,
         COMMITSEQNO_IS_COMMITTED, COMMITSEQNO_IS_ABORTED, COMMITSEQNO_ABORTED

\* How the macros of transam.h classify the three special CSNs.
LEMMA ConstantFacts ==
  /\ COMMITSEQNO_INPROGRESS \in CommitSeqNo
  /\ COMMITSEQNO_ABORTED \in CommitSeqNo
  /\ COMMITSEQNO_FROZEN \in CommitSeqNo
  /\ ~COMMITSEQNO_IS_COMMITTED(COMMITSEQNO_INPROGRESS)
  /\ ~COMMITSEQNO_IS_COMMITTING(COMMITSEQNO_INPROGRESS)
  /\ ~COMMITSEQNO_IS_ABORTED(COMMITSEQNO_INPROGRESS)
  /\ COMMITSEQNO_IS_ABORTED(COMMITSEQNO_ABORTED)
  /\ ~COMMITSEQNO_IS_COMMITTED(COMMITSEQNO_ABORTED)
  /\ ~COMMITSEQNO_IS_COMMITTING(COMMITSEQNO_ABORTED)
  /\ COMMITSEQNO_IS_COMMITTED(COMMITSEQNO_FROZEN)
  /\ ~COMMITSEQNO_IS_COMMITTING(COMMITSEQNO_FROZEN)
  /\ ~COMMITSEQNO_IS_ABORTED(COMMITSEQNO_FROZEN)
  /\ COMMITSEQNO_FROZEN.val = 2
  BY DEF PlainCsn, CommitSeqNo, CsnKinds, COMMITSEQNO_IS_COMMITTING,
         COMMITSEQNO_IS_COMMITTED, COMMITSEQNO_IS_ABORTED, COMMITSEQNO_ABORTED,
         COMMITSEQNO_INPROGRESS, COMMITSEQNO_FROZEN

\* Committed, aborted and commit-in-progress exclude one another.
LEMMA ExclusiveFacts ==
  ASSUME NEW e \in CommitSeqNo
  PROVE  /\ COMMITSEQNO_IS_COMMITTED(e) => ~COMMITSEQNO_IS_ABORTED(e)
         /\ COMMITSEQNO_IS_COMMITTED(e) => ~COMMITSEQNO_IS_COMMITTING(e)
         /\ COMMITSEQNO_IS_COMMITTING(e) => ~COMMITSEQNO_IS_ABORTED(e)
         /\ COMMITSEQNO_IS_ABORTED(e) <=> e = COMMITSEQNO_ABORTED
         /\ e.val \in Nat
  BY DEF PlainCsn, CommitSeqNo, CsnKinds, COMMITSEQNO_IS_COMMITTING,
         COMMITSEQNO_IS_COMMITTED, COMMITSEQNO_IS_ABORTED, COMMITSEQNO_ABORTED

\* What a commit-in-progress mark is, and whom it points at.
LEMMA MarkFacts ==
  ASSUME NEW x \in Nat, NEW t \in Nat, NEW n \in Nat
  PROVE  LET e == CommitInProgressCsn(x, t, n)
         IN /\ e \in CommitSeqNo
            /\ COMMITSEQNO_IS_COMMITTING(e)
            /\ COMMITSEQNO_IS_SUBTRANS(e) <=> x # t
            /\ x # t => e.val = t
            /\ x = t => e.val = n
  BY DEF CommitInProgressCsn, CommitSeqNo, CsnKinds, COMMITSEQNO_IS_COMMITTING,
         COMMITSEQNO_IS_SUBTRANS

\* A fresh subtransaction entry is neither final nor a mark.
LEMMA SubTransFacts ==
  ASSUME NEW p \in Nat
  PROVE  /\ SubTransCsn(p) \in CommitSeqNo
         /\ ~COMMITSEQNO_IS_COMMITTING(SubTransCsn(p))
         /\ ~COMMITSEQNO_IS_COMMITTED(SubTransCsn(p))
         /\ ~COMMITSEQNO_IS_ABORTED(SubTransCsn(p))
  BY DEF SubTransCsn, CommitSeqNo, CsnKinds, COMMITSEQNO_IS_COMMITTING,
         COMMITSEQNO_IS_COMMITTED, COMMITSEQNO_IS_ABORTED, COMMITSEQNO_ABORTED,
         PlainCsn

\* CSNLogSetCSN writes the new word unless the old one is ABORTED.
LEMMA SetCsnFacts ==
  ASSUME NEW old \in CommitSeqNo, NEW new \in CommitSeqNo
  PROVE  /\ CSNLogSetCSN(old, new) \in CommitSeqNo
         /\ COMMITSEQNO_IS_ABORTED(old) => CSNLogSetCSN(old, new) = old
         /\ ~COMMITSEQNO_IS_ABORTED(old) => CSNLogSetCSN(old, new) = new
  BY DEF CSNLogSetCSN

\* A tree belongs to one transaction.
LEMMA TreeOwner ==
  ASSUME XactTypeOK, XactInv, NEW t \in Xids, pc[t] # "none"
  PROVE  /\ topXid[t] = t
         /\ \A x \in Tree(t) : x \in Xids /\ Assigned(x) /\ topXid[x] = t
BY XidsNat DEF XactTypeOK, XactInv, ChildInv, OwnerInv, UnassignedInv, Tree, Assigned

\* So does the part of it that an open state of the transaction stands for.
LEMMA StateOwner ==
  ASSUME XactTypeOK, XactInv, NEW y \in xactLocks
  PROVE  /\ y \in Xids /\ Assigned(y) /\ topXid[y] \in Xids
         /\ topXid[topXid[y]] = topXid[y] /\ pc[topXid[y]] # "none" /\ topXid[y] <= y
         /\ \A x \in Tree(y) : x \in Xids /\ Assigned(x) /\ topXid[x] = topXid[y]
BY XidsNat DEF XactTypeOK, XactInv, ChildInv, OwnerInv, UnassignedInv, Tree, Assigned

-----------------------------------------------------------------------------
(* Writes to the CSN log                                                   *)

\* UpdateCSNLogAtTransactionEND: stamping one entry with the tree's CSN keeps
\* the invariant; the entry it replaces is a mark, never a final CSN.
LEMMA StampStep ==
  ASSUME XactTypeOK, XactInv, NEW t \in Xids, StampCommitCsn(t)
  PROVE  XactTypeOK' /\ XactInv' /\ Monotone
<1> USE DEF XactInv
<1>0. PICK x \in todo[t] : StampCommitCsn(t)!(x)
  BY DEF StampCommitCsn
<1> DEFINE new == PlainCsn(commitCSN[t])
<1>1. x \in Xids /\ commitCSN[t] \in Nat /\ new \in CommitSeqNo
  BY PlainFacts DEF XactTypeOK
<1>2. /\ csnlog' = [csnlog EXCEPT ![x] = CSNLogSetCSN(csnlog[x], new)]
      /\ todo' = [todo EXCEPT ![t] = todo[t] \ {x}]
      /\ pc[t] = "stamping"
      /\ UNCHANGED <<nextXid, nextCommitSeqNo, latestCompletedXid, snapXmin,
              clog, pgxactXids, xactLocks, topXid, parent, childXids, cur, pc,
              latestCSN, commitCSN, csnOf>>
  BY <1>0 DEF shmemVars, treeVars
<1>3. x \in Tree(t) /\ Assigned(x) /\ topXid[x] = t
  BY <1>1, <1>2, TreeOwner DEF TodoInv
<1>4. csnOf[x] = commitCSN[t] /\ commitCSN[t] >= 3
  BY <1>1, <1>2, <1>3 DEF CsnOfInv, COMMITSEQNO_FIRST_NORMAL
<1>5. csnlog[x] \in CommitSeqNo /\ ~COMMITSEQNO_IS_ABORTED(csnlog[x])
  BY <1>1, <1>4, ExclusiveFacts DEF CsnLogInv, XactTypeOK
<1>6. csnlog' = [csnlog EXCEPT ![x] = new]
  BY <1>1, <1>2, <1>5, SetCsnFacts
<1>7. /\ COMMITSEQNO_IS_COMMITTED(new)
      /\ ~COMMITSEQNO_IS_COMMITTING(new)
      /\ ~COMMITSEQNO_IS_ABORTED(new)
  BY <1>1, <1>4, PlainFacts
<1> HIDE DEF new
<1>8. XactTypeOK'
  BY <1>1, <1>2, <1>6 DEF XactTypeOK
<1>9. /\ BoundsInv' /\ OwnerInv' /\ ChildInv' /\ StackInv' /\ LockInv'
      /\ CsnOfInv' /\ HorizonInv'
  BY <1>2 DEF BoundsInv, OwnerInv, ChildInv, StackInv, LockInv, CsnOfInv,
              HorizonInv, Assigned, Finished, Tree
<1>10. UnassignedInv'
  BY <1>1, <1>2, <1>3, <1>6 DEF UnassignedInv, Assigned, XactTypeOK
<1>11. TodoInv'
  BY <1>1, <1>2 DEF TodoInv, XactTypeOK, Tree
<1>12. NotAbortedInv'
  BY <1>1, <1>2, <1>6, <1>7 DEF NotAbortedInv, XactTypeOK, Tree
<1>13. CsnLogInv'
  <2> SUFFICES ASSUME NEW y \in Xids PROVE CsnLogInv!(y)'
    BY DEF CsnLogInv
  <2>1. CASE y = x
    BY <2>1, <1>1, <1>2, <1>4, <1>6, <1>7 DEF CsnLogInv, XactTypeOK, new
  <2>2. CASE y # x
    BY <2>2, <1>1, <1>2, <1>6 DEF CsnLogInv, XactTypeOK, Tree
  <2> QED BY <2>1, <2>2
<1>14. MarkingInv'
  <2> SUFFICES ASSUME NEW u \in Xids, pc[u] = "marking"
               PROVE  (MarkingInv!(u)!2)'
    BY <1>2 DEF MarkingInv
  <2>1. u # t /\ \A y \in Tree(u) : y # x
    BY <1>2, <1>3, TreeOwner
  <2> QED BY <2>1, <1>1, <1>2, <1>6 DEF MarkingInv, XactTypeOK, Tree
<1>15. Monotone
  <2>1. COMMITSEQNO_IS_COMMITTED(csnlog[x]) => csnlog[x] = new
    BY <1>1, <1>4 DEF CsnLogInv, new
  <2> QED BY <2>1, <1>1, <1>2, <1>5, <1>6 DEF Monotone, Finished, XactTypeOK
<1> QED
  BY <1>15, <1>8, <1>9, <1>10, <1>11, <1>12, <1>13, <1>14

\* Marking one entry as commit in progress keeps the invariant: no entry of a
\* tree that is about to commit is aborted, so the mark takes effect.
LEMMA MarkStep ==
  ASSUME XactTypeOK, XactInv, NEW t \in Xids, MarkCommitInProgress(t)
  PROVE  XactTypeOK' /\ XactInv' /\ Monotone
<1> USE DEF XactInv
<1>0. PICK x \in todo[t] : MarkCommitInProgress(t)!(x)
  BY DEF MarkCommitInProgress
<1> DEFINE new == CommitInProgressCsn(x, t, latestCSN[t])
<1>1. x \in Xids /\ latestCSN[t] \in Nat /\ new \in CommitSeqNo
  BY MarkFacts, XidsNat DEF XactTypeOK
<1>2. /\ csnlog' = [csnlog EXCEPT ![x] = CSNLogSetCSN(csnlog[x], new)]
      /\ todo' = [todo EXCEPT ![t] = todo[t] \ {x}]
      /\ pc[t] = "marking"
      /\ UNCHANGED <<nextXid, nextCommitSeqNo, latestCompletedXid, snapXmin,
              clog, pgxactXids, xactLocks, topXid, parent, childXids, cur, pc,
              latestCSN, commitCSN, csnOf>>
  BY <1>0 DEF shmemVars, treeVars
<1>3. x \in Tree(t) /\ Assigned(x) /\ topXid[x] = t /\ topXid[t] = t
  BY <1>1, <1>2, TreeOwner DEF TodoInv
<1>4. csnOf[x] = 0
  BY <1>1, <1>2, <1>3 DEF CsnOfInv
<1>5. csnlog[x] \in CommitSeqNo /\ ~COMMITSEQNO_IS_ABORTED(csnlog[x])
  BY <1>1, <1>2, <1>3 DEF NotAbortedInv, LockInv, RunningPcs, XactTypeOK
<1>6. csnlog' = [csnlog EXCEPT ![x] = new]
  BY <1>1, <1>2, <1>5, SetCsnFacts
<1>7. /\ COMMITSEQNO_IS_COMMITTING(new)
      /\ COMMITSEQNO_IS_SUBTRANS(new) <=> x # t
      /\ x # t => new.val = t
      /\ x = t => new.val = latestCSN[t]
  BY <1>1, XidsNat, MarkFacts
<1>8. ~COMMITSEQNO_IS_COMMITTED(new) /\ ~COMMITSEQNO_IS_ABORTED(new)
  BY <1>1, <1>7, ExclusiveFacts
<1> HIDE DEF new
<1>9. XactTypeOK'
  BY <1>1, <1>2, <1>6 DEF XactTypeOK
<1>10. /\ BoundsInv' /\ OwnerInv' /\ ChildInv' /\ StackInv' /\ LockInv'
       /\ CsnOfInv' /\ HorizonInv'
  BY <1>2 DEF BoundsInv, OwnerInv, ChildInv, StackInv, LockInv, CsnOfInv,
              HorizonInv, Assigned, Finished, Tree
<1>11. UnassignedInv'
  BY <1>1, <1>2, <1>3, <1>6 DEF UnassignedInv, Assigned, XactTypeOK
<1>12. TodoInv'
  BY <1>1, <1>2 DEF TodoInv, XactTypeOK, Tree
<1>13. NotAbortedInv'
  BY <1>1, <1>2, <1>6, <1>8 DEF NotAbortedInv, XactTypeOK, Tree
<1>14. CsnLogInv'
  <2> SUFFICES ASSUME NEW y \in Xids PROVE CsnLogInv!(y)'
    BY DEF CsnLogInv
  <2>1. CASE y = x
    <3>1. latestCSN[t] <= nextCommitSeqNo
      BY <1>2 DEF MarkingInv
    <3> QED
      BY <2>1, <3>1, <1>1, <1>2, <1>3, <1>4, <1>6, <1>7, <1>8
         DEF XactTypeOK, CommittingPcs, Tree
  <2>2. CASE y # x
    BY <2>2, <1>1, <1>2, <1>6 DEF CsnLogInv, XactTypeOK, Tree
  <2> QED BY <2>1, <2>2
<1>15. MarkingInv'
  <2> SUFFICES ASSUME NEW u \in Xids, pc[u] = "marking"
               PROVE  (MarkingInv!(u)!2)'
    BY <1>2 DEF MarkingInv
  <2>1. CASE u = t
    BY <2>1, <1>1, <1>2, <1>6, <1>7 DEF MarkingInv, XactTypeOK, Tree
  <2>2. CASE u # t
    <3>1. \A y \in Tree(u) : y # x
      BY <2>2, <1>2, <1>3, TreeOwner
    <3> QED BY <2>2, <3>1, <1>1, <1>2, <1>6 DEF MarkingInv, XactTypeOK, Tree
  <2> QED BY <2>1, <2>2
<1>16. Monotone
  <2>1. ~COMMITSEQNO_IS_COMMITTED(csnlog[x])
    BY <1>1, <1>4 DEF CsnLogInv
  <2> QED BY <2>1, <1>1, <1>2, <1>5, <1>6 DEF Monotone, Finished, XactTypeOK
<1> QED
  BY <1>16, <1>9, <1>10, <1>11, <1>12, <1>13, <1>14, <1>15

\* Writing ABORTED to one entry keeps the invariant: what is aborted has drawn
\* no CSN and is in nobody's childXids below the state that aborts.
LEMMA MarkAbortedStep ==
  ASSUME XactTypeOK, XactInv, NEW t \in Xids, MarkAborted(t)
  PROVE  XactTypeOK' /\ XactInv' /\ Monotone
<1> USE DEF XactInv
<1>0. PICK x \in todo[t] : MarkAborted(t)!(x)
  BY DEF MarkAborted
<1> DEFINE s == cur[t]
<1>1. x \in Xids
  BY DEF XactTypeOK
<1>2. /\ csnlog' = [csnlog EXCEPT ![x] =
                       CSNLogSetCSN(csnlog[x], COMMITSEQNO_ABORTED)]
      /\ todo' = [todo EXCEPT ![t] = todo[t] \ {x}]
      /\ pc[t] = "aborting"
      /\ UNCHANGED <<nextXid, nextCommitSeqNo, latestCompletedXid, snapXmin,
              clog, pgxactXids, xactLocks, topXid, parent, childXids, cur, pc,
              latestCSN, commitCSN, csnOf>>
  BY <1>0 DEF shmemVars, treeVars
<1>3. s \in xactLocks /\ topXid[s] = t
  BY <1>2 DEF StackInv
<1>4. x \in Tree(s) /\ Assigned(x) /\ topXid[x] = t
  BY <1>1, <1>2, <1>3, StateOwner DEF TodoInv
<1>5. csnOf[x] = 0
  BY <1>1, <1>2, <1>4 DEF CsnOfInv
<1>6. csnlog' = [csnlog EXCEPT ![x] = COMMITSEQNO_ABORTED]
  <2>1. csnlog[x] \in CommitSeqNo
    BY <1>1 DEF XactTypeOK
  <2> QED BY <2>1, <1>2, ConstantFacts, ExclusiveFacts, SetCsnFacts
<1>7. /\ ~COMMITSEQNO_IS_COMMITTED(COMMITSEQNO_ABORTED)
      /\ ~COMMITSEQNO_IS_COMMITTING(COMMITSEQNO_ABORTED)
  BY ConstantFacts
<1>8. XactTypeOK'
  BY <1>1, <1>2, <1>6, ConstantFacts DEF XactTypeOK
<1>9. /\ BoundsInv' /\ OwnerInv' /\ ChildInv' /\ StackInv' /\ LockInv'
      /\ CsnOfInv' /\ HorizonInv'
  BY <1>2 DEF BoundsInv, OwnerInv, ChildInv, StackInv, LockInv, CsnOfInv,
              HorizonInv, Assigned, Finished, Tree
<1>10. UnassignedInv'
  BY <1>1, <1>2, <1>4, <1>6 DEF UnassignedInv, Assigned, XactTypeOK
<1>11. TodoInv'
  BY <1>1, <1>2 DEF TodoInv, XactTypeOK, Tree
<1>12. NotAbortedInv'
  <2> SUFFICES ASSUME NEW y \in xactLocks,
                      \/ pc[topXid[y]] \in {"active", "marking"}
                      \/ pc[topXid[y]] = "aborting" /\ y # cur[topXid[y]],
                      NEW z \in Tree(y)
               PROVE  ~COMMITSEQNO_IS_ABORTED(csnlog'[z])
    BY <1>2 DEF NotAbortedInv, Tree
  <2>1. z \in Xids /\ topXid[z] = topXid[y] /\ y \in Xids
    BY StateOwner
  <2>2. z # x
    <3>1. CASE topXid[y] = t
      BY <3>1, <2>1, <1>2, <1>3, <1>4 DEF ChildInv, Tree, XactTypeOK
    <3>2. CASE topXid[y] # t
      BY <3>2, <2>1, <1>4
    <3> QED BY <3>1, <3>2
  <2>3. ~COMMITSEQNO_IS_ABORTED(csnlog[z])
    BY DEF NotAbortedInv
  <2> QED BY <2>1, <2>2, <2>3, <1>1, <1>6 DEF XactTypeOK
<1>13. CsnLogInv'
  <2> SUFFICES ASSUME NEW y \in Xids PROVE CsnLogInv!(y)'
    BY DEF CsnLogInv
  <2>1. CASE y = x
    BY <2>1, <1>1, <1>2, <1>5, <1>6, <1>7 DEF CsnLogInv, XactTypeOK
  <2>2. CASE y # x
    BY <2>2, <1>1, <1>2, <1>6 DEF CsnLogInv, XactTypeOK, Tree
  <2> QED BY <2>1, <2>2
<1>14. MarkingInv'
  <2> SUFFICES ASSUME NEW u \in Xids, pc[u] = "marking"
               PROVE  (MarkingInv!(u)!2)'
    BY <1>2 DEF MarkingInv
  <2>1. u # t /\ \A y \in Tree(u) : y # x
    BY <1>2, <1>4, TreeOwner
  <2> QED BY <2>1, <1>1, <1>2, <1>6 DEF MarkingInv, XactTypeOK, Tree
<1>15. Monotone
  <2>1. ~COMMITSEQNO_IS_COMMITTED(csnlog[x])
    BY <1>1, <1>5 DEF CsnLogInv
  <2>2. COMMITSEQNO_IS_ABORTED(csnlog[x]) => csnlog[x] = COMMITSEQNO_ABORTED
    BY DEF COMMITSEQNO_IS_ABORTED
  <2> QED BY <2>1, <2>2, <1>1, <1>2, <1>6 DEF Monotone, Finished, XactTypeOK
<1> QED
  BY <1>15, <1>8, <1>9, <1>10, <1>11, <1>12, <1>13, <1>14

-----------------------------------------------------------------------------
(* Steps that change the phase of a session                                *)

\* Sampling the CSN counter before the marks are written keeps the invariant.
LEMMA SetCommitInProgressStep ==
  ASSUME XactTypeOK, XactInv, NEW t \in Xids, SetXact2CommitInProgress(t)
  PROVE  XactTypeOK' /\ XactInv' /\ Monotone
<1> USE DEF XactInv
<1>1. /\ pc[t] = "active" /\ cur[t] = t
      /\ pc' = [pc EXCEPT ![t] = "marking"]
      /\ latestCSN' = [latestCSN EXCEPT ![t] = nextCommitSeqNo]
      /\ todo' = [todo EXCEPT ![t] = Tree(t)]
      /\ UNCHANGED <<nextXid, nextCommitSeqNo, latestCompletedXid, snapXmin,
              csnlog, clog, pgxactXids, xactLocks, topXid, parent, childXids,
              cur, commitCSN, csnOf>>
  BY DEF SetXact2CommitInProgress, shmemVars, treeVars, logVars
<1>2. topXid[t] = t /\ Assigned(t) /\ Tree(t) \subseteq Xids
  BY <1>1, TreeOwner DEF Tree
<1>3. XactTypeOK'
  BY <1>1, <1>2 DEF XactTypeOK, SessionPcs
<1>4. BoundsInv' /\ OwnerInv' /\ ChildInv' /\ LockInv' /\ HorizonInv'
  BY <1>1, <1>2 DEF BoundsInv, OwnerInv, ChildInv, LockInv, HorizonInv,
     Assigned, Finished, RunningPcs, XactTypeOK
<1>5. UnassignedInv'
  BY <1>1, <1>2 DEF UnassignedInv, Assigned, XactTypeOK
<1>6. StackInv'
  <2>1. \A x \in xactLocks : x # topXid[x] => topXid[x] # t
    BY <1>1, StateOwner, XidsNat DEF StackInv, XactTypeOK
  <2> QED BY <2>1, <1>1 DEF StackInv, XactTypeOK
<1>7. TodoInv'
  BY <1>1 DEF TodoInv, XactTypeOK, Tree
<1>8. NotAbortedInv'
  BY <1>1 DEF NotAbortedInv, XactTypeOK, Tree
<1>9. CsnOfInv'
  BY <1>1 DEF CsnOfInv, XactTypeOK, Tree, Assigned
<1>10. CsnLogInv'
  BY <1>1 DEF CsnLogInv, XactTypeOK, Tree, CommittingPcs
<1>11. MarkingInv'
  BY <1>1 DEF MarkingInv, XactTypeOK, Tree
<1>12. Monotone
  BY <1>1 DEF Monotone, Finished, XactTypeOK
<1> QED
  BY <1>12, <1>3, <1>4, <1>5, <1>6, <1>7, <1>8, <1>9, <1>10, <1>11

\* Drawing the CSN keeps the invariant: all of the tree is marked by then, and
\* the CSN is at or above the one sampled for the marks.
LEMMA NextCsnStep ==
  ASSUME XactTypeOK, XactInv, NEW t \in Xids, GetLocalNextCSN(t)
  PROVE  XactTypeOK' /\ XactInv' /\ Monotone
<1> USE DEF XactInv
<1>1. /\ pc[t] = "marking" /\ todo[t] = {}
      /\ pc' = [pc EXCEPT ![t] = "sequenced"]
      /\ commitCSN' = [commitCSN EXCEPT ![t] = nextCommitSeqNo]
      /\ nextCommitSeqNo' = nextCommitSeqNo + 1
      /\ csnOf' = [x \in Xids |-> IF x \in Tree(t) THEN nextCommitSeqNo
                                  ELSE csnOf[x]]
      /\ latestCSN' = [latestCSN EXCEPT ![t] = 0]
      /\ UNCHANGED <<nextXid, latestCompletedXid, snapXmin, csnlog, clog,
              pgxactXids, xactLocks, topXid, parent, childXids, cur, todo>>
  BY DEF GetLocalNextCSN, treeVars, logVars
<1>2. /\ topXid[t] = t
      /\ \A x \in Tree(t) : x \in Xids /\ Assigned(x) /\ topXid[x] = t
  BY <1>1, TreeOwner
<1>3. XactTypeOK'
  BY <1>1 DEF XactTypeOK, SessionPcs
<1>4. BoundsInv' /\ OwnerInv' /\ ChildInv' /\ LockInv' /\ HorizonInv'
  BY <1>1 DEF BoundsInv, OwnerInv, ChildInv, LockInv, HorizonInv,
     Assigned, Finished, RunningPcs, XactTypeOK,
     COMMITSEQNO_FIRST_NORMAL
<1>5. UnassignedInv'
  BY <1>1, <1>2 DEF UnassignedInv, Assigned, XactTypeOK
<1>6. StackInv'
  BY <1>1 DEF StackInv, XactTypeOK
<1>7. TodoInv' /\ NotAbortedInv'
  BY <1>1 DEF TodoInv, NotAbortedInv, XactTypeOK, Tree
<1>8. CsnOfInv'
  <2> SUFFICES ASSUME NEW x \in Xids PROVE CsnOfInv!(x)'
    BY DEF CsnOfInv
  <2>1. CASE x \in Tree(t)
    BY <2>1, <1>1, <1>2 DEF CsnOfInv, BoundsInv, XactTypeOK, Tree, Assigned,
       COMMITSEQNO_FIRST_NORMAL
  <2>2. CASE x \notin Tree(t)
    BY <2>2, <1>1, <1>2 DEF CsnOfInv, BoundsInv, XactTypeOK, Tree, Assigned,
       COMMITSEQNO_FIRST_NORMAL
  <2> QED BY <2>1, <2>2
<1>9. CsnLogInv'
  <2> SUFFICES ASSUME NEW x \in Xids PROVE CsnLogInv!(x)'
    BY DEF CsnLogInv
  <2>1. csnlog[x] \in CommitSeqNo /\ csnlog[x].val \in Nat
    BY ExclusiveFacts DEF XactTypeOK
  <2>2. CASE x \in Tree(t)
    <3>1. COMMITSEQNO_IS_COMMITTING(csnlog[x])
      BY <2>2, <1>1 DEF MarkingInv
    <3>2. ~COMMITSEQNO_IS_COMMITTED(csnlog[x])
      BY <3>1, <2>1, ExclusiveFacts
    <3>3. /\ csnOf'[x] = nextCommitSeqNo
          /\ topXid'[x] = t /\ pc'[t] = "sequenced" /\ Tree(t)' = Tree(t)
      BY <2>2, <1>1, <1>2 DEF XactTypeOK, Tree
    <3> QED BY <3>1, <3>2, <3>3, <2>1, <2>2, <1>1, <1>2
            DEF CsnLogInv, XactTypeOK, CommittingPcs
  <2>3. CASE x \notin Tree(t)
    BY <2>1, <2>3, <1>1, <1>2 DEF CsnLogInv, XactTypeOK, Tree, CommittingPcs
  <2> QED BY <2>2, <2>3
<1>10. MarkingInv'
  BY <1>1 DEF MarkingInv, XactTypeOK, Tree
<1>11. Monotone
  <2>1. nextXid <= nextXid' /\ nextCommitSeqNo <= nextCommitSeqNo'
    BY <1>1 DEF XactTypeOK
  <2> SUFFICES ASSUME NEW x \in Xids PROVE Monotone!3!(x)
    BY <2>1 DEF Monotone
  <2>2. /\ topXid' = topXid /\ csnlog' = csnlog
        /\ Finished(x) => Finished(x)'
        /\ pc[x] = "done" => pc'[x] = "done"
    BY <1>1 DEF Finished, XactTypeOK
  <2>3. CASE x \in Tree(t)
    <3>1. /\ csnOf[x] = 0 /\ csnOf'[x] = nextCommitSeqNo
          /\ Assigned(x) /\ ~Finished(topXid[x])
      BY <2>3, <1>1, <1>2 DEF CsnOfInv, Finished
    <3>2. ~COMMITSEQNO_IS_ABORTED(csnlog[x])
      BY <2>3, <1>1, <1>2 DEF NotAbortedInv, LockInv, RunningPcs
    <3> QED BY <3>1, <3>2, <2>2
  <2>4. CASE x \notin Tree(t)
    BY <2>2, <2>4, <1>1
  <2> QED BY <2>3, <2>4
<1> QED
  BY <1>11, <1>3, <1>4, <1>5, <1>6, <1>7, <1>8, <1>9, <1>10

\* The commit log update keeps the invariant: it follows the CSN.
LEMMA CommitTreeStep ==
  ASSUME XactTypeOK, XactInv, NEW t \in Xids, CommitTree(t)
  PROVE  XactTypeOK' /\ XactInv' /\ Monotone
<1> USE DEF XactInv
<1>1. /\ pc[t] = "sequenced"
      /\ pc' = [pc EXCEPT ![t] = "stamping"]
      /\ clog' = [x \in Xids |-> IF x \in Tree(t) THEN "committed" ELSE clog[x]]
      /\ todo' = [todo EXCEPT ![t] = Tree(t)]
      /\ UNCHANGED <<nextXid, nextCommitSeqNo, latestCompletedXid, snapXmin,
              csnlog, pgxactXids, xactLocks, topXid, parent, childXids, cur,
              latestCSN, commitCSN, csnOf>>
  BY DEF CommitTree, treeVars, shmemVars
<1>2. /\ topXid[t] = t /\ Tree(t) \subseteq Xids
      /\ \A x \in Tree(t) : x \in Xids /\ Assigned(x) /\ topXid[x] = t
  BY <1>1, TreeOwner
<1>3. XactTypeOK'
  BY <1>1, <1>2 DEF XactTypeOK, SessionPcs
<1>4. BoundsInv' /\ OwnerInv' /\ ChildInv' /\ LockInv' /\ HorizonInv'
  BY <1>1 DEF BoundsInv, OwnerInv, ChildInv, LockInv, HorizonInv,
     Assigned, Finished, RunningPcs, XactTypeOK
<1>5. UnassignedInv'
  BY <1>1, <1>2 DEF UnassignedInv, Assigned, XactTypeOK, Tree
<1>6. StackInv'
  BY <1>1 DEF StackInv, XactTypeOK
<1>7. TodoInv' /\ NotAbortedInv'
  BY <1>1 DEF TodoInv, NotAbortedInv, XactTypeOK, Tree
<1>8. CsnOfInv'
  <2> SUFFICES ASSUME NEW x \in Xids PROVE CsnOfInv!(x)'
    BY DEF CsnOfInv
  <2>1. CASE x \in Tree(t)
    BY <2>1, <1>1, <1>2 DEF CsnOfInv, XactTypeOK, Tree, Assigned,
       COMMITSEQNO_FIRST_NORMAL
  <2>2. CASE x \notin Tree(t)
    BY <2>2, <1>1, <1>2 DEF CsnOfInv, XactTypeOK, Tree, Assigned
  <2> QED BY <2>1, <2>2
<1>9. CsnLogInv'
  BY <1>1, <1>2 DEF CsnLogInv, XactTypeOK, Tree, CommittingPcs
<1>10. MarkingInv'
  BY <1>1 DEF MarkingInv, XactTypeOK, Tree
<1>11. Monotone
  BY <1>1 DEF Monotone, Finished, XactTypeOK
<1> QED
  BY <1>11, <1>3, <1>4, <1>5, <1>6, <1>7, <1>8, <1>9, <1>10

\* The commit log update of an abort keeps the invariant.
LEMMA AbortTreeStep ==
  ASSUME XactTypeOK, XactInv, NEW t \in Xids, AbortTree(t)
  PROVE  XactTypeOK' /\ XactInv' /\ Monotone
<1> USE DEF XactInv
<1> DEFINE s == cur[t]
<1>1. /\ pc[t] = "active"
      /\ pc' = [pc EXCEPT ![t] = "aborting"]
      /\ clog' = [x \in Xids |-> IF x \in Tree(s) THEN "aborted" ELSE clog[x]]
      /\ todo' = [todo EXCEPT ![t] = Tree(s)]
      /\ UNCHANGED <<nextXid, nextCommitSeqNo, latestCompletedXid, snapXmin,
              csnlog, pgxactXids, xactLocks, topXid, parent, childXids, cur,
              latestCSN, commitCSN, csnOf>>
  BY DEF AbortTree, treeVars, shmemVars
<1>2. /\ s \in xactLocks /\ topXid[s] = t /\ topXid[t] = t
      /\ Tree(s) \subseteq Xids
      /\ \A x \in Tree(s) : x \in Xids /\ Assigned(x) /\ topXid[x] = t
  BY <1>1, StateOwner DEF StackInv
<1>3. XactTypeOK'
  BY <1>1, <1>2 DEF XactTypeOK, SessionPcs
<1>4. BoundsInv' /\ OwnerInv' /\ ChildInv' /\ LockInv' /\ HorizonInv'
  BY <1>1 DEF BoundsInv, OwnerInv, ChildInv, LockInv, HorizonInv,
     Assigned, Finished, RunningPcs, XactTypeOK
<1>5. UnassignedInv'
  <2>1. \A x \in Xids : ~Assigned(x) => x # t /\ x \notin Tree(s)
    BY <1>1, <1>2 DEF UnassignedInv
  <2> QED BY <2>1, <1>1 DEF UnassignedInv, Assigned, XactTypeOK
<1>6. StackInv'
  BY <1>1 DEF StackInv, XactTypeOK
<1>7. TodoInv'
  BY <1>1 DEF TodoInv, XactTypeOK, Tree
<1>8. NotAbortedInv'
  BY <1>1 DEF NotAbortedInv, XactTypeOK, Tree
<1>9. CsnOfInv'
  <2> SUFFICES ASSUME NEW x \in Xids PROVE CsnOfInv!(x)'
    BY DEF CsnOfInv
  <2>1. CASE x \in Tree(s)
    BY <2>1, <1>1, <1>2 DEF CsnOfInv, XactTypeOK, Tree, Assigned
  <2>2. CASE x \notin Tree(s)
    BY <2>2, <1>1, <1>2 DEF CsnOfInv, XactTypeOK, Tree, Assigned
  <2> QED BY <2>1, <2>2
<1>10. CsnLogInv'
  BY <1>1 DEF CsnLogInv, XactTypeOK, Tree, CommittingPcs
<1>11. MarkingInv'
  BY <1>1 DEF MarkingInv, XactTypeOK, Tree
<1>12. Monotone
  BY <1>1 DEF Monotone, Finished, XactTypeOK
<1> QED
  BY <1>12, <1>3, <1>4, <1>5, <1>6, <1>7, <1>8, <1>9, <1>10, <1>11

\* Releasing the transaction lock of a finished transaction keeps the invariant.
LEMMA ReleaseLocksStep ==
  ASSUME XactTypeOK, XactInv, NEW t \in Xids, ReleaseXactLocks(t)
  PROVE  XactTypeOK' /\ XactInv' /\ Monotone
<1> USE DEF XactInv
<1>1. /\ pc[t] = "ended"
      /\ pc' = [pc EXCEPT ![t] = "done"]
      /\ xactLocks' = xactLocks \ {t}
      /\ UNCHANGED <<nextXid, nextCommitSeqNo, latestCompletedXid, snapXmin,
              csnlog, clog, pgxactXids, topXid, parent, childXids, cur, todo,
              latestCSN, commitCSN, csnOf>>
  BY DEF ReleaseXactLocks, treeVars, logVars
<1>2. topXid[t] = t
  BY <1>1, TreeOwner
<1>3. XactTypeOK'
  BY <1>1 DEF XactTypeOK, SessionPcs
<1>4. BoundsInv' /\ OwnerInv' /\ ChildInv' /\ LockInv' /\ HorizonInv'
  BY <1>1 DEF BoundsInv, OwnerInv, ChildInv, LockInv, HorizonInv,
     Assigned, Finished, RunningPcs, XactTypeOK
<1>5. UnassignedInv'
  BY <1>1, <1>2 DEF UnassignedInv, Assigned, XactTypeOK
<1>6. StackInv'
  BY <1>1, <1>2 DEF StackInv, XactTypeOK
<1>7. TodoInv' /\ NotAbortedInv' /\ CsnOfInv' /\ CsnLogInv' /\ MarkingInv'
  BY <1>1 DEF TodoInv, NotAbortedInv, CsnOfInv, CsnLogInv, MarkingInv,
     XactTypeOK, Tree, Assigned, CommittingPcs
<1>8. Monotone
  BY <1>1 DEF Monotone, Finished, XactTypeOK
<1> QED
  BY <1>8, <1>3, <1>4, <1>5, <1>6, <1>7

\* Leaving the proc array keeps the invariant: every xid below the snapshot
\* published here belongs to a transaction that has left, too.
LEMMA EndTransactionStep ==
  ASSUME XactTypeOK, XactInv, NEW t \in Xids, ProcArrayEndTransaction(t)
  PROVE  XactTypeOK' /\ XactInv' /\ Monotone
<1> USE DEF XactInv
<1>1. /\ todo[t] = {}
      /\ pc[t] = "stamping" \/ (pc[t] = "aborting" /\ cur[t] = t)
      /\ pgxactXids' = pgxactXids \ {t}
      /\ commitCSN' = [commitCSN EXCEPT ![t] = 0]
      /\ pc' = [pc EXCEPT ![t] = "ended"]
      /\ UNCHANGED <<nextXid, nextCommitSeqNo, csnlog, clog, xactLocks, topXid,
              parent, childXids, cur, todo, latestCSN, csnOf>>
  BY DEF ProcArrayEndTransaction, Recorded, treeVars, logVars
<1>2. topXid[t] = t
  BY <1>1, TreeOwner
<1>3. /\ latestCompletedXid' \in Nat /\ latestCompletedXid' < nextXid
      /\ latestCompletedXid <= latestCompletedXid'
  <2>1. PICK l \in Tree(t) : latestCompletedXid' = Later(latestCompletedXid, l)
    BY DEF ProcArrayEndTransaction
  <2>2. l \in Nat /\ l < nextXid
    BY <1>1, TreeOwner, XidsNat DEF Assigned
  <2> QED BY <2>1, <2>2 DEF Later, BoundsInv, XactTypeOK
<1>4. \/ snapXmin' = snapXmin
      \/ /\ snapXmin' \in Nat
         /\ snapXmin' <= latestCompletedXid' + 1
         /\ \A y \in pgxactXids' : y < latestCompletedXid' + 1 => snapXmin' <= y
  <2>1. pgxactXids' \subseteq Nat
    BY <1>1, XidsNat DEF XactTypeOK
  <2> QED BY <2>1, <1>3 DEF ProcArrayEndTransaction, IsSnapshotXmin
<1>5. XactTypeOK'
  BY <1>1, <1>3, <1>4 DEF XactTypeOK, SessionPcs
<1>6. BoundsInv'
  BY <1>1, <1>3, <1>4 DEF BoundsInv, XactTypeOK
<1>7. OwnerInv' /\ ChildInv' /\ LockInv' /\ UnassignedInv'
  BY <1>1, <1>2 DEF OwnerInv, ChildInv, LockInv, UnassignedInv, Assigned,
     RunningPcs, XactTypeOK
<1>8. StackInv'
  <2>1. \A x \in xactLocks : x # topXid[x] => topXid[x] # t
    BY <1>1, StateOwner, XidsNat DEF StackInv, XactTypeOK
  <2> QED BY <2>1, <1>1 DEF StackInv, XactTypeOK
<1>9. TodoInv' /\ NotAbortedInv' /\ MarkingInv'
  BY <1>1 DEF TodoInv, NotAbortedInv, MarkingInv, XactTypeOK, Tree
<1>10. CsnOfInv'
  BY <1>1 DEF CsnOfInv, XactTypeOK, Tree, Assigned
<1>11. CsnLogInv'
  BY <1>1 DEF CsnLogInv, XactTypeOK, Tree, CommittingPcs
<1>12. HorizonInv'
  <2> SUFFICES ASSUME NEW x \in Xids, x < snapXmin'
               PROVE  Assigned(x)' /\ Finished(topXid[x])'
    BY <1>1 DEF HorizonInv
  <2>1. CASE snapXmin' = snapXmin
    BY <2>1, <1>1 DEF HorizonInv, Finished, Assigned, XactTypeOK
  <2>2. CASE snapXmin' # snapXmin
    <3>1. x \in Nat /\ x < latestCompletedXid' + 1 /\ Assigned(x)
      BY <2>2, <1>3, <1>4, XidsNat DEF Assigned, XactTypeOK
    <3>2. topXid[x] \in Xids /\ topXid[x] <= x /\ topXid[x] \in Nat /\ pc[topXid[x]] # "none"
      BY <3>1, XidsNat DEF OwnerInv
    <3>3. topXid[x] \notin pgxactXids'
      BY <2>2, <3>1, <3>2, <1>3, <1>4
    <3> QED BY <3>1, <3>2, <3>3, <1>1 DEF LockInv, RunningPcs, XactTypeOK,
               SessionPcs, Finished, Assigned
  <2> QED BY <2>1, <2>2
<1>13. Monotone
  BY <1>1 DEF Monotone, Finished, XactTypeOK
<1> QED
  BY <1>13, <1>5, <1>6, <1>7, <1>8, <1>9, <1>10, <1>11, <1>12

-----------------------------------------------------------------------------
(* The stack of transaction states                                         *)

\* A new top-level transaction keeps the invariant.
LEMMA AssignStep ==
  ASSUME XactTypeOK, XactInv, AssignTransactionId
  PROVE  XactTypeOK' /\ XactInv' /\ Monotone
<1> USE DEF XactInv
<1> DEFINE n == nextXid
<1>1. /\ n \in Xids /\ n \in Nat /\ nextXid' = n + 1
      /\ pgxactXids' = pgxactXids \cup {n}
      /\ xactLocks' = xactLocks \cup {n}
      /\ topXid' = [topXid EXCEPT ![n] = n]
      /\ cur' = [cur EXCEPT ![n] = n]
      /\ pc' = [pc EXCEPT ![n] = "active"]
      /\ UNCHANGED <<nextCommitSeqNo, latestCompletedXid, snapXmin, csnlog,
              clog, parent, childXids, todo, latestCSN, commitCSN, csnOf>>
  BY MaxXidAssumption DEF AssignTransactionId, BoundsInv, Xids, XactTypeOK
<1>2. /\ ~Assigned(n)
      /\ \A x \in Xids : Assigned(x)' <=> Assigned(x) \/ x = n
  BY <1>1, XidsNat DEF Assigned
<1>3. /\ csnlog[n] = COMMITSEQNO_INPROGRESS /\ clog[n] = "in_progress"
      /\ csnOf[n] = 0 /\ pc[n] = "none" /\ n \notin xactLocks
      /\ childXids[n] = {} /\ todo[n] = {}
  BY <1>1, <1>2 DEF UnassignedInv
<1>4. \A x \in Xids : Assigned(x) => x # n /\ topXid[x] # n
  BY <1>1, <1>2, XidsNat DEF OwnerInv, Assigned
<1>5. \A y \in xactLocks : Assigned(y) /\ y \in Xids
  BY StateOwner
<1> HIDE DEF n
<1>6. XactTypeOK'
  BY <1>1 DEF XactTypeOK, SessionPcs
<1>7. BoundsInv'
  BY <1>1 DEF BoundsInv, XactTypeOK, n, FirstNormalTransactionId
<1>8. UnassignedInv'
  BY <1>1, <1>2 DEF UnassignedInv, XactTypeOK
<1>9. OwnerInv'
  BY <1>1, <1>2, <1>3, <1>4 DEF OwnerInv, XactTypeOK
<1>10. ChildInv'
  <2>1. \A y \in Xids : \A x \in childXids[y] : Assigned(y) /\ x \in Xids /\ Assigned(x)
    BY DEF UnassignedInv, ChildInv, XactTypeOK
  <2> QED BY <2>1, <1>1, <1>2, <1>4 DEF ChildInv, XactTypeOK
<1>11. StackInv'
  <2>1. StackInv!1'
    BY <1>1, <1>3, <1>4, <1>5 DEF StackInv, XactTypeOK
  <2>2. StackInv!2'
    BY <1>1, <1>3, <1>4, <1>5 DEF StackInv, XactTypeOK
  <2>3. StackInv!3'
    BY <1>1, <1>3, <1>4, <1>5 DEF StackInv, XactTypeOK
  <2> QED BY <2>1, <2>2, <2>3 DEF StackInv
<1>12. LockInv'
  BY <1>1, <1>3 DEF LockInv, XactTypeOK, RunningPcs
<1>13. TodoInv'
  BY <1>1 DEF TodoInv, XactTypeOK, Tree
<1>14. NotAbortedInv'
  BY <1>1, <1>3, <1>4, <1>5, ConstantFacts DEF NotAbortedInv, XactTypeOK, Tree
<1>15. CsnOfInv'
  BY <1>1, <1>2, <1>3, <1>4 DEF CsnOfInv, XactTypeOK, Tree
<1>16. CsnLogInv'
  <2> SUFFICES ASSUME NEW x \in Xids PROVE CsnLogInv!(x)'
    BY DEF CsnLogInv
  <2>1. CASE x = n
    BY <2>1, <1>1, <1>3, ConstantFacts
  <2>2. CASE ~Assigned(x)
    BY <2>2, <1>1, ConstantFacts DEF UnassignedInv
  <2>3. CASE x # n /\ Assigned(x)
    BY <2>3, <1>1, <1>4 DEF CsnLogInv, XactTypeOK, Tree
  <2> QED BY <2>1, <2>2, <2>3
<1>17. MarkingInv'
  BY <1>1 DEF MarkingInv, XactTypeOK, Tree
<1>18. HorizonInv'
  BY <1>1, <1>2, <1>4 DEF HorizonInv, XactTypeOK, Finished
<1>19. Monotone
  BY <1>1, <1>2, <1>3 DEF Monotone, Finished, XactTypeOK, n
<1> QED
  BY <1>19, <1>6, <1>7, <1>8, <1>9, <1>10, <1>11, <1>12, <1>13, <1>14, <1>15, <1>16,
     <1>17, <1>18

\* A new subtransaction keeps the invariant: it is pushed on the stack of its
\* session and is younger than everything below it.
LEMMA AssignSubStep ==
  ASSUME XactTypeOK, XactInv, NEW t \in Xids, AssignSubTransactionId(t)
  PROVE  XactTypeOK' /\ XactInv' /\ Monotone
<1> USE DEF XactInv
<1> DEFINE n == nextXid
           s == cur[t]
<1>1. /\ n \in Xids /\ n \in Nat /\ nextXid' = n + 1
      /\ pc[t] = "active"
      /\ xactLocks' = xactLocks \cup {n}
      /\ topXid' = [topXid EXCEPT ![n] = t]
      /\ parent' = [parent EXCEPT ![n] = s]
      /\ cur' = [cur EXCEPT ![t] = n]
      /\ csnlog' = [csnlog EXCEPT ![n] = SubTransCsn(s)]
      /\ UNCHANGED <<nextCommitSeqNo, latestCompletedXid, snapXmin, clog,
              pgxactXids, childXids, pc, todo, latestCSN, commitCSN, csnOf>>
  BY MaxXidAssumption DEF AssignSubTransactionId, BoundsInv, Xids, XactTypeOK
<1>2. /\ ~Assigned(n)
      /\ \A x \in Xids : Assigned(x)' <=> Assigned(x) \/ x = n
  BY <1>1, XidsNat DEF Assigned
<1>3. /\ csnlog[n] = COMMITSEQNO_INPROGRESS /\ clog[n] = "in_progress"
      /\ csnOf[n] = 0 /\ pc[n] = "none" /\ n \notin xactLocks
      /\ childXids[n] = {} /\ todo[n] = {}
  BY <1>1, <1>2 DEF UnassignedInv
<1>4. \A x \in Xids : Assigned(x) => x # n /\ topXid[x] # n /\ x < n
  BY <1>1, <1>2, XidsNat DEF OwnerInv, Assigned
<1>5. \A y \in xactLocks : Assigned(y) /\ y \in Xids /\ y \in Nat
  BY StateOwner, XidsNat
<1>6. /\ s \in xactLocks /\ topXid[s] = t /\ topXid[t] = t /\ s \in Nat
      /\ Assigned(t) /\ t # n /\ s # n /\ t <= s /\ s < n
  BY <1>1, <1>3, <1>4, <1>5, StateOwner, TreeOwner DEF StackInv, Tree
<1>7. /\ SubTransCsn(s) \in CommitSeqNo
      /\ ~COMMITSEQNO_IS_COMMITTING(SubTransCsn(s))
      /\ ~COMMITSEQNO_IS_COMMITTED(SubTransCsn(s))
      /\ ~COMMITSEQNO_IS_ABORTED(SubTransCsn(s))
  BY <1>6, SubTransFacts
<1>8. \A x \in xactLocks : topXid[x] = t => x <= s
  BY <1>1, <1>5, <1>6 DEF StackInv, XactTypeOK
<1> HIDE DEF n, s
<1>9. XactTypeOK'
  BY <1>1, <1>6, <1>7, XidsNat DEF XactTypeOK
<1>10. BoundsInv' /\ LockInv'
  BY <1>1 DEF BoundsInv, LockInv, XactTypeOK, n,
     FirstNormalTransactionId
<1>11. UnassignedInv'
  BY <1>1, <1>2 DEF UnassignedInv, XactTypeOK
<1>12. OwnerInv'
  BY <1>1, <1>2, <1>3, <1>4, <1>6 DEF OwnerInv, XactTypeOK
<1>13. ChildInv'
  <2>1. \A y \in Xids : \A x \in childXids[y] : Assigned(y) /\ x \in Xids /\ Assigned(x)
    BY DEF UnassignedInv, ChildInv, XactTypeOK
  <2> QED BY <2>1, <1>1, <1>2, <1>4 DEF ChildInv, XactTypeOK
<1>14. StackInv'
  <2>1. StackInv!1'
    BY <1>1, <1>3, <1>4, <1>5, <1>6 DEF StackInv, XactTypeOK
  <2>2. StackInv!2'
    <3> SUFFICES ASSUME NEW x \in xactLocks', x # topXid'[x]
                 PROVE  StackInv!2!(x)!2'
      BY DEF StackInv
    <3>1. CASE x = n
      BY <3>1, <1>1, <1>6 DEF XactTypeOK
    <3>2. CASE x # n
      <4>1. x \in xactLocks /\ topXid'[x] = topXid[x] /\ x \in Xids /\ Assigned(x)
        BY <3>2, <1>1, <1>5 DEF XactTypeOK
      <4>2. StackInv!2!(x)!2
        BY <4>1 DEF StackInv
      <4>3. parent[x] \in Xids /\ parent[x] # n /\ topXid[x] # n /\ topXid[x] \in Xids
        BY <4>1, <4>2, <1>3, <1>4, <1>5, StateOwner
      <4> QED BY <3>2, <4>1, <4>2, <4>3, <1>1, <1>4 DEF XactTypeOK
    <3> QED BY <3>1, <3>2
  <2>3. StackInv!3'
    <3> SUFFICES ASSUME NEW x \in xactLocks', NEW y \in xactLocks',
                        topXid'[x] = topXid'[y], x < y
                 PROVE  x <= parent'[y]
      BY DEF StackInv
    <3>1. CASE y = n
      BY <3>1, <1>1, <1>3, <1>5, <1>6, <1>8 DEF XactTypeOK
    <3>2. CASE y # n
      <4>1. y \in xactLocks /\ y \in Xids /\ y < n /\ y \in Nat
        BY <3>2, <1>1, <1>4, <1>5
      <4>2. x # n /\ x \in xactLocks /\ x \in Xids
        BY <4>1, <1>1, <1>5
      <4> QED BY <4>1, <4>2, <3>2, <1>1 DEF StackInv, XactTypeOK
    <3> QED BY <3>1, <3>2
  <2> QED BY <2>1, <2>2, <2>3 DEF StackInv
<1>15. TodoInv'
  BY <1>1 DEF TodoInv, XactTypeOK, Tree
<1>16. NotAbortedInv'
  <2> SUFFICES ASSUME NEW y \in xactLocks',
                      \/ pc'[topXid'[y]] \in {"active", "marking"}
                      \/ pc'[topXid'[y]] = "aborting" /\ y # cur'[topXid'[y]],
                      NEW z \in Tree(y)'
               PROVE  ~COMMITSEQNO_IS_ABORTED(csnlog'[z])
    BY DEF NotAbortedInv
  <2>1. CASE z = n
    BY <2>1, <1>1, <1>7 DEF XactTypeOK
  <2>2. CASE z # n
    <3>1. y # n /\ y \in xactLocks /\ y \in Xids /\ Assigned(y) /\ topXid[y] # n /\ z \in Tree(y)
      BY <2>2, <1>1, <1>3, <1>4, <1>5 DEF Tree
    <3>2. z \in Xids /\ topXid[y] \in Xids
      BY <3>1, StateOwner
    <3>3. \/ pc[topXid[y]] \in {"active", "marking"}
          \/ pc[topXid[y]] = "aborting" /\ y # cur[topXid[y]]
      BY <3>1, <3>2, <1>1 DEF XactTypeOK
    <3>4. ~COMMITSEQNO_IS_ABORTED(csnlog[z])
      BY <3>1, <3>3 DEF NotAbortedInv
    <3> QED BY <3>2, <3>4, <2>2, <1>1 DEF XactTypeOK
  <2> QED BY <2>1, <2>2
<1>17. CsnOfInv'
  BY <1>1, <1>2, <1>3, <1>4 DEF CsnOfInv, XactTypeOK, Tree
<1>18. CsnLogInv'
  <2> SUFFICES ASSUME NEW x \in Xids PROVE CsnLogInv!(x)'
    BY DEF CsnLogInv
  <2>1. CASE x = n
    BY <2>1, <1>1, <1>3, <1>7 DEF XactTypeOK
  <2>2. CASE x # n /\ ~Assigned(x)
    BY <2>2, <1>1, ConstantFacts DEF UnassignedInv, XactTypeOK
  <2>3. CASE x # n /\ Assigned(x)
    BY <2>3, <1>1, <1>4 DEF CsnLogInv, XactTypeOK, Tree
  <2> QED BY <2>1, <2>2, <2>3
<1>19. MarkingInv'
  <2>1. \A u \in Xids : pc[u] = "marking" => \A x \in Tree(u) : x # n
    BY <1>4, TreeOwner
  <2> QED BY <2>1, <1>1 DEF MarkingInv, XactTypeOK, Tree
<1>20. HorizonInv'
  BY <1>1, <1>2, <1>4 DEF HorizonInv, XactTypeOK, Finished
<1>21. Monotone
  BY <1>1, <1>2, <1>3, ConstantFacts DEF Monotone, Finished, XactTypeOK, n
<1> QED
  BY <1>21, <1>9, <1>10, <1>11, <1>12, <1>13, <1>14, <1>15, <1>16, <1>17, <1>18,
     <1>19, <1>20

\* A subtransaction that commits into its parent keeps the invariant: its tree
\* moves to the parent as a whole.
LEMMA CommitSubStep ==
  ASSUME XactTypeOK, XactInv, NEW t \in Xids, CommitSubTransaction(t)
  PROVE  XactTypeOK' /\ XactInv' /\ Monotone
<1> USE DEF XactInv
<1> DEFINE s == cur[t]
           p == parent[s]
<1>1. /\ pc[t] = "active" /\ s # t
      /\ childXids' = [childXids EXCEPT ![p] = childXids[p] \cup {s} \cup childXids[s],
                                        ![s] = {}]
      /\ xactLocks' = xactLocks \ {s}
      /\ cur' = [cur EXCEPT ![t] = p]
      /\ UNCHANGED <<nextXid, nextCommitSeqNo, latestCompletedXid, snapXmin,
              csnlog, clog, pgxactXids, topXid, parent, pc, todo, latestCSN,
              commitCSN, csnOf>>
  BY DEF CommitSubTransaction, logVars, sessVars
<1>2. /\ s \in xactLocks /\ topXid[s] = t /\ topXid[t] = t /\ s \in Xids
      /\ p \in xactLocks /\ topXid[p] = t /\ p \in Xids /\ p # s
      /\ p < s /\ Assigned(s) /\ Assigned(p)
  <2>1. s \in xactLocks /\ topXid[s] = t
    BY <1>1 DEF StackInv
  <2>2. p \in xactLocks /\ topXid[p] = t /\ p < s
    BY <1>1, <2>1 DEF StackInv
  <2> QED BY <2>1, <2>2, StateOwner, XidsNat
<1>3. pc[s] = "none" /\ (p # t => pc[p] = "none")
  BY <1>1, <1>2 DEF OwnerInv
<1>4. \A y \in Xids : childXids'[y] =
         IF y = p THEN childXids[p] \cup {s} \cup childXids[s]
         ELSE IF y = s THEN {} ELSE childXids[y]
  BY <1>1, <1>2 DEF XactTypeOK
<1>5. \A u \in Xids : pc[u] # "none" /\ u # t => childXids'[u] = childXids[u]
  BY <1>3, <1>4
<1>6. \A x \in xactLocks : topXid[x] = t /\ x # s => x <= p
  <2> SUFFICES ASSUME NEW x \in xactLocks, topXid[x] = t, x # s PROVE x <= p
    OBVIOUS
  <2>1. x \in Nat /\ s \in Nat /\ (x # t => x <= s) /\ t <= s
    BY <1>2, StateOwner, XidsNat DEF StackInv
  <2>2. x < s
    BY <2>1, <1>1, XidsNat
  <2> QED BY <2>2, <1>2 DEF StackInv
<1> HIDE DEF s, p
<1>7. XactTypeOK'
  BY <1>1, <1>2, XidsNat DEF XactTypeOK
<1>8. BoundsInv' /\ OwnerInv' /\ HorizonInv'
  BY <1>1 DEF BoundsInv, OwnerInv, HorizonInv, Assigned, Finished
<1>9. UnassignedInv'
  BY <1>1, <1>2, <1>4 DEF UnassignedInv, Assigned, XactTypeOK
<1>10. ChildInv'
  <2>1. ChildInv!1'
    BY <1>1, <1>2, <1>4 DEF ChildInv, Assigned, XactTypeOK
  <2>2. ChildInv!2'
    <3>1. \A y \in Xids : s \notin childXids[y]
      BY <1>2 DEF ChildInv
    <3> QED BY <3>1, <1>2, <1>4 DEF ChildInv
  <2> QED BY <2>1, <2>2 DEF ChildInv
<1>11. StackInv'
  <2>1. StackInv!1'
    BY <1>1, <1>2 DEF StackInv, XactTypeOK
  <2>2. StackInv!2'
    <3> SUFFICES ASSUME NEW x \in xactLocks, x # s, x # topXid[x]
                 PROVE  StackInv!2!(x)!2'
      BY <1>1 DEF StackInv
    <3>1. StackInv!2!(x)!2
      BY DEF StackInv
    <3>2. x \in Xids /\ topXid[x] \in Xids /\ x \in Nat /\ s \in Nat
      BY <1>2, StateOwner, XidsNat
    <3>3. parent[x] # s
      BY <3>1, <3>2, <1>2, <1>6, XidsNat
    <3>4. CASE topXid[x] = t
      BY <3>1, <3>2, <3>3, <3>4, <1>1, <1>6 DEF XactTypeOK
    <3>5. CASE topXid[x] # t
      BY <3>1, <3>2, <3>3, <3>5, <1>1 DEF XactTypeOK
    <3> QED BY <3>4, <3>5
  <2>3. StackInv!3'
    BY <1>1 DEF StackInv
  <2> QED BY <2>1, <2>2, <2>3 DEF StackInv
<1>12. LockInv'
  BY <1>1, <1>2, <1>3 DEF LockInv, XactTypeOK, RunningPcs
<1>13. TodoInv'
  <2> SUFFICES ASSUME NEW u \in Xids, u # t, pc[u] # "none" PROVE TodoInv!(u)'
    BY <1>1 DEF TodoInv
  <2>1. childXids'[u] = childXids[u] /\ cur'[u] = cur[u]
    BY <1>1, <1>5 DEF XactTypeOK
  <2>2. pc[u] = "aborting" => Tree(cur[u])' = Tree(cur[u])
    <3>1. pc[u] = "aborting" =>
             cur[u] \in Xids /\ cur[u] # s /\ cur[u] # p
      BY <1>2, StateOwner DEF StackInv
    <3> QED BY <2>1, <3>1, <1>4 DEF Tree
  <2> QED BY <2>1, <2>2, <1>1 DEF TodoInv, Tree
<1>14. NotAbortedInv'
  <2> SUFFICES ASSUME NEW y \in xactLocks, y # s,
                      \/ pc[topXid[y]] \in {"active", "marking"}
                      \/ pc[topXid[y]] = "aborting" /\ y # cur'[topXid[y]],
                      NEW z \in Tree(y)'
               PROVE  ~COMMITSEQNO_IS_ABORTED(csnlog[z])
    BY <1>1 DEF NotAbortedInv
  <2>1. y \in Xids /\ topXid[y] \in Xids
    BY StateOwner
  <2>2. z \in Tree(y) \/ (y = p /\ z \in Tree(s))
    BY <2>1, <1>2, <1>4 DEF Tree
  <2>3. CASE z \in Tree(y)
    BY <2>1, <2>3, <1>1 DEF NotAbortedInv, XactTypeOK
  <2>4. CASE y = p /\ z \in Tree(s)
    BY <2>4, <1>1, <1>2 DEF NotAbortedInv
  <2> QED BY <2>2, <2>3, <2>4
<1>15. CsnOfInv'
  <2> SUFFICES ASSUME NEW x \in Xids PROVE CsnOfInv!(x)'
    BY DEF CsnOfInv
  <2>1. Assigned(x) /\ topXid[x] # t => Tree(topXid[x])' = Tree(topXid[x])
    BY <1>1, <1>5 DEF OwnerInv, Tree
  <2> QED BY <2>1, <1>1 DEF CsnOfInv, Assigned
<1>16. CsnLogInv'
  <2> SUFFICES ASSUME NEW x \in Xids PROVE CsnLogInv!(x)'
    BY DEF CsnLogInv
  <2>1. Assigned(x) /\ topXid[x] # t => Tree(topXid[x])' = Tree(topXid[x])
    BY <1>1, <1>5 DEF OwnerInv, Tree
  <2>2. CASE ~Assigned(x)
    BY <2>2, <1>1, ConstantFacts DEF UnassignedInv, XactTypeOK
  <2>3. CASE Assigned(x) /\ topXid[x] = t
    BY <2>3, <1>1 DEF CsnLogInv, CommittingPcs
  <2>4. CASE Assigned(x) /\ topXid[x] # t
    BY <2>1, <2>4, <1>1 DEF CsnLogInv
  <2> QED BY <2>2, <2>3, <2>4
<1>17. MarkingInv'
  BY <1>1, <1>5 DEF MarkingInv, Tree
<1>18. Monotone
  BY <1>1 DEF Monotone, Finished, XactTypeOK
<1> QED
  BY <1>18, <1>7, <1>8, <1>9, <1>10, <1>11, <1>12, <1>13, <1>14, <1>15, <1>16, <1>17

\* The end of an aborted subtransaction keeps the invariant: the rest of the
\* stack holds no aborted entry.
LEMMA AbortSubStep ==
  ASSUME XactTypeOK, XactInv, NEW t \in Xids, AbortSubTransaction(t)
  PROVE  XactTypeOK' /\ XactInv' /\ Monotone
<1> USE DEF XactInv
<1> DEFINE s == cur[t]
           p == parent[s]
<1>1. /\ pc[t] = "aborting" /\ s # t
      /\ childXids' = [childXids EXCEPT ![s] = {}]
      /\ xactLocks' = xactLocks \ {s}
      /\ cur' = [cur EXCEPT ![t] = p]
      /\ pc' = [pc EXCEPT ![t] = "active"]
      /\ UNCHANGED <<nextXid, nextCommitSeqNo, snapXmin, csnlog, clog,
              pgxactXids, topXid, parent, todo, latestCSN, commitCSN, csnOf>>
  BY DEF AbortSubTransaction, logVars
<1>2. /\ s \in xactLocks /\ topXid[s] = t /\ topXid[t] = t /\ s \in Xids
      /\ p \in xactLocks /\ topXid[p] = t /\ p \in Xids /\ p # s
      /\ p < s /\ Assigned(s) /\ Assigned(p)
  <2>1. s \in xactLocks /\ topXid[s] = t
    BY <1>1 DEF StackInv
  <2>2. p \in xactLocks /\ topXid[p] = t /\ p < s
    BY <1>1, <2>1 DEF StackInv
  <2> QED BY <2>1, <2>2, StateOwner, XidsNat
<1>3. /\ latestCompletedXid' \in Nat /\ latestCompletedXid' < nextXid
      /\ latestCompletedXid <= latestCompletedXid'
  <2>1. PICK l \in Tree(s) : latestCompletedXid' = Later(latestCompletedXid, l)
    BY DEF AbortSubTransaction
  <2>2. l \in Nat /\ l < nextXid
    BY <1>2, StateOwner, XidsNat DEF Assigned
  <2> QED BY <2>1, <2>2 DEF Later, BoundsInv, XactTypeOK
<1>4. pc[s] = "none"
  BY <1>1, <1>2 DEF OwnerInv
<1>5. \A y \in Xids : childXids'[y] = IF y = s THEN {} ELSE childXids[y]
  BY <1>1, <1>2 DEF XactTypeOK
<1>6. \A x \in xactLocks : topXid[x] = t /\ x # s => x <= p
  <2> SUFFICES ASSUME NEW x \in xactLocks, topXid[x] = t, x # s PROVE x <= p
    OBVIOUS
  <2>1. x \in Nat /\ s \in Nat /\ (x # t => x <= s) /\ t <= s
    BY <1>2, StateOwner, XidsNat DEF StackInv
  <2>2. x < s
    BY <2>1, <1>1, XidsNat
  <2> QED BY <2>2, <1>2 DEF StackInv
<1>7. \A u \in Xids : pc'[u] = IF u = t THEN "active" ELSE pc[u]
  BY <1>1 DEF XactTypeOK
<1> HIDE DEF s, p
<1>8. XactTypeOK'
  BY <1>1, <1>2, <1>3, XidsNat DEF XactTypeOK, SessionPcs
<1>9. BoundsInv' /\ OwnerInv' /\ HorizonInv'
  <2>1. BoundsInv'
    <3>1. UNCHANGED <<nextXid, nextCommitSeqNo, snapXmin>>
      BY <1>1
    <3>2. snapXmin \in Nat /\ latestCompletedXid \in Nat
      BY DEF XactTypeOK
    <3> QED BY <3>1, <3>2, <1>3, LeSucc DEF BoundsInv
  <2>2. OwnerInv'
    <3>1. \A u \in Xids : pc'[u] # "none" <=> pc[u] # "none"
      BY <1>1, <1>7
    <3> QED BY <3>1, <1>1 DEF OwnerInv, Assigned
  <2>3. HorizonInv'
    BY <1>1, <1>7 DEF HorizonInv, OwnerInv, Assigned, Finished
  <2> QED BY <2>1, <2>2, <2>3
<1>10. UnassignedInv'
  BY <1>1, <1>2, <1>5 DEF UnassignedInv, Assigned, XactTypeOK
<1>11. ChildInv'
  BY <1>1, <1>2, <1>5 DEF ChildInv, Assigned, XactTypeOK
<1>12. StackInv'
  <2>1. StackInv!1'
    BY <1>1, <1>2, <1>7 DEF StackInv, XactTypeOK
  <2>2. StackInv!2'
    <3> SUFFICES ASSUME NEW x \in xactLocks, x # s, x # topXid[x]
                 PROVE  StackInv!2!(x)!2'
      BY <1>1 DEF StackInv
    <3>1. StackInv!2!(x)!2
      BY DEF StackInv
    <3>2. x \in Xids /\ topXid[x] \in Xids /\ x \in Nat /\ s \in Nat
      BY <1>2, StateOwner, XidsNat
    <3>3. parent[x] # s
      BY <3>1, <3>2, <1>2, <1>6, XidsNat
    <3>4. CASE topXid[x] = t
      BY <3>1, <3>2, <3>3, <3>4, <1>1, <1>6 DEF XactTypeOK
    <3>5. CASE topXid[x] # t
      BY <3>1, <3>2, <3>3, <3>5, <1>1 DEF XactTypeOK
    <3> QED BY <3>4, <3>5
  <2>3. StackInv!3'
    BY <1>1 DEF StackInv
  <2> QED BY <2>1, <2>2, <2>3 DEF StackInv
<1>13. LockInv'
  BY <1>1, <1>2, <1>4, <1>7 DEF LockInv, XactTypeOK, RunningPcs
<1>14. TodoInv'
  <2> SUFFICES ASSUME NEW u \in Xids, u # t, pc[u] # "none" PROVE TodoInv!(u)'
    BY <1>1, <1>7 DEF TodoInv
  <2>1. childXids'[u] = childXids[u] /\ cur'[u] = cur[u] /\ pc'[u] = pc[u]
    BY <1>1, <1>4, <1>5, <1>7 DEF XactTypeOK
  <2>2. pc[u] = "aborting" => Tree(cur[u])' = Tree(cur[u])
    BY <2>1, <1>1, <1>2, <1>5, StateOwner DEF StackInv, Tree
  <2> QED BY <2>1, <2>2, <1>1 DEF TodoInv, Tree
<1>15. NotAbortedInv'
  <2> SUFFICES ASSUME NEW y \in xactLocks, y # s,
                      \/ pc'[topXid[y]] \in {"active", "marking"}
                      \/ pc'[topXid[y]] = "aborting" /\ y # cur'[topXid[y]],
                      NEW z \in Tree(y)'
               PROVE  ~COMMITSEQNO_IS_ABORTED(csnlog[z])
    BY <1>1 DEF NotAbortedInv
  <2>1. y \in Xids /\ topXid[y] \in Xids /\ z \in Tree(y)
    BY <1>5, StateOwner DEF Tree
  <2>2. CASE topXid[y] = t
    BY <2>1, <2>2, <1>1 DEF NotAbortedInv, s
  <2>3. CASE topXid[y] # t
    BY <2>1, <2>3, <1>1, <1>7 DEF NotAbortedInv, XactTypeOK
  <2> QED BY <2>2, <2>3
<1>16. CsnOfInv'
  <2> SUFFICES ASSUME NEW x \in Xids PROVE CsnOfInv!(x)'
    BY DEF CsnOfInv
  <2>1. Assigned(x) => Tree(topXid[x])' = Tree(topXid[x]) /\ topXid[x] \in Xids
    BY <1>1, <1>4, <1>5 DEF OwnerInv, Tree
  <2> QED BY <2>1, <1>1, <1>7 DEF CsnOfInv, Assigned
<1>17. CsnLogInv'
  <2> SUFFICES ASSUME NEW x \in Xids PROVE CsnLogInv!(x)'
    BY DEF CsnLogInv
  <2>1. Assigned(x) => Tree(topXid[x])' = Tree(topXid[x]) /\ topXid[x] \in Xids
    BY <1>1, <1>4, <1>5 DEF OwnerInv, Tree
  <2>2. CASE ~Assigned(x)
    BY <2>2, <1>1, ConstantFacts DEF UnassignedInv, XactTypeOK
  <2>3. CASE Assigned(x) /\ topXid[x] = t
    BY <2>3, <1>1 DEF CsnLogInv, CommittingPcs
  <2>4. CASE Assigned(x) /\ topXid[x] # t
    BY <2>1, <2>4, <1>1, <1>7 DEF CsnLogInv
  <2> QED BY <2>2, <2>3, <2>4
<1>18. MarkingInv'
  BY <1>1, <1>4, <1>5, <1>7 DEF MarkingInv, Tree
<1>19. Monotone
  BY <1>1, <1>7 DEF Monotone, Finished, XactTypeOK
<1> QED
  BY <1>19, <1>8, <1>9, <1>10, <1>11, <1>12, <1>13, <1>14, <1>15, <1>16, <1>17, <1>18

\* The initial state of the sessions satisfies the invariant.
LEMMA XactInitInv == XactInit => XactTypeOK /\ XactInv
<1> SUFFICES ASSUME XactInit PROVE XactTypeOK /\ XactInv
  OBVIOUS
<1>1. \A x \in Xids : x \in Nat /\ ~Assigned(x)
  BY XidsNat DEF XactInit, Assigned, FirstNormalTransactionId
<1>2. XactTypeOK
  BY ConstantFacts DEF XactInit, XactTypeOK, SessionPcs,
     FirstNormalTransactionId, COMMITSEQNO_FIRST_NORMAL, InvalidTransactionId
<1>3. BoundsInv
  BY DEF XactInit, BoundsInv, FirstNormalTransactionId,
     COMMITSEQNO_FIRST_NORMAL
<1>4. UnassignedInv /\ OwnerInv /\ ChildInv /\ StackInv /\ LockInv /\ TodoInv
  BY <1>1 DEF XactInit, UnassignedInv, OwnerInv, ChildInv, StackInv, LockInv,
     TodoInv, RunningPcs
<1>5. NotAbortedInv /\ MarkingInv
  BY DEF XactInit, NotAbortedInv, MarkingInv
<1>6. CsnOfInv /\ CsnLogInv
  BY <1>1, ConstantFacts DEF XactInit, CsnOfInv, CsnLogInv,
     COMMITSEQNO_FIRST_NORMAL
<1>7. HorizonInv
  BY XidsNat DEF XactInit, HorizonInv, FirstNormalTransactionId
<1> QED
  BY <1>2, <1>3, <1>4, <1>5, <1>6, <1>7 DEF XactInv

\* Every step of a session keeps the invariant and is monotone for readers.
LEMMA XactNextInv ==
  ASSUME XactTypeOK, XactInv, XactNext
  PROVE  XactTypeOK' /\ XactInv' /\ Monotone
BY StampStep, MarkStep, MarkAbortedStep, SetCommitInProgressStep, NextCsnStep,
   CommitTreeStep, AbortTreeStep, ReleaseLocksStep, EndTransactionStep,
   AssignStep, AssignSubStep, CommitSubStep, AbortSubStep
   DEF XactNext, Finish

-----------------------------------------------------------------------------
(***************************************************************************)
(* The readers' half of the proof and the theorems.  A session's step does *)
(* not disturb a reader because it is Monotone; a reader's own step        *)
(* answers exactly because of what TransactionIdGetCommitSeqNo may find    *)
(* (FetchedCsn), and writes nothing to the CSN log (DecideStep).           *)
(***************************************************************************)

\* A step that changes nothing of the sessions keeps their invariant.
LEMMA XactFrame ==
  ASSUME XactTypeOK, XactInv, UNCHANGED xactVars
  PROVE  XactTypeOK' /\ XactInv' /\ Monotone
<1>1. UNCHANGED <<nextXid, nextCommitSeqNo, latestCompletedXid, snapXmin,
              csnlog, clog, pgxactXids, xactLocks, topXid, parent, childXids,
              cur, pc, todo, latestCSN, commitCSN, csnOf>>
  BY DEF xactVars
<1>2. XactTypeOK'
  BY <1>1 DEF XactTypeOK
<1>3. BoundsInv' /\ UnassignedInv' /\ OwnerInv' /\ ChildInv' /\ StackInv'
  BY <1>1 DEF XactInv, BoundsInv, UnassignedInv, OwnerInv, ChildInv, StackInv,
     Assigned
<1>4. LockInv' /\ TodoInv' /\ NotAbortedInv' /\ CsnOfInv'
  BY <1>1 DEF XactInv, LockInv, TodoInv, NotAbortedInv, CsnOfInv, Tree, Assigned
<1>5. CsnLogInv' /\ MarkingInv' /\ HorizonInv'
  BY <1>1 DEF XactInv, CsnLogInv, MarkingInv, HorizonInv, Tree, Assigned,
     Finished
<1>6. Monotone
  BY <1>1 DEF Monotone, Finished, XactTypeOK
<1> QED
  BY <1>2, <1>3, <1>4, <1>5, <1>6 DEF XactInv

\* Readers are not disturbed by what sessions do.
LEMMA ReaderFrame ==
  ASSUME IInv, XactTypeOK', XactInv', Monotone, UNCHANGED readerVars
  PROVE  IInv'
<1> USE DEF IInv, ReaderInv, TypeOK
<1>1. UNCHANGED <<snap, rpc, rsnap, rxid, rwait, rhint, cache, verdict, hint>>
  BY DEF readerVars
<1>2. ReaderTypeOK'
  BY <1>1 DEF ReaderTypeOK
<1>3. \A x \in Xids : Assigned(x) =>
         /\ Assigned(x)' /\ topXid[x] \in Xids /\ topXid'[x] = topXid[x]
         /\ Finished(topXid[x]) => Finished(topXid[x])' /\ csnOf'[x] = csnOf[x]
         /\ pc[topXid[x]] = "done" => pc'[topXid[x]] = "done"
  BY XidsNat DEF Monotone, XactInv, OwnerInv, Assigned, XactTypeOK
<1>4. \A x \in Xids : csnOf[x] # 0 => csnOf'[x] = csnOf[x]
  BY DEF Monotone
<1>5. \A x \in Xids : Assigned(x) /\ Dead(x) => Dead(x)'
  BY <1>3 DEF Monotone, Dead
<1>6. \A r \in Readers, i \in Snaps : snap[r][i].csn <= nextCommitSeqNo
                                   /\ snap[r][i].csn \in Nat
  BY DEF SnapInv, ReaderTypeOK
<1>7. SnapInv'
  <2> SUFFICES ASSUME NEW r \in Readers, NEW i \in Snaps PROVE SnapInv!(r, i)'
    BY DEF SnapInv
  <2>1. snap[r][i].csn <= nextCommitSeqNo'
    BY <1>6 DEF Monotone, XactTypeOK
  <2> QED BY <2>1, <1>1, <1>3 DEF SnapInv
<1>8. CacheInv'
  BY <1>1, <1>3, <1>4, <1>5 DEF CacheInv
<1>9. HintInv'
  BY <1>1, <1>3, <1>4, <1>5 DEF HintInv
<1>10. CheckInv'
  BY <1>1, <1>3, <1>4 DEF CheckInv, Snapshot
<1>11. VisibilityExact'
  <2> SUFFICES ASSUME NEW r \in Readers, verdict[r] \in {"visible", "invisible"}
               PROVE  InSnapshot(rxid[r], Snapshot(r).csn)' <=>
                      InSnapshot(rxid[r], Snapshot(r).csn)
    BY <1>1 DEF VisibilityExact
  <2>1. rxid[r] \in Xids /\ Snapshot(r)' = Snapshot(r)
        /\ Snapshot(r).csn <= nextCommitSeqNo /\ Snapshot(r).csn \in Nat
    BY <1>1, <1>6 DEF CheckInv, Snapshot, ReaderTypeOK
  <2>2. nextCommitSeqNo \in Nat /\ csnOf[rxid[r]] \in Nat
    BY <2>1 DEF XactTypeOK
  <2> QED BY <2>1, <2>2, <1>1 DEF InSnapshot, Monotone
<1> QED
  BY <1>2, <1>7, <1>8, <1>9, <1>10, <1>11

-----------------------------------------------------------------------------
(* What a visibility check finds                                           *)

\* TransactionIdGetCommitSeqNo answers by cache, commit log or CSN log what
\* FetchOK allows, for every snapshot the thread holds.
LEMMA FetchedCsn ==
  ASSUME IInv, NEW r \in Readers, NEW i \in Snaps, NEW x \in Xids, Assigned(x),
         snap[r][i].csn # 0, NEW hinted \in BOOLEAN, hinted => csnOf[x] # 0
  PROVE  FetchOK(x, snap[r][i],
                 TransactionIdGetCommitSeqNo(r, x, hinted, snap[r][i]))
<1> USE DEF IInv, ReaderInv, TypeOK, XactInv
<1> DEFINE s == snap[r][i]
           t == topXid[x]
<1>1. PICK csn : csn = TransactionIdGetCommitSeqNo(r, x, hinted, s)
  OBVIOUS
<1>2. /\ csnOf[x] \in Nat /\ (csnOf[x] = 0 \/ csnOf[x] >= 3)
      /\ s.csn \in Nat /\ s.csn >= 3 /\ csnlog[x] \in CommitSeqNo
      /\ cache[r].csn \in CommitSeqNo /\ x # 0 /\ t \in Xids
  BY XidsNat DEF XactTypeOK, ReaderTypeOK, CsnOfInv, SnapInv, OwnerInv,
     COMMITSEQNO_FIRST_NORMAL
<1>3. x < s.xmin => Finished(t) /\ csnOf[x] < s.csn
  BY DEF SnapInv
<1>4. /\ PlainCsn(csnOf[x]) \in CommitSeqNo
      /\ PlainCsn(csnOf[x]).val = csnOf[x]
      /\ ~COMMITSEQNO_IS_COMMITTING(PlainCsn(csnOf[x]))
      /\ ~COMMITSEQNO_IS_ABORTED(PlainCsn(csnOf[x]))
      /\ csnOf[x] # 0 => COMMITSEQNO_IS_COMMITTED(PlainCsn(csnOf[x]))
  BY <1>2, PlainFacts
<1>5. CASE CacheHit(r, x, s)
  <2>1. csn = cache[r].csn
    BY <1>1, <1>5 DEF TransactionIdGetCommitSeqNo
  <2>2. \/ csnOf[x] # 0 /\ csn = PlainCsn(csnOf[x])
        \/ /\ csnOf[x] # 0 /\ csn = COMMITSEQNO_FROZEN /\ Finished(t)
           /\ csnOf[x] < s.csn
        \/ Dead(x) /\ csn = COMMITSEQNO_ABORTED
    <3>1. cache[r].xid = x /\ (csn = COMMITSEQNO_FROZEN => ~(x >= s.xmin))
      BY <2>1, <1>5 DEF CacheHit
    <3>2. s.xmin \in Nat /\ x \in Nat
      BY XidsNat DEF ReaderTypeOK
    <3> QED BY <2>1, <3>1, <3>2, <1>2, <1>3 DEF CacheInv, InvalidTransactionId
  <2>3. CASE csnOf[x] # 0 /\ csn = PlainCsn(csnOf[x])
    BY <2>3, <1>1, <1>4 DEF FetchOK
  <2>4. CASE /\ csnOf[x] # 0 /\ csn = COMMITSEQNO_FROZEN /\ Finished(t)
             /\ csnOf[x] < s.csn
    BY <2>4, <1>1, <1>2, ConstantFacts DEF FetchOK
  <2>5. CASE Dead(x) /\ csn = COMMITSEQNO_ABORTED
    BY <2>5, <1>1, ConstantFacts DEF FetchOK, Dead
  <2> QED BY <2>2, <2>3, <2>4, <2>5
<1>6. CASE ~CacheHit(r, x, s) /\ x < s.xmin
  <2>1. csn = GetCSNByCLog(x, hinted)
    BY <1>1, <1>6 DEF TransactionIdGetCommitSeqNo
  <2>2. pc[t] # "sequenced" /\ (clog[x] = "committed" <=> csnOf[x] # 0)
    BY <1>3, <1>6 DEF CsnOfInv, Finished
  <2>3. CASE csnOf[x] # 0
    <3>1. csn = COMMITSEQNO_FROZEN
      BY <2>1, <2>2, <2>3 DEF GetCSNByCLog
    <3> QED BY <3>1, <2>3, <1>1, <1>2, <1>3, <1>6, ConstantFacts DEF FetchOK
  <2>4. CASE csnOf[x] = 0
    <3>1. csn = COMMITSEQNO_ABORTED
      BY <2>1, <2>2, <2>4 DEF GetCSNByCLog
    <3> QED BY <3>1, <2>4, <1>1, <1>3, <1>6, ConstantFacts DEF FetchOK, Dead
  <2> QED BY <2>3, <2>4
<1>7. CASE ~CacheHit(r, x, s) /\ ~(x < s.xmin)
  <2>1. csn = csnlog[x]
    BY <1>1, <1>7 DEF TransactionIdGetCommitSeqNo
  <2>2. COMMITSEQNO_IS_ABORTED(csn) => csnOf[x] = 0
    BY <2>1, <1>2, ExclusiveFacts DEF CsnLogInv
  <2>3. CsnLogInv!(x)
    BY DEF CsnLogInv
  <2> QED BY <2>1, <2>2, <2>3, <1>1, <1>2, <1>4 DEF Dead, FetchOK
<1> QED
  BY <1>5, <1>6, <1>7

\* The answer of one pass through the body is the right one.
LEMMA DecideAnswer ==
  ASSUME NEW x \in Xids, NEW s, s.csn \in Nat, NEW csn, FetchOK(x, s, csn),
         csnOf[x] \in Nat, NEW looped \in BOOLEAN, NEW hinted \in BOOLEAN,
         hinted => csnOf[x] # 0,
         looped => pc[topXid[x]] = "done",
         ~(NeedsWait(csn, s) /\ ~looped)
  PROVE  /\ hinted => (CommittedXidVisible(csn, s, looped) <=> InSnapshot(x, s.csn))
         /\ ~hinted => (XidVisible(csn, s) <=> InSnapshot(x, s.csn))
         /\ ~(looped /\ COMMITSEQNO_IS_COMMITTING(csn))
<1>1. csn \in CommitSeqNo /\ csn.val \in Nat
  BY ExclusiveFacts DEF FetchOK
<1>2. ~(looped /\ COMMITSEQNO_IS_COMMITTING(csn))
  BY DEF FetchOK, CommittingPcs
<1>3. CASE COMMITSEQNO_IS_COMMITTED(csn)
  BY <1>1, <1>2, <1>3, ExclusiveFacts
     DEF FetchOK, XidVisible, CommittedXidVisible, InSnapshot
<1>4. CASE COMMITSEQNO_IS_COMMITTING(csn)
  <2>1. ~COMMITSEQNO_IS_COMMITTED(csn) /\ ~looped
    BY <1>1, <1>2, <1>4, ExclusiveFacts
  <2>2. ~InSnapshot(x, s.csn)
    BY <2>1, <1>1, <1>4 DEF FetchOK, NeedsWait, InSnapshot
  <2> QED BY <2>1, <2>2, <1>4 DEF XidVisible, CommittedXidVisible
<1>5. CASE ~COMMITSEQNO_IS_COMMITTED(csn) /\ ~COMMITSEQNO_IS_COMMITTING(csn)
  BY <1>5 DEF FetchOK, XidVisible, CommittedXidVisible, InSnapshot
<1> QED
  BY <1>2, <1>3, <1>4, <1>5

\* One pass through the body of the two functions keeps the invariant, and
\* leaves the CSN log alone: a mark that outlives the wait does not exist.
LEMMA DecideStep ==
  ASSUME IInv, NEW r \in Readers, NEW i \in Snaps, NEW x \in Xids, Assigned(x),
         snap[r][i].csn # 0,
         NEW looped \in BOOLEAN, looped => pc[topXid[x]] = "done",
         NEW hinted \in BOOLEAN, hinted => csnOf[x] # 0,
         Decide(r, x, snap[r][i], looped, hinted),
         rsnap' = [rsnap EXCEPT ![r] = i],
         rxid' = [rxid EXCEPT ![r] = x],
         NEW h \in {"none", "committed", "invalid"},
         rhint' = [rhint EXCEPT ![r] = h],
         UNCHANGED <<snap, rwait, clog, treeVars, shmemVars, sessVars>>
  PROVE  IInv' /\ Monotone
<1> USE DEF IInv, ReaderInv, TypeOK
<1> DEFINE s == snap[r][i]
<1>1. PICK csn : csn = TransactionIdGetCommitSeqNo(r, x, hinted, s)
  OBVIOUS
<1>2. FetchOK(x, s, csn)
  BY <1>1, FetchedCsn
<1>3. PICK result \in BOOLEAN :
        /\ ~(NeedsWait(csn, s) /\ ~looped)
        /\ result = IF hinted THEN CommittedXidVisible(csn, s, looped)
                    ELSE XidVisible(csn, s)
        /\ rpc' = [rpc EXCEPT ![r] = "idle"]
        /\ verdict' = [verdict EXCEPT ![r] = Visible(result)]
        /\ cache' = [cache EXCEPT ![r] = CacheAfter(r, x, csn)]
        /\ csnlog' = ResolveStaleMark(x, csn, looped, hinted)
        /\ hint' \in IF hinted THEN {hint} ELSE HintsAfter(x, csn, looped)
  BY <1>1 DEF Decide, XidVisible, CommittedXidVisible
<1>4. s.csn \in Nat /\ csnOf[x] \in Nat
  BY DEF ReaderTypeOK, XactTypeOK
<1>5. /\ result <=> InSnapshot(x, s.csn)
      /\ ~(looped /\ COMMITSEQNO_IS_COMMITTING(csn))
  BY <1>2, <1>3, <1>4, DecideAnswer
<1>6. UNCHANGED xactVars
  BY <1>3, <1>5 DEF ResolveStaleMark, xactVars, treeVars, shmemVars, sessVars
<1>7. XactTypeOK' /\ XactInv' /\ Monotone
  BY <1>6, XactFrame
<1>8. UNCHANGED <<nextXid, pc, csnlog, topXid, csnOf, nextCommitSeqNo, snap, rwait>>
  BY <1>6 DEF xactVars
<1>9. \A y \in Xids : hint'[y] = hint[y]
         \/ /\ y = x
            /\ \/ hint'[y] = "committed" /\ csnOf[x] # 0
               \/ hint'[y] = "invalid" /\ Dead(x)
  BY <1>2, <1>3, <1>5 DEF HintsAfter, FetchOK, ReaderTypeOK
<1>10. hint' \in [Xids -> {"none", "committed", "invalid"}]
  BY <1>3 DEF HintsAfter, ReaderTypeOK
<1>11. \/ cache'[r] = cache[r]
       \/ /\ cache'[r] = [xid |-> x, csn |-> csn]
          /\ \/ csnOf[x] # 0 /\ csn = PlainCsn(csnOf[x])
             \/ csnOf[x] # 0 /\ csn = COMMITSEQNO_FROZEN /\ Finished(topXid[x])
             \/ Dead(x) /\ csn = COMMITSEQNO_ABORTED
  BY <1>2, <1>3 DEF CacheAfter, FetchOK, ReaderTypeOK, COMMITSEQNO_IS_ABORTED
<1>12. \A q \in Readers : q # r => cache'[q] = cache[q]
  BY <1>3 DEF ReaderTypeOK
<1>13. ReaderTypeOK'
  <2>1. cache' \in [Readers -> [xid : Nat, csn : CommitSeqNo]]
    BY <1>2, <1>3, <1>11, XidsNat DEF ReaderTypeOK, FetchOK, CacheAfter
  <2>2. verdict' \in [Readers -> {"none", "visible", "invisible", "assumed"}]
    BY <1>3 DEF ReaderTypeOK, Visible
  <2> QED BY <2>1, <2>2, <1>3, <1>8, <1>10, XidsNat DEF ReaderTypeOK
<1>14. SnapInv'
  BY <1>8 DEF SnapInv, Assigned, Finished
<1>15. CacheInv'
  <2> SUFFICES ASSUME NEW q \in Readers PROVE CacheInv!(q)'
    BY DEF CacheInv
  <2>1. CASE cache'[q] = cache[q]
    BY <2>1, <1>8 DEF CacheInv, Dead, Finished, Assigned
  <2>2. CASE cache'[q] # cache[q]
    <3>1. q = r /\ cache'[q].xid = x /\ cache'[q].csn = csn
      BY <2>2, <1>11, <1>12
    <3> QED BY <2>2, <3>1, <1>8, <1>11 DEF Dead, Finished, Assigned
  <2> QED BY <2>1, <2>2
<1>16. HintInv'
  BY <1>8, <1>9 DEF HintInv, Dead, Finished, Assigned
<1>17. /\ rpc'[r] = "idle" /\ rxid'[r] = x /\ rsnap'[r] = i
       /\ verdict'[r] = Visible(result)
       /\ \A q \in Readers : q # r =>
             /\ rpc'[q] = rpc[q] /\ rxid'[q] = rxid[q] /\ rsnap'[q] = rsnap[q]
             /\ verdict'[q] = verdict[q] /\ rhint'[q] = rhint[q]
  BY <1>3 DEF ReaderTypeOK
<1>18. CheckInv'
  <2> SUFFICES ASSUME NEW q \in Readers PROVE CheckInv!(q)'
    BY DEF CheckInv
  <2>1. CASE q = r
    BY <2>1, <1>8, <1>17 DEF Snapshot, Assigned
  <2>2. CASE q # r
    BY <2>2, <1>8, <1>17 DEF CheckInv, Snapshot, Assigned
  <2> QED BY <2>1, <2>2
<1>19. VisibilityExact'
  <2> SUFFICES ASSUME NEW q \in Readers PROVE VisibilityExact!(q)'
    BY DEF VisibilityExact
  <2>1. CASE q = r
    BY <2>1, <1>5, <1>8, <1>17 DEF Snapshot, InSnapshot, Visible
  <2>2. CASE q # r
    BY <2>2, <1>8, <1>17 DEF VisibilityExact, Snapshot, InSnapshot
  <2> QED BY <2>1, <2>2
<1> QED
  BY <1>7, <1>13, <1>14, <1>15, <1>16, <1>18, <1>19

\* A check that is decided in its first pass keeps the invariant.
LEMMA CheckStep ==
  ASSUME IInv, NEW r \in Readers, NEW i \in Snaps, NEW x \in Tuples,
         CheckXid(r, i, x)
  PROVE  IInv' /\ Monotone
<1>1. x \in Xids /\ Assigned(x) /\ snap[r][i].csn # 0
  BY TuplesAssumption DEF CheckXid, StartsCheck, Assigned
<1>2. hint[x] \in {"none", "committed", "invalid"}
      /\ (hint[x] = "committed" => csnOf[x] # 0)
  BY <1>1 DEF IInv, ReaderInv, HintInv, TypeOK, ReaderTypeOK
<1>3. /\ Decide(r, x, snap[r][i], FALSE, hint[x] = "committed")
      /\ rsnap' = [rsnap EXCEPT ![r] = i]
      /\ rxid' = [rxid EXCEPT ![r] = x]
      /\ rhint' = [rhint EXCEPT ![r] = hint[x]]
      /\ UNCHANGED <<snap, rwait, clog, treeVars, shmemVars, sessVars>>
  BY DEF CheckXid, StartsCheck
<1> QED
  BY <1>1, <1>2, <1>3, DecideStep

\* So does the second pass, after the wait.
LEMMA RecheckStep ==
  ASSUME IInv, NEW r \in Readers, RecheckXid(r)
  PROVE  IInv' /\ Monotone
<1> USE DEF IInv, ReaderInv, TypeOK
<1> DEFINE i == rsnap[r]
           x == rxid[r]
<1>1. /\ rpc[r] = "looped"
      /\ Decide(r, x, snap[r][i], TRUE, rhint[r] = "committed")
      /\ UNCHANGED <<snap, rsnap, rxid, rwait, rhint, clog, treeVars,
                     shmemVars, sessVars>>
  BY DEF RecheckXid, Snapshot
<1>2. /\ i \in Snaps /\ rhint[r] \in {"none", "committed", "invalid"}
      /\ x \in Xids /\ Assigned(x) /\ snap[r][i].csn # 0
      /\ pc[topXid[x]] = "done"
      /\ rhint[r] = "committed" => csnOf[x] # 0
  BY <1>1 DEF CheckInv, ReaderTypeOK, Snapshot
<1>3. /\ rsnap' = [rsnap EXCEPT ![r] = i]
      /\ rxid' = [rxid EXCEPT ![r] = x]
      /\ rhint' = [rhint EXCEPT ![r] = rhint[r]]
  BY <1>1 DEF ReaderTypeOK
<1> HIDE DEF i, x
<1> QED
  BY <1>1, <1>2, <1>3, DecideStep, ZenonT(60)

-----------------------------------------------------------------------------
(* The other steps of a reader                                             *)

\* A new snapshot whose xmin is a horizon.
LEMMA NewSnapshotStep ==
  ASSUME IInv, NEW r \in Readers, NEW i \in Snaps, NEW m \in Nat,
         \A y \in Xids : y < m => Assigned(y) /\ Finished(topXid[y]),
         rpc[r] = "idle",
         rpc' = [rpc EXCEPT ![r] = "snapping"],
         rsnap' = [rsnap EXCEPT ![r] = i],
         snap' = [snap EXCEPT ![r][i] = [xmin |-> m, csn |-> 0]],
         verdict' = [verdict EXCEPT ![r] = "none"],
         UNCHANGED <<rxid, rwait, rhint, cache, hint>>,
         UNCHANGED xactVars
  PROVE  IInv' /\ Monotone
<1> USE DEF IInv, ReaderInv, TypeOK
<1>1. XactTypeOK' /\ XactInv' /\ Monotone
  BY XactFrame
<1>2. UNCHANGED <<nextXid, pc, csnlog, topXid, csnOf, nextCommitSeqNo>>
  BY DEF xactVars
<1>3. /\ snap'[r][i] = [xmin |-> m, csn |-> 0]
      /\ \A q \in Readers, j \in Snaps : q # r \/ j # i => snap'[q][j] = snap[q][j]
      /\ rpc'[r] = "snapping" /\ rsnap'[r] = i /\ verdict'[r] = "none"
      /\ \A q \in Readers : q # r =>
            rpc'[q] = rpc[q] /\ rsnap'[q] = rsnap[q] /\ verdict'[q] = verdict[q]
  BY DEF ReaderTypeOK
<1>4. ReaderTypeOK'
  BY DEF ReaderTypeOK
<1>5. SnapInv'
  <2> SUFFICES ASSUME NEW q \in Readers, NEW j \in Snaps PROVE SnapInv!(q, j)'
    BY DEF SnapInv
  <2>1. CASE q = r /\ j = i
    BY <2>1, <1>2, <1>3 DEF Assigned, Finished, XactTypeOK
  <2>2. CASE q # r \/ j # i
    BY <2>2, <1>2, <1>3 DEF SnapInv, Assigned, Finished
  <2> QED BY <2>1, <2>2
<1>6. CacheInv' /\ HintInv'
  BY <1>2 DEF CacheInv, HintInv, Dead, Finished, Assigned
<1>7. \A q \in Readers : q # r => Snapshot(q)' = Snapshot(q)
  BY <1>3 DEF Snapshot, ReaderTypeOK
<1>8. CheckInv'
  <2> SUFFICES ASSUME NEW q \in Readers PROVE CheckInv!(q)'
    BY DEF CheckInv
  <2>1. CASE q = r
    BY <2>1, <1>3 DEF Snapshot
  <2>2. CASE q # r
    BY <2>2, <1>2, <1>3, <1>7 DEF CheckInv, Assigned
  <2> QED BY <2>1, <2>2
<1>9. VisibilityExact'
  BY <1>2, <1>3, <1>7 DEF VisibilityExact, InSnapshot
<1> QED
  BY <1>1, <1>4, <1>5, <1>6, <1>8, <1>9

\* A snapshot copied from the ring buffer has a horizon for xmin.
LEMMA LocalSnapshotStep ==
  ASSUME IInv, NEW r \in Readers, NEW i \in Snaps, GetLocalSnapshotData(r, i)
  PROVE  IInv' /\ Monotone
<1>1. snapXmin \in Nat
      /\ \A y \in Xids : y < snapXmin => Assigned(y) /\ Finished(topXid[y])
  BY DEF IInv, TypeOK, XactTypeOK, XactInv, HorizonInv
<1> QED
  BY <1>1, NewSnapshotStep DEF GetLocalSnapshotData

\* So has a snapshot computed from the proc array.
LEMMA ScanStep ==
  ASSUME IInv, NEW r \in Readers, NEW i \in Snaps, ScanProcArray(r, i)
  PROVE  IInv' /\ Monotone
<1> USE DEF IInv, TypeOK, XactInv
<1>1. PICK m \in pgxactXids \cup {latestCompletedXid + 1} :
         ScanProcArray(r, i)!(m)
  BY DEF ScanProcArray
<1>2. m \in Nat /\ m <= latestCompletedXid + 1
      /\ \A y \in pgxactXids : y < latestCompletedXid + 1 => m <= y
  BY <1>1, XidsNat DEF XactTypeOK, IsSnapshotXmin
<1>3. ASSUME NEW y \in Xids, y < m PROVE Assigned(y) /\ Finished(topXid[y])
  <2>1. y \in Nat /\ y < latestCompletedXid + 1 /\ Assigned(y)
    BY <1>2, <1>3, XidsNat DEF Assigned, XactTypeOK, BoundsInv
  <2>2. topXid[y] \in Xids /\ topXid[y] <= y /\ topXid[y] \in Nat
        /\ pc[topXid[y]] # "none"
    BY <2>1, XidsNat DEF OwnerInv
  <2>3. topXid[y] < latestCompletedXid + 1 /\ ~(m <= topXid[y])
    BY <2>1, <2>2, <1>2, <1>3 DEF XactTypeOK
  <2>4. topXid[y] \notin pgxactXids
    BY <2>3, <1>2
  <2> QED BY <2>1, <2>2, <2>4 DEF LockInv, RunningPcs, XactTypeOK,
             SessionPcs, Finished
<1> QED
  BY <1>1, <1>2, <1>3, NewSnapshotStep

\* Reading snapshotcsn after xmin keeps the invariant: every CSN below the
\* horizon was drawn before the counter is read.
LEMMA SnapshotCsnStep ==
  ASSUME IInv, NEW r \in Readers, ReadSnapshotCsn(r)
  PROVE  IInv' /\ Monotone
<1> USE DEF IInv, ReaderInv, TypeOK
<1> DEFINE i == rsnap[r]
<1>1. /\ rpc[r] = "snapping"
      /\ rpc' = [rpc EXCEPT ![r] = "idle"]
      /\ snap' = [snap EXCEPT ![r][i].csn = nextCommitSeqNo]
      /\ UNCHANGED <<rsnap, rxid, rwait, rhint, cache, verdict, hint>>
      /\ UNCHANGED xactVars
  BY DEF ReadSnapshotCsn
<1>2. XactTypeOK' /\ XactInv' /\ Monotone
  BY <1>1, XactFrame
<1>3. UNCHANGED <<nextXid, pc, csnlog, topXid, csnOf, nextCommitSeqNo>>
  BY <1>1 DEF xactVars
<1>4. i \in Snaps /\ verdict[r] = "none" /\ nextCommitSeqNo \in Nat
  BY <1>1 DEF ReaderTypeOK, CheckInv, XactTypeOK
<1>5. /\ snap'[r][i].xmin = snap[r][i].xmin
      /\ snap'[r][i].csn = nextCommitSeqNo
      /\ \A q \in Readers, j \in Snaps : q # r \/ j # i => snap'[q][j] = snap[q][j]
      /\ rpc'[r] = "idle"
      /\ \A q \in Readers : q # r => rpc'[q] = rpc[q]
  BY <1>1, <1>4 DEF ReaderTypeOK
<1> HIDE DEF i
<1>6. ReaderTypeOK'
  <2> DEFINE new == [snap[r][i] EXCEPT !.csn = nextCommitSeqNo]
  <2>1. snap[r][i] \in [xmin : Nat, csn : Nat] /\ snap[r] \in [Snaps -> [xmin : Nat, csn : Nat]]
    BY <1>4 DEF ReaderTypeOK
  <2>2. new \in [xmin : Nat, csn : Nat]
    BY <2>1, <1>4
  <2>3. snap' = [snap EXCEPT ![r] = [snap[r] EXCEPT ![i] = new]]
    BY <1>1
  <2> HIDE DEF new
  <2>4. snap' \in [Readers -> [Snaps -> [xmin : Nat, csn : Nat]]]
    BY <2>1, <2>2, <2>3, <1>4 DEF ReaderTypeOK
  <2> QED BY <2>4, <1>1 DEF ReaderTypeOK
<1>7. SnapInv'
  <2> SUFFICES ASSUME NEW q \in Readers, NEW j \in Snaps PROVE SnapInv!(q, j)'
    BY DEF SnapInv
  <2>1. CASE q = r /\ j = i
    BY <2>1, <1>3, <1>4, <1>5 DEF SnapInv, Assigned, Finished, XactInv,
       CsnOfInv, BoundsInv
  <2>2. CASE q # r \/ j # i
    BY <2>2, <1>3, <1>5 DEF SnapInv, Assigned, Finished
  <2> QED BY <2>1, <2>2
<1>8. CacheInv' /\ HintInv'
  BY <1>1, <1>3 DEF CacheInv, HintInv, Dead, Finished, Assigned
<1>9. \A q \in Readers : q # r => Snapshot(q)' = Snapshot(q)
  BY <1>1, <1>5 DEF Snapshot, ReaderTypeOK
<1>10. CheckInv'
  <2> SUFFICES ASSUME NEW q \in Readers PROVE CheckInv!(q)'
    BY DEF CheckInv
  <2>1. CASE q = r
    BY <2>1, <1>1, <1>4, <1>5
  <2>2. CASE q # r
    BY <2>2, <1>1, <1>3, <1>5, <1>9 DEF CheckInv, Assigned
  <2> QED BY <2>1, <2>2
<1>11. VisibilityExact'
  BY <1>1, <1>3, <1>4, <1>9 DEF VisibilityExact, InSnapshot
<1> QED
  BY <1>2, <1>6, <1>7, <1>8, <1>10, <1>11

\* An answer given by the hint bits alone is the right one.
LEMMA HintStep ==
  ASSUME IInv, NEW r \in Readers, NEW i \in Snaps, NEW x \in Tuples,
         HintDecides(r, i, x)
  PROVE  IInv' /\ Monotone
<1> USE DEF IInv, ReaderInv, TypeOK
<1>1. /\ rpc[r] = "idle" /\ snap[r][i].csn # 0 /\ Assigned(x) /\ x \in Xids
      /\ \/ hint[x] = "invalid" /\ verdict' = [verdict EXCEPT ![r] = "invisible"]
         \/ /\ hint[x] = "committed" /\ x < snap[r][i].xmin
            /\ verdict' = [verdict EXCEPT ![r] = "visible"]
      /\ rsnap' = [rsnap EXCEPT ![r] = i]
      /\ rxid' = [rxid EXCEPT ![r] = x]
      /\ UNCHANGED <<snap, rpc, rwait, rhint, cache, hint>>
      /\ UNCHANGED xactVars
  BY TuplesAssumption DEF HintDecides, Assigned
<1>2. XactTypeOK' /\ XactInv' /\ Monotone
  BY <1>1, XactFrame
<1>3. UNCHANGED <<nextXid, pc, csnlog, topXid, csnOf, nextCommitSeqNo>>
  BY <1>1 DEF xactVars
<1>4. /\ rsnap'[r] = i /\ rxid'[r] = x
      /\ \A q \in Readers : q # r =>
            rsnap'[q] = rsnap[q] /\ rxid'[q] = rxid[q] /\ verdict'[q] = verdict[q]
  BY <1>1 DEF ReaderTypeOK
<1>5. \/ verdict'[r] = "invisible" /\ ~InSnapshot(x, snap[r][i].csn)
      \/ verdict'[r] = "visible" /\ InSnapshot(x, snap[r][i].csn)
  BY <1>1 DEF HintInv, Dead, SnapInv, InSnapshot, ReaderTypeOK
<1>6. ReaderTypeOK'
  BY <1>1, XidsNat DEF ReaderTypeOK
<1>7. SnapInv' /\ CacheInv' /\ HintInv'
  BY <1>1, <1>3 DEF SnapInv, CacheInv, HintInv, Dead, Finished, Assigned
<1>8. CheckInv'
  <2> SUFFICES ASSUME NEW q \in Readers PROVE CheckInv!(q)'
    BY DEF CheckInv
  <2>1. CASE q = r
    BY <2>1, <1>1, <1>3, <1>4 DEF Snapshot, Assigned
  <2>2. CASE q # r
    BY <2>2, <1>1, <1>3, <1>4 DEF CheckInv, Snapshot, Assigned
  <2> QED BY <2>1, <2>2
<1>9. VisibilityExact'
  <2> SUFFICES ASSUME NEW q \in Readers PROVE VisibilityExact!(q)'
    BY DEF VisibilityExact
  <2>1. CASE q = r
    BY <2>1, <1>1, <1>3, <1>4, <1>5 DEF Snapshot, InSnapshot
  <2>2. CASE q # r
    BY <2>2, <1>1, <1>3, <1>4 DEF VisibilityExact, Snapshot, InSnapshot
  <2> QED BY <2>1, <2>2
<1> QED
  BY <1>2, <1>6, <1>7, <1>8, <1>9

\* A check that has to wait does so for the top-level transaction.
LEMMA CheckWaitsStep ==
  ASSUME IInv, NEW r \in Readers, NEW i \in Snaps, NEW x \in Tuples,
         CheckXidWaits(r, i, x)
  PROVE  IInv' /\ Monotone
<1> USE DEF IInv, ReaderInv, TypeOK
<1> DEFINE s == snap[r][i]
<1>1. PICK csn :
        csn = TransactionIdGetCommitSeqNo(r, x, hint[x] = "committed", s)
  OBVIOUS
<1>2. /\ rpc[r] = "idle" /\ s.csn # 0 /\ Assigned(x) /\ x \in Xids
      /\ NeedsWait(csn, s)
      /\ rpc' = [rpc EXCEPT ![r] = "waiting"]
      /\ rwait' = [rwait EXCEPT ![r] =
                      IF COMMITSEQNO_IS_SUBTRANS(csn) THEN csn.val ELSE x]
      /\ verdict' = [verdict EXCEPT ![r] = "none"]
      /\ rsnap' = [rsnap EXCEPT ![r] = i]
      /\ rxid' = [rxid EXCEPT ![r] = x]
      /\ rhint' = [rhint EXCEPT ![r] = hint[x]]
      /\ UNCHANGED <<snap, cache, hint>>
      /\ UNCHANGED xactVars
  BY <1>1, TuplesAssumption DEF CheckXidWaits, StartsCheck, Assigned, xactVars,
     treeVars, shmemVars, sessVars
<1>3. XactTypeOK' /\ XactInv' /\ Monotone
  BY <1>2, XactFrame
<1>4. UNCHANGED <<nextXid, pc, csnlog, topXid, csnOf, nextCommitSeqNo>>
  BY <1>2 DEF xactVars
<1>5. hint[x] \in {"none", "committed", "invalid"}
      /\ (hint[x] = "committed" => csnOf[x] # 0)
  BY <1>2 DEF HintInv, ReaderTypeOK
<1>6. FetchOK(x, s, csn)
  <2>1. (hint[x] = "committed") \in BOOLEAN
    OBVIOUS
  <2> QED BY <2>1, <1>1, <1>2, <1>5, FetchedCsn
<1>7. COMMITSEQNO_IS_COMMITTING(csn)
      /\ (IF COMMITSEQNO_IS_SUBTRANS(csn) THEN csn.val ELSE x) = topXid[x]
  BY <1>2, <1>6 DEF NeedsWait, FetchOK
<1>8. /\ rsnap'[r] = i /\ rxid'[r] = x /\ rwait'[r] = topXid[x]
      /\ rpc'[r] = "waiting" /\ verdict'[r] = "none" /\ rhint'[r] = hint[x]
      /\ \A q \in Readers : q # r =>
            /\ rsnap'[q] = rsnap[q] /\ rxid'[q] = rxid[q]
            /\ rwait'[q] = rwait[q] /\ rpc'[q] = rpc[q]
            /\ verdict'[q] = verdict[q] /\ rhint'[q] = rhint[q]
  BY <1>2, <1>7 DEF ReaderTypeOK
<1>9. ReaderTypeOK'
  <2>1. topXid[x] \in Nat /\ x \in Nat
    BY <1>2, XidsNat DEF XactTypeOK
  <2> QED BY <2>1, <1>2, <1>5, <1>7 DEF ReaderTypeOK
<1>10. SnapInv' /\ CacheInv' /\ HintInv'
  BY <1>2, <1>4 DEF SnapInv, CacheInv, HintInv, Dead, Finished, Assigned
<1>11. CheckInv'
  <2> SUFFICES ASSUME NEW q \in Readers PROVE CheckInv!(q)'
    BY DEF CheckInv
  <2>1. CASE q = r
    BY <2>1, <1>2, <1>4, <1>5, <1>8 DEF Snapshot, Assigned
  <2>2. CASE q # r
    BY <2>2, <1>2, <1>4, <1>8 DEF CheckInv, Snapshot, Assigned
  <2> QED BY <2>1, <2>2
<1>12. VisibilityExact'
  BY <1>2, <1>4, <1>8 DEF VisibilityExact, Snapshot, InSnapshot
<1> QED
  BY <1>3, <1>9, <1>10, <1>11, <1>12

\* A check that is cut short decides nothing.
LEMMA CheckAssumesStep ==
  ASSUME IInv, NEW r \in Readers, NEW i \in Snaps, NEW x \in Tuples,
         CheckXidAssumes(r, i, x)
  PROVE  IInv' /\ Monotone
<1> USE DEF IInv, ReaderInv, TypeOK
<1>1. /\ rpc[r] = "idle" /\ snap[r][i].csn # 0 /\ Assigned(x) /\ x \in Xids
      /\ verdict' = [verdict EXCEPT ![r] = "assumed"]
      /\ rsnap' = [rsnap EXCEPT ![r] = i]
      /\ rxid' = [rxid EXCEPT ![r] = x]
      /\ rhint' = [rhint EXCEPT ![r] = hint[x]]
      /\ UNCHANGED <<snap, rpc, rwait, cache, hint>>
      /\ UNCHANGED xactVars
  BY TuplesAssumption DEF CheckXidAssumes, StartsCheck, Assigned, xactVars,
     treeVars, shmemVars, sessVars
<1>2. XactTypeOK' /\ XactInv' /\ Monotone
  BY <1>1, XactFrame
<1>3. UNCHANGED <<nextXid, pc, csnlog, topXid, csnOf, nextCommitSeqNo>>
  BY <1>1 DEF xactVars
<1>4. /\ rsnap'[r] = i /\ rxid'[r] = x /\ verdict'[r] = "assumed"
      /\ \A q \in Readers : q # r =>
            /\ rsnap'[q] = rsnap[q] /\ rxid'[q] = rxid[q]
            /\ verdict'[q] = verdict[q] /\ rhint'[q] = rhint[q]
  BY <1>1 DEF ReaderTypeOK
<1>5. ReaderTypeOK'
  BY <1>1, XidsNat DEF ReaderTypeOK
<1>6. SnapInv' /\ CacheInv' /\ HintInv'
  BY <1>1, <1>3 DEF SnapInv, CacheInv, HintInv, Dead, Finished, Assigned
<1>7. CheckInv'
  <2> SUFFICES ASSUME NEW q \in Readers PROVE CheckInv!(q)'
    BY DEF CheckInv
  <2>1. CASE q = r
    BY <2>1, <1>1, <1>3, <1>4 DEF Snapshot, Assigned
  <2>2. CASE q # r
    BY <2>2, <1>1, <1>3, <1>4 DEF CheckInv, Snapshot, Assigned
  <2> QED BY <2>1, <2>2
<1>8. VisibilityExact'
  BY <1>1, <1>3, <1>4 DEF VisibilityExact, Snapshot, InSnapshot
<1> QED
  BY <1>2, <1>5, <1>6, <1>7, <1>8

\* The end of the wait, by success or by timeout, keeps the invariant.
LEMMA WaitStep ==
  ASSUME IInv, NEW r \in Readers, SyncWaitXidEnd(r) \/ SyncWaitTimeout(r)
  PROVE  IInv' /\ Monotone
<1> USE DEF IInv, ReaderInv, TypeOK
<1>1. PICK next \in {"idle", "looped"} :
        /\ rpc[r] = "waiting"
        /\ next = "looped" => rwait[r] \notin xactLocks /\ rwait[r] \notin pgxactXids
        /\ rpc' = [rpc EXCEPT ![r] = next]
        /\ UNCHANGED <<snap, rsnap, rxid, rwait, rhint, cache, verdict, hint>>
        /\ UNCHANGED xactVars
  BY DEF SyncWaitXidEnd, SyncWaitTimeout
<1>2. XactTypeOK' /\ XactInv' /\ Monotone
  BY <1>1, XactFrame
<1>3. UNCHANGED <<nextXid, pc, csnlog, topXid, csnOf, nextCommitSeqNo>>
  BY <1>1 DEF xactVars
<1>4. next = "looped" => pc[topXid[rxid[r]]] = "done"
  <2>1. /\ rwait[r] = topXid[rxid[r]] /\ rxid[r] \in Xids /\ Assigned(rxid[r])
    BY <1>1 DEF CheckInv
  <2>2. topXid[rxid[r]] \in Xids /\ pc[topXid[rxid[r]]] # "none"
    BY <2>1 DEF XactInv, OwnerInv
  <2> QED BY <2>1, <2>2, <1>1 DEF XactInv, LockInv, RunningPcs, XactTypeOK,
             SessionPcs
<1>5. rpc'[r] = next /\ \A q \in Readers : q # r => rpc'[q] = rpc[q]
  BY <1>1 DEF ReaderTypeOK
<1>6. ReaderTypeOK'
  BY <1>1 DEF ReaderTypeOK
<1>7. SnapInv' /\ CacheInv' /\ HintInv'
  BY <1>1, <1>3 DEF SnapInv, CacheInv, HintInv, Dead, Finished, Assigned
<1>8. CheckInv'
  <2> SUFFICES ASSUME NEW q \in Readers PROVE CheckInv!(q)'
    BY DEF CheckInv
  <2>1. CASE q = r
    BY <2>1, <1>1, <1>3, <1>4, <1>5 DEF CheckInv, Snapshot, Assigned
  <2>2. CASE q # r
    BY <2>2, <1>1, <1>3, <1>5 DEF CheckInv, Snapshot, Assigned
  <2> QED BY <2>1, <2>2
<1>9. VisibilityExact'
  BY <1>1, <1>3 DEF VisibilityExact, Snapshot, InSnapshot
<1> QED
  BY <1>2, <1>6, <1>7, <1>8, <1>9

-----------------------------------------------------------------------------
(* The theorems                                                            *)

\* The initial state satisfies the invariant.
LEMMA InitInv == Init => IInv
<1> SUFFICES ASSUME Init PROVE IInv
  OBVIOUS
<1>1. XactTypeOK /\ XactInv
  BY XactInitInv DEF Init
<1>2. ReaderTypeOK
  BY ConstantFacts DEF Init, ReaderInit, ReaderTypeOK, NoSnap,
     InvalidTransactionId
<1>3. SnapInv
  <2>1. \A r \in Readers, i \in Snaps : snap[r][i].csn = 0 /\ snap[r][i].xmin = 0
    BY DEF Init, ReaderInit, NoSnap
  <2> QED BY <2>1, <1>1, XidsNat DEF SnapInv, XactTypeOK
<1>4. CacheInv /\ HintInv /\ CheckInv /\ VisibilityExact
  BY DEF Init, ReaderInit, CacheInv, HintInv, CheckInv, VisibilityExact
<1> QED
  BY <1>1, <1>2, <1>3, <1>4 DEF IInv, TypeOK, ReaderInv

\* Every step of the system keeps it.
LEMMA NextInv ==
  ASSUME IInv, [Next]_vars
  PROVE  IInv' /\ Monotone
<1>1. CASE XactNext /\ UNCHANGED readerVars
  BY <1>1, XactNextInv, ReaderFrame DEF IInv, TypeOK
<1>2. ASSUME NEW r \in Readers, ReaderNext(r) PROVE IInv' /\ Monotone
  <2>1. CASE ReaderProgress(r) \/ SyncWaitTimeout(r)
    BY <2>1, SnapshotCsnStep, WaitStep, RecheckStep DEF ReaderProgress
  <2>2. ASSUME NEW i \in Snaps, GetLocalSnapshotData(r, i) \/ ScanProcArray(r, i)
        PROVE  IInv' /\ Monotone
    BY <2>2, LocalSnapshotStep, ScanStep
  <2>3. ASSUME NEW i \in Snaps, NEW x \in Tuples,
               \/ HintDecides(r, i, x) \/ CheckXid(r, i, x)
               \/ CheckXidWaits(r, i, x) \/ CheckXidAssumes(r, i, x)
        PROVE  IInv' /\ Monotone
    BY <2>3, HintStep, CheckStep, CheckWaitsStep, CheckAssumesStep
  <2> QED BY <1>2, <2>1, <2>2, <2>3 DEF ReaderNext
<1>3. CASE UNCHANGED vars
  BY <1>3, XactFrame, ReaderFrame DEF vars, IInv, TypeOK
<1> QED
  BY <1>1, <1>2, <1>3 DEF Next

\* The invariant is inductive: every reachable state of sessions and readers
\* satisfies IInv, for any number of xids, readers, snapshots and tuples.
THEOREM Invariance == Spec => []IInv
<1>1. Init => IInv
  BY InitInv
<1>2. IInv /\ [Next]_vars => IInv'
  BY NextInv
<1> QED
  BY <1>1, <1>2, PTL DEF Spec

\* Every variable of the sessions and of the readers stays in its type.
THEOREM TypeCorrect == Spec => []TypeOK
<1>1. IInv => TypeOK
  BY DEF IInv
<1> QED
  BY <1>1, Invariance, PTL

\* XidVisibleInSnapshot and CommittedXidVisibleInSnapshot answer exactly by the
\* CSN a transaction drew, whatever they meet on the way.
THEOREM VisibilityIsExact == Spec => []VisibilityExact
<1>1. IInv => VisibilityExact
  BY DEF IInv, ReaderInv
<1> QED
  BY <1>1, Invariance, PTL

\* Below a snapshot's xmin every transaction is over, within the snapshot's CSN,
\* and faithfully recorded in the commit log.
THEOREM XminIsHorizon == Spec => []XminHorizon
<1>1. IInv => XminHorizon
  BY DEF IInv, ReaderInv, XactInv, SnapInv, OwnerInv, CsnOfInv, XminHorizon,
     Finished
<1> QED
  BY <1>1, Invariance, PTL

\* SyncWaitXidEnd returns only after the commit-in-progress mark is gone.
THEOREM MarkIsResolved == Spec => []MarkResolvedAfterWait
<1>1. IInv => MarkResolvedAfterWait
  BY DEF IInv, ReaderInv, XactInv, CheckInv, CsnLogInv, CommittingPcs,
     MarkResolvedAfterWait
<1> QED
  BY <1>1, Invariance, PTL

\* CSNLogSetCSN is never asked for a change that stops the server.
THEOREM CsnLogNeverPanics == Spec => []NoCsnLogPanic
<1>1. IInv => NoCsnLogPanic
  <2> SUFFICES ASSUME IInv, NEW t \in Xids, NEW x \in todo[t]
               PROVE  NoCsnLogPanic!(t)!(x)
    BY DEF NoCsnLogPanic
  <2> USE DEF IInv, TypeOK, XactInv
  <2>1. x \in Xids /\ csnlog[x] \in CommitSeqNo /\ commitCSN[t] \in Nat
    BY DEF XactTypeOK
  <2>2. CASE pc[t] = "stamping"
    <3>1. x \in Tree(t) /\ topXid[x] = t /\ Assigned(x)
      BY <2>2, TreeOwner DEF TodoInv
    <3>2. csnOf[x] # 0 /\ commitCSN[t] >= 3
      BY <2>1, <2>2, <3>1 DEF CsnOfInv, COMMITSEQNO_FIRST_NORMAL
    <3>3. ~COMMITSEQNO_IS_ABORTED(csnlog[x])
          /\ ~COMMITSEQNO_IS_ABORTED(PlainCsn(commitCSN[t]))
      BY <2>1, <3>2, ExclusiveFacts, PlainFacts DEF CsnLogInv
    <3> QED BY <2>2, <3>3 DEF CSNLogPanics
  <2>3. CASE pc[t] = "aborting"
    <3>1. topXid[x] = t /\ Assigned(x)
      BY <2>3, StateOwner DEF TodoInv, StackInv
    <3>2. ~COMMITSEQNO_IS_COMMITTED(csnlog[x])
      BY <2>1, <2>3, <3>1 DEF CsnOfInv, CsnLogInv
    <3> QED BY <2>3, <3>2, ConstantFacts DEF CSNLogPanics
  <2> QED BY <2>2, <2>3
<1> QED
  BY <1>1, Invariance, PTL

\* An entry of the CSN log that says committed or aborted never changes again.
THEOREM CsnLogIsFinal == Spec => CsnLogFinal
<1>1. IInv /\ [Next]_vars =>
        [\A x \in Xids :
           (COMMITSEQNO_IS_COMMITTED(csnlog[x])
              \/ COMMITSEQNO_IS_ABORTED(csnlog[x]))
           => csnlog'[x] = csnlog[x]]_vars
  BY NextInv DEF Monotone
<1> QED
  BY <1>1, Invariance, PTL DEF Spec, CsnLogFinal

\* No step adds a transaction to a snapshot that is held, or removes one.
THEOREM SnapshotIsRepeatable == Spec => SnapshotRepeatable
<1>1. IInv /\ [Next]_vars =>
        [\A r \in Readers, i \in Snaps, x \in Xids :
          (snap[r][i].csn # 0 /\ snap'[r][i] = snap[r][i])
          => (InSnapshot(x, snap[r][i].csn)' <=> InSnapshot(x, snap[r][i].csn))]_vars
  <2> SUFFICES ASSUME IInv, Monotone, NEW r \in Readers, NEW i \in Snaps,
                      NEW x \in Xids, snap'[r][i] = snap[r][i]
               PROVE  InSnapshot(x, snap[r][i].csn)' <=>
                      InSnapshot(x, snap[r][i].csn)
    BY NextInv
  <2>1. /\ snap[r][i].csn <= nextCommitSeqNo /\ snap[r][i].csn \in Nat
        /\ nextCommitSeqNo \in Nat /\ csnOf[x] \in Nat
    BY DEF IInv, ReaderInv, SnapInv, TypeOK, ReaderTypeOK, XactTypeOK
  <2> QED BY <2>1 DEF Monotone, InSnapshot
<1> QED
  BY <1>1, Invariance, PTL DEF Spec, SnapshotRepeatable

-----------------------------------------------------------------------------
(***************************************************************************)
(* A transaction commits as a whole: no subtransaction that was released   *)
(* is lost on its way up to the top-level transaction.  The proof follows  *)
(* the sessions once more, one lemma per group of actions, on top of the   *)
(* invariant.                                                              *)
(***************************************************************************)


\* What every step of a session keeps: an aborted CSN log entry stays aborted.
LEMMA AbortedStays ==
  ASSUME Monotone, NEW x \in Xids, COMMITSEQNO_IS_ABORTED(csnlog[x])
  PROVE  COMMITSEQNO_IS_ABORTED(csnlog'[x])
BY DEF Monotone

\* A new top-level transaction is an open state of its own; so is a new
\* subtransaction.
LEMMA AssignWhole ==
  ASSUME XactTypeOK, XactInv, WholeInv, Monotone, XactInv',
         NEW t \in Xids, AssignTransactionId \/ AssignSubTransactionId(t)
  PROVE  WholeInv'
<1> USE DEF XactInv
<1>1. /\ nextXid \in Xids /\ ~Assigned(nextXid) /\ nextXid' = nextXid + 1
      /\ xactLocks' = xactLocks \cup {nextXid}
      /\ UNCHANGED <<clog, childXids, todo, csnOf>>
      /\ \A x \in Xids : x # nextXid => topXid'[x] = topXid[x]
      /\ topXid'[nextXid] \in Xids
      /\ \A x \in Xids : x # nextXid => pc'[x] = pc[x]
  <2>1. nextXid \in Xids /\ ~Assigned(nextXid)
    BY MaxXidAssumption
    DEF AssignTransactionId, AssignSubTransactionId, BoundsInv, Xids, XactTypeOK,
        Assigned
  <2>2. CASE AssignTransactionId
    BY <2>1, <2>2 DEF AssignTransactionId, XactTypeOK
  <2>3. CASE AssignSubTransactionId(t)
    BY <2>1, <2>3 DEF AssignSubTransactionId, XactTypeOK
  <2> QED BY <2>2, <2>3
<1>2. AccountedInv'
  <2> SUFFICES ASSUME NEW x \in Xids, Assigned(x)',
                      pc'[topXid'[x]] \in {"active", "marking", "aborting"}
               PROVE  RolledBack(x)' \/ \E y \in xactLocks' : x \in Tree(y)'
    BY DEF AccountedInv
  <2>1. CASE x = nextXid
    BY <1>1, <2>1 DEF Tree
  <2>2. CASE x # nextXid
    <3>1. Assigned(x) /\ topXid[x] \in Xids /\ Assigned(topXid[x])
      BY <1>1, <2>2, XidsNat DEF Assigned, OwnerInv, XactTypeOK
    <3>2. RolledBack(x) \/ \E y \in xactLocks : x \in Tree(y)
      BY <1>1, <2>2, <3>1 DEF WholeInv, AccountedInv
    <3> QED BY <1>1, <3>2, AbortedStays DEF RolledBack, Tree
  <2> QED BY <2>1, <2>2
<1>3. AbortedWholeInv'
  <2> SUFFICES ASSUME NEW s \in Xids, pc'[s] = "aborting"
               PROVE  AbortedWholeInv!(s)'
    BY DEF AbortedWholeInv
  <2>1. s # nextXid /\ pc[s] = "aborting" /\ cur'[s] = cur[s]
    BY <1>1 DEF AssignTransactionId, AssignSubTransactionId, XactTypeOK,
       UnassignedInv
  <2>2. \A x \in Tree(cur[s]) : x \in Xids
    BY <2>1, StateOwner DEF StackInv
  <2> QED BY <1>1, <2>1, <2>2, AbortedStays DEF WholeInv, AbortedWholeInv, Tree
<1>4. TreeCommitsWhole'
  <2> SUFFICES ASSUME NEW x \in Xids, topXid'[x] \in Xids,
                      csnOf[topXid'[x]] # 0
               PROVE  csnOf[x] = csnOf[topXid'[x]] \/ RolledBack(x)'
    BY <1>1 DEF TreeCommitsWhole
  <2>1. x # nextXid
    BY <1>1 DEF AssignTransactionId, AssignSubTransactionId, XactTypeOK,
       UnassignedInv, CsnOfInv, OwnerInv
  <2> QED BY <1>1, <2>1, AbortedStays DEF WholeInv, TreeCommitsWhole, RolledBack
<1> QED
  BY <1>2, <1>3, <1>4 DEF WholeInv

\* Releasing a savepoint hands its whole tree to the state below it.
LEMMA CommitSubWhole ==
  ASSUME XactTypeOK, XactInv, WholeInv, Monotone, XactInv',
         NEW t \in Xids, CommitSubTransaction(t)
  PROVE  WholeInv'
<1> USE DEF XactInv
<1>1. PICK s \in Xids, p \in Xids :
         /\ s = cur[t] /\ p = parent[s]
         /\ s \in xactLocks /\ s # t /\ topXid[s] = t /\ pc[t] = "active"
         /\ p \in xactLocks /\ p # s /\ topXid[p] = t
  BY XidsNat DEF CommitSubTransaction, StackInv, XactTypeOK
<1>2. /\ childXids' = [childXids EXCEPT ![p] = @ \cup {s} \cup childXids[s],
                                        ![s] = {}]
      /\ xactLocks' = xactLocks \ {s}
      /\ UNCHANGED <<nextXid, topXid, csnlog, clog, pc, todo, csnOf>>
      /\ cur' = [cur EXCEPT ![t] = p]
  BY <1>1 DEF CommitSubTransaction, logVars, sessVars
<1>3. /\ Tree(p)' = Tree(p) \cup Tree(s) /\ p \in xactLocks'
      /\ \A y \in xactLocks : y # p /\ y # s => Tree(y)' = Tree(y)
  <2>1. childXids'[p] = childXids[p] \cup {s} \cup childXids[s]
    BY <1>1, <1>2 DEF XactTypeOK
  <2>2. \A y \in xactLocks : y # p /\ y # s => childXids'[y] = childXids[y]
    BY <1>1, <1>2 DEF XactTypeOK
  <2> QED BY <1>1, <1>2, <2>1, <2>2 DEF Tree
<1>4. AccountedInv'
  <2> SUFFICES ASSUME NEW x \in Xids, Assigned(x),
                      pc[topXid[x]] \in {"active", "marking", "aborting"}
               PROVE  RolledBack(x)' \/ \E y \in xactLocks' : x \in Tree(y)'
    BY <1>2 DEF AccountedInv, Assigned
  <2>1. CASE RolledBack(x)
    BY <1>2, <2>1 DEF RolledBack
  <2>2. CASE \E y \in xactLocks : x \in Tree(y)
    BY <1>2, <1>3, <2>2
  <2> QED BY <2>1, <2>2 DEF WholeInv, AccountedInv
<1>5. AbortedWholeInv'
  <2> SUFFICES ASSUME NEW u \in Xids, pc[u] = "aborting"
               PROVE  AbortedWholeInv!(u)'
    BY <1>2 DEF AbortedWholeInv
  <2>1. u # t /\ cur'[u] = cur[u] /\ cur[u] \in xactLocks /\ topXid[cur[u]] = u
    BY <1>1, <1>2 DEF StackInv, XactTypeOK
  <2>2. \A x : x \in Tree(cur[u])' <=> x \in Tree(cur[u])
    BY <1>1, <1>3, <2>1 DEF Tree
  <2> QED BY <1>2, <2>1, <2>2 DEF WholeInv, AbortedWholeInv
<1>6. TreeCommitsWhole'
  BY <1>2 DEF WholeInv, TreeCommitsWhole, RolledBack
<1> QED
  BY <1>4, <1>5, <1>6 DEF WholeInv

\* Steps that leave trees, locks and the commit log alone: the writes to the
\* CSN log and the withdrawal from the proc array.
LEMMA LogWriteWhole ==
  ASSUME XactTypeOK, XactInv, WholeInv, Monotone, NEW t \in Xids,
         \/ SetXact2CommitInProgress(t) \/ MarkCommitInProgress(t)
         \/ StampCommitCsn(t) \/ MarkAborted(t) \/ ProcArrayEndTransaction(t)
  PROVE  WholeInv'
<1> USE DEF XactInv
<1> DEFINE U == UNCHANGED <<nextXid, topXid, xactLocks, childXids, cur, clog,
                            csnOf>>
           P == \A u \in Xids : \/ pc'[u] = pc[u]
                                \/ pc[u] = "active" /\ pc'[u] = "marking"
                                \/ pc'[u] = "ended"
           T == \A u \in Xids : pc'[u] = "aborting" => todo'[u] = todo[u]
<1>1. /\ U /\ P
      /\ \/ T
         \/ MarkAborted(t) /\ \A u \in Xids \ {t} : todo'[u] = todo[u]
  <2>1. CASE SetXact2CommitInProgress(t)
    <3>1. /\ pc[t] = "active" /\ pc' = [pc EXCEPT ![t] = "marking"]
          /\ todo' = [todo EXCEPT ![t] = Tree(t)] /\ U
      BY <2>1 DEF SetXact2CommitInProgress, shmemVars, treeVars, logVars
    <3> QED BY <3>1 DEF XactTypeOK
  <2>2. CASE MarkCommitInProgress(t) \/ StampCommitCsn(t)
    <3>1. /\ pc[t] # "aborting" /\ pc' = pc /\ U
          /\ \E x \in todo[t] : todo' = [todo EXCEPT ![t] = @ \ {x}]
      BY <2>2 DEF MarkCommitInProgress, StampCommitCsn, shmemVars, treeVars
    <3> QED BY <3>1 DEF XactTypeOK
  <2>3. CASE MarkAborted(t)
    <3>1. pc' = pc /\ U /\ \E x \in todo[t] : todo' = [todo EXCEPT ![t] = @ \ {x}]
      BY <2>3 DEF MarkAborted, shmemVars, treeVars
    <3>2. \A u \in Xids \ {t} : todo'[u] = todo[u]
      BY <3>1 DEF XactTypeOK
    <3> QED BY <2>3, <3>1, <3>2
  <2>4. CASE ProcArrayEndTransaction(t)
    <3>1. pc' = [pc EXCEPT ![t] = "ended"] /\ todo' = todo /\ U
      BY <2>4 DEF ProcArrayEndTransaction, treeVars, logVars
    <3> QED BY <3>1 DEF XactTypeOK
  <2> QED BY <2>1, <2>2, <2>3, <2>4
<1>2. AccountedInv'
  <2> SUFFICES ASSUME NEW x \in Xids, Assigned(x),
                      pc'[topXid[x]] \in {"active", "marking", "aborting"}
               PROVE  RolledBack(x)' \/ \E y \in xactLocks : x \in Tree(y)
    BY <1>1 DEF AccountedInv, Assigned, Tree
  <2>1. pc[topXid[x]] \in {"active", "marking", "aborting"}
    BY <1>1 DEF OwnerInv
  <2>2. CASE RolledBack(x)
    BY <1>1, <2>2, AbortedStays DEF RolledBack
  <2> QED BY <2>1, <2>2 DEF WholeInv, AccountedInv
<1>3. AbortedWholeInv'
  <2> SUFFICES ASSUME NEW u \in Xids, pc'[u] = "aborting",
                      NEW x \in Tree(cur[u])
               PROVE  /\ clog[x] = "aborted"
                      /\ x \in todo'[u] \/ COMMITSEQNO_IS_ABORTED(csnlog'[x])
    BY <1>1 DEF AbortedWholeInv, Tree
  <2>1. pc[u] = "aborting"
    BY <1>1
  <2>2. x \in Xids
    BY <2>1, StateOwner DEF StackInv
  <2>3. /\ clog[x] = "aborted"
        /\ x \in todo[u] \/ COMMITSEQNO_IS_ABORTED(csnlog[x])
    BY <2>1 DEF WholeInv, AbortedWholeInv
  <2>4. CASE todo'[u] = todo[u]
    BY <2>2, <2>3, <2>4, AbortedStays
  <2>5. CASE u = t /\ MarkAborted(t)
    <3>1. PICK w \in todo[t] : MarkAborted(t)!(w)
      BY <2>5 DEF MarkAborted
    <3>2. w \in Xids /\ csnlog[w] \in CommitSeqNo
      BY DEF XactTypeOK
    <3>3. csnlog'[w] = CSNLogSetCSN(csnlog[w], COMMITSEQNO_ABORTED)
      BY <3>1, <3>2 DEF XactTypeOK
    <3>4. COMMITSEQNO_IS_ABORTED(csnlog'[w])
      BY <3>2, <3>3, SetCsnFacts, ConstantFacts
    <3>5. todo'[t] = todo[t] \ {w}
      BY <3>1 DEF XactTypeOK
    <3> QED BY <2>2, <2>3, <2>5, <3>4, <3>5, AbortedStays
  <2> QED BY <1>1, <2>3, <2>4, <2>5
<1>4. TreeCommitsWhole'
  BY <1>1, AbortedStays DEF WholeInv, TreeCommitsWhole, RolledBack
<1> QED
  BY <1>2, <1>3, <1>4 DEF WholeInv

\* The CSN goes to the tree of the top-level state, which by now accounts for
\* everything that was not rolled back.
LEMMA NextCsnWhole ==
  ASSUME XactTypeOK, XactInv, WholeInv, NEW t \in Xids, GetLocalNextCSN(t)
  PROVE  WholeInv'
<1> USE DEF XactInv
<1>1. /\ pc[t] = "marking" /\ pc' = [pc EXCEPT ![t] = "sequenced"]
      /\ csnOf' = [x \in Xids |-> IF x \in Tree(t) THEN nextCommitSeqNo
                                  ELSE csnOf[x]]
      /\ UNCHANGED <<nextXid, topXid, xactLocks, childXids, cur, csnlog, clog,
                     todo>>
  BY DEF GetLocalNextCSN, logVars, treeVars
<1>2. /\ topXid[t] = t /\ Assigned(t)
      /\ \A x \in Tree(t) : x \in Xids /\ topXid[x] = t
  BY <1>1, TreeOwner DEF Tree
<1>3. AccountedInv'
  BY <1>1 DEF WholeInv, AccountedInv, RolledBack, Assigned, Tree, OwnerInv,
     XactTypeOK
<1>4. AbortedWholeInv'
  BY <1>1 DEF WholeInv, AbortedWholeInv, Tree, XactTypeOK
<1>5. TreeCommitsWhole'
  <2> SUFFICES ASSUME NEW x \in Xids, topXid[x] \in Xids,
                      csnOf'[topXid[x]] # 0
               PROVE  csnOf'[x] = csnOf'[topXid[x]] \/ RolledBack(x)
    BY <1>1 DEF TreeCommitsWhole, RolledBack
  <2>1. Assigned(x) /\ topXid[topXid[x]] = topXid[x]
    BY XidsNat DEF UnassignedInv, OwnerInv, InvalidTransactionId
  <2>2. CASE topXid[x] = t
    <3>1. RolledBack(x) \/ \E y \in xactLocks : x \in Tree(y)
      BY <1>1, <2>1, <2>2 DEF WholeInv, AccountedInv
    <3>2. ASSUME NEW y \in xactLocks, x \in Tree(y) PROVE y = t
      BY <1>1, <2>2, <3>2, StateOwner DEF StackInv
    <3>3. t \in Tree(t)
      BY DEF Tree
    <3> QED BY <1>1, <2>2, <3>1, <3>2, <3>3
  <2>3. CASE topXid[x] # t
    <3>1. x \notin Tree(t) /\ topXid[x] \notin Tree(t)
      BY <1>2, <2>1, <2>3
    <3> QED BY <1>1, <3>1 DEF WholeInv, TreeCommitsWhole
  <2> QED BY <2>2, <2>3
<1> QED
  BY <1>3, <1>4, <1>5 DEF WholeInv

\* The commit log is set for exactly the xids that share the CSN.
LEMMA CommitTreeWhole ==
  ASSUME XactTypeOK, XactInv, WholeInv, NEW t \in Xids, CommitTree(t)
  PROVE  WholeInv'
<1> USE DEF XactInv
<1>1. /\ pc[t] = "sequenced" /\ pc' = [pc EXCEPT ![t] = "stamping"]
      /\ clog' = [x \in Xids |-> IF x \in Tree(t) THEN "committed" ELSE clog[x]]
      /\ todo' = [todo EXCEPT ![t] = Tree(t)]
      /\ UNCHANGED <<nextXid, topXid, xactLocks, childXids, cur, csnlog, csnOf>>
  BY DEF CommitTree, shmemVars, treeVars
<1>2. /\ topXid[t] = t
      /\ \A x \in Tree(t) : x \in Xids /\ Assigned(x) /\ topXid[x] = t
  BY <1>1, TreeOwner
<1>3. AccountedInv'
  <2> SUFFICES ASSUME NEW x \in Xids, Assigned(x),
                      pc'[topXid[x]] \in {"active", "marking", "aborting"}
               PROVE  RolledBack(x)' \/ \E y \in xactLocks : x \in Tree(y)
    BY <1>1 DEF AccountedInv, Assigned, Tree
  <2>1. topXid[x] # t /\ pc[topXid[x]] \in {"active", "marking", "aborting"}
    BY <1>1 DEF OwnerInv, XactTypeOK
  <2>2. clog'[x] = clog[x]
    BY <1>1, <1>2, <2>1
  <2>3. RolledBack(x)' <=> RolledBack(x)
    BY <1>1, <2>2 DEF RolledBack
  <2> QED BY <2>1, <2>3 DEF WholeInv, AccountedInv
<1>4. AbortedWholeInv'
  <2> SUFFICES ASSUME NEW u \in Xids, pc'[u] = "aborting",
                      NEW x \in Tree(cur[u])
               PROVE  /\ clog'[x] = "aborted"
                      /\ x \in todo'[u] \/ COMMITSEQNO_IS_ABORTED(csnlog[x])
    BY <1>1 DEF AbortedWholeInv, Tree
  <2>1. u # t /\ pc[u] = "aborting" /\ todo'[u] = todo[u]
    BY <1>1 DEF XactTypeOK
  <2>2. x \in Xids /\ topXid[x] = u
    BY <2>1, StateOwner DEF StackInv
  <2> QED BY <1>1, <1>2, <2>1, <2>2 DEF WholeInv, AbortedWholeInv
<1>5. TreeCommitsWhole'
  <2> SUFFICES ASSUME NEW x \in Xids, topXid[x] \in Xids, csnOf[topXid[x]] # 0
               PROVE  csnOf[x] = csnOf[topXid[x]] \/ RolledBack(x)'
    BY <1>1 DEF TreeCommitsWhole
  <2>1. CASE x \in Tree(t)
    <3>1. t \in Tree(t)
      BY DEF Tree
    <3> QED BY <1>1, <1>2, <2>1, <3>1 DEF CsnOfInv
  <2>2. CASE x \notin Tree(t)
    BY <1>1, <2>2 DEF WholeInv, TreeCommitsWhole, RolledBack
  <2> QED BY <2>1, <2>2
<1> QED
  BY <1>3, <1>4, <1>5 DEF WholeInv

\* The commit log of an aborting tree is written before its CSN log entries.
LEMMA AbortTreeWhole ==
  ASSUME XactTypeOK, XactInv, WholeInv, NEW t \in Xids, AbortTree(t)
  PROVE  WholeInv'
<1> USE DEF XactInv
<1>1. /\ pc[t] = "active" /\ pc' = [pc EXCEPT ![t] = "aborting"]
      /\ clog' = [x \in Xids |-> IF x \in Tree(cur[t]) THEN "aborted"
                                 ELSE clog[x]]
      /\ todo' = [todo EXCEPT ![t] = Tree(cur[t])]
      /\ UNCHANGED <<nextXid, topXid, xactLocks, childXids, cur, csnlog, csnOf>>
  BY DEF AbortTree, shmemVars, treeVars
<1>2. \A x \in Xids : RolledBack(x) => RolledBack(x)'
  BY <1>1 DEF RolledBack
<1>3. AccountedInv'
  <2> SUFFICES ASSUME NEW x \in Xids, Assigned(x),
                      pc'[topXid[x]] \in {"active", "marking", "aborting"}
               PROVE  RolledBack(x)' \/ \E y \in xactLocks : x \in Tree(y)
    BY <1>1 DEF AccountedInv, Assigned, Tree
  <2>1. pc[topXid[x]] \in {"active", "marking", "aborting"}
    BY <1>1 DEF OwnerInv, XactTypeOK
  <2> QED BY <1>2, <2>1 DEF WholeInv, AccountedInv
<1>4. AbortedWholeInv'
  <2> SUFFICES ASSUME NEW u \in Xids, pc'[u] = "aborting",
                      NEW x \in Tree(cur[u])
               PROVE  /\ clog'[x] = "aborted"
                      /\ x \in todo'[u] \/ COMMITSEQNO_IS_ABORTED(csnlog[x])
    BY <1>1 DEF AbortedWholeInv, Tree
  <2>1. x \in Xids
    BY <1>1, StateOwner DEF StackInv, XactTypeOK
  <2>2. CASE u = t
    BY <1>1, <2>1, <2>2 DEF XactTypeOK
  <2>3. CASE u # t
    <3>1. pc[u] = "aborting" /\ todo'[u] = todo[u]
      BY <1>1, <2>3 DEF XactTypeOK
    <3> QED BY <1>1, <2>1, <3>1 DEF WholeInv, AbortedWholeInv
  <2> QED BY <2>2, <2>3
<1>5. TreeCommitsWhole'
  BY <1>1, <1>2 DEF WholeInv, TreeCommitsWhole
<1> QED
  BY <1>3, <1>4, <1>5 DEF WholeInv

\* A rolled back state takes only rolled back xids with it.
LEMMA AbortSubWhole ==
  ASSUME XactTypeOK, XactInv, WholeInv, NEW t \in Xids, AbortSubTransaction(t)
  PROVE  WholeInv'
<1> USE DEF XactInv
<1>1. PICK s \in Xids :
         s = cur[t] /\ s \in xactLocks /\ topXid[s] = t
  BY DEF AbortSubTransaction, StackInv, XactTypeOK
<1>2. /\ pc[t] = "aborting" /\ todo[t] = {}
      /\ childXids' = [childXids EXCEPT ![s] = {}]
      /\ xactLocks' = xactLocks \ {s}
      /\ cur' = [cur EXCEPT ![t] = parent[s]]
      /\ pc' = [pc EXCEPT ![t] = "active"]
      /\ UNCHANGED <<nextXid, topXid, csnlog, clog, todo, csnOf>>
  BY <1>1 DEF AbortSubTransaction, logVars
<1>3. \A x \in Tree(s) : RolledBack(x)
  BY <1>1, <1>2 DEF WholeInv, AbortedWholeInv, RolledBack
<1>4. \A y \in xactLocks : y # s => Tree(y)' = Tree(y)
  BY <1>1, <1>2 DEF Tree, XactTypeOK
<1>5. AccountedInv'
  <2> SUFFICES ASSUME NEW x \in Xids, Assigned(x),
                      pc'[topXid[x]] \in {"active", "marking", "aborting"}
               PROVE  RolledBack(x)' \/ \E y \in xactLocks' : x \in Tree(y)'
    BY <1>2 DEF AccountedInv, Assigned
  <2>1. pc[topXid[x]] \in {"active", "marking", "aborting"}
    BY <1>2 DEF OwnerInv, XactTypeOK
  <2>2. CASE RolledBack(x)
    BY <1>2, <2>2 DEF RolledBack
  <2>3. CASE \E y \in xactLocks : y # s /\ x \in Tree(y)
    BY <1>2, <1>4, <2>3
  <2> QED BY <1>3, <2>1, <2>2, <2>3 DEF WholeInv, AccountedInv
<1>6. AbortedWholeInv'
  <2> SUFFICES ASSUME NEW u \in Xids, pc'[u] = "aborting"
               PROVE  AbortedWholeInv!(u)'
    BY DEF AbortedWholeInv
  <2>1. u # t /\ pc[u] = "aborting" /\ cur'[u] = cur[u]
    BY <1>2 DEF XactTypeOK
  <2>2. cur[u] \in xactLocks /\ cur[u] # s
    BY <1>1, <2>1 DEF StackInv
  <2>3. \A x : x \in Tree(cur[u])' <=> x \in Tree(cur[u])
    BY <1>4, <2>1, <2>2 DEF Tree
  <2> QED BY <1>2, <2>1, <2>3 DEF WholeInv, AbortedWholeInv
<1>7. TreeCommitsWhole'
  BY <1>2 DEF WholeInv, TreeCommitsWhole, RolledBack
<1> QED
  BY <1>5, <1>6, <1>7 DEF WholeInv

\* A session that has ended gives up the lock of its top-level state only.
LEMMA ReleaseWhole ==
  ASSUME XactTypeOK, XactInv, WholeInv, NEW t \in Xids, ReleaseXactLocks(t)
  PROVE  WholeInv'
<1> USE DEF XactInv
<1>1. /\ pc[t] = "ended" /\ pc' = [pc EXCEPT ![t] = "done"]
      /\ xactLocks' = xactLocks \ {t}
      /\ UNCHANGED <<nextXid, topXid, childXids, cur, csnlog, clog, todo, csnOf>>
  BY DEF ReleaseXactLocks, logVars, treeVars
<1>2. AccountedInv'
  <2> SUFFICES ASSUME NEW x \in Xids, Assigned(x),
                      pc'[topXid[x]] \in {"active", "marking", "aborting"}
               PROVE  RolledBack(x) \/ \E y \in xactLocks' : x \in Tree(y)
    BY <1>1 DEF AccountedInv, Assigned, RolledBack, Tree
  <2>1. /\ topXid[x] # t
        /\ pc[topXid[x]] \in {"active", "marking", "aborting"}
    BY <1>1 DEF OwnerInv, XactTypeOK
  <2>2. x \notin Tree(t)
    BY <1>1, <2>1, TreeOwner
  <2> QED BY <1>1, <2>1, <2>2 DEF WholeInv, AccountedInv
<1>3. AbortedWholeInv'
  BY <1>1 DEF WholeInv, AbortedWholeInv, Tree, XactTypeOK
<1>4. TreeCommitsWhole'
  BY <1>1 DEF WholeInv, TreeCommitsWhole, RolledBack
<1> QED
  BY <1>2, <1>3, <1>4 DEF WholeInv

\* Readers change nothing but CSN log entries, and never one that is aborted.
LEMMA ReaderWhole ==
  ASSUME XactTypeOK, XactInv, WholeInv, Monotone,
         UNCHANGED <<clog, treeVars, shmemVars, sessVars>>
  PROVE  WholeInv'
<1>1. UNCHANGED <<nextXid, topXid, xactLocks, childXids, cur, clog, pc, todo,
                  csnOf>>
  BY DEF treeVars, shmemVars, sessVars
<1>2. \A x \in Xids : RolledBack(x) => RolledBack(x)'
  BY <1>1, AbortedStays DEF RolledBack
<1>3. AccountedInv'
  BY <1>1, <1>2 DEF WholeInv, AccountedInv, Assigned, Tree
<1>4. AbortedWholeInv'
  <2>1. \A t \in Xids : pc[t] = "aborting" => Tree(cur[t]) \subseteq Xids
    BY StateOwner DEF XactInv, StackInv
  <2> QED BY <1>1, <2>1, AbortedStays DEF WholeInv, AbortedWholeInv, Tree
<1>5. TreeCommitsWhole'
  BY <1>1, <1>2 DEF WholeInv, TreeCommitsWhole
<1> QED
  BY <1>3, <1>4, <1>5 DEF WholeInv

\* One step of the whole system.
LEMMA NextWhole ==
  ASSUME IInv, WholeInv, [Next]_vars
  PROVE  WholeInv'
<1>1. XactTypeOK /\ XactInv /\ XactInv' /\ Monotone
  BY NextInv DEF IInv, TypeOK
<1>2. CASE XactNext
  <2>1. CASE AssignTransactionId
    <3>1. PICK t \in Xids : TRUE
      BY <1>1, <2>1, MaxXidAssumption
      DEF AssignTransactionId, XactInv, BoundsInv, Xids, XactTypeOK
    <3> QED BY <1>1, <2>1, <3>1, AssignWhole
  <2>2. ASSUME NEW t \in Xids,
               \/ AssignSubTransactionId(t) \/ CommitSubTransaction(t)
               \/ SetXact2CommitInProgress(t) \/ AbortTree(t)
        PROVE  WholeInv'
    BY <1>1, <2>2, AssignWhole, CommitSubWhole, LogWriteWhole, AbortTreeWhole
  <2>3. ASSUME NEW t \in Xids, Finish(t) PROVE WholeInv'
    BY <1>1, <2>3, LogWriteWhole, NextCsnWhole, CommitTreeWhole, AbortSubWhole,
       ReleaseWhole DEF Finish
  <2> QED BY <1>2, <2>1, <2>2, <2>3 DEF XactNext
<1>3. CASE UNCHANGED <<clog, treeVars, shmemVars, sessVars>>
  BY <1>1, <1>3, ReaderWhole
<1>4. ASSUME NEW r \in Readers, ReaderNext(r)
      PROVE  UNCHANGED <<clog, treeVars, shmemVars, sessVars>>
  <2>1. UNCHANGED xactVars => UNCHANGED <<clog, treeVars, shmemVars, sessVars>>
    BY DEF xactVars, treeVars, shmemVars, sessVars
  <2>2. CASE ReaderProgress(r) \/ SyncWaitTimeout(r)
    BY <2>1, <2>2 DEF ReaderProgress, SyncWaitTimeout, ReadSnapshotCsn,
       SyncWaitXidEnd, RecheckXid
  <2>3. ASSUME NEW i \in Snaps, GetLocalSnapshotData(r, i) \/ ScanProcArray(r, i)
        PROVE  UNCHANGED <<clog, treeVars, shmemVars, sessVars>>
    BY <2>1, <2>3 DEF GetLocalSnapshotData, ScanProcArray
  <2>4. ASSUME NEW i \in Snaps, NEW x \in Tuples,
               \/ HintDecides(r, i, x) \/ CheckXid(r, i, x)
               \/ CheckXidWaits(r, i, x) \/ CheckXidAssumes(r, i, x)
        PROVE  UNCHANGED <<clog, treeVars, shmemVars, sessVars>>
    BY <2>1, <2>4 DEF HintDecides, CheckXid, CheckXidWaits, CheckXidAssumes,
       StartsCheck
  <2> QED BY <1>4, <2>2, <2>3, <2>4 DEF ReaderNext
<1>5. UNCHANGED vars => UNCHANGED <<clog, treeVars, shmemVars, sessVars>>
  BY DEF vars, xactVars, treeVars, shmemVars, sessVars
<1> QED
  BY <1>2, <1>3, <1>4, <1>5 DEF Next

\* A transaction that has drawn a CSN has drawn it for every one of its
\* subtransactions that was not rolled back (AtSubCommit_childXids loses none),
\* for any number of xids and any nesting of savepoints.
THEOREM TreeCommitsAsAWhole == Spec => []TreeCommitsWhole
<1>1. Init => WholeInv
  <2> SUFFICES ASSUME XactInit PROVE WholeInv
    BY DEF Init
  <2>1. \A x \in Xids : ~Assigned(x) /\ pc[x] = "none" /\ csnOf[x] = 0
    BY XidsNat DEF XactInit, Assigned, FirstNormalTransactionId
  <2>2. AccountedInv /\ TreeCommitsWhole
    BY <2>1 DEF AccountedInv, TreeCommitsWhole
  <2>3. AbortedWholeInv
    BY <2>1 DEF AbortedWholeInv
  <2> QED BY <2>2, <2>3 DEF WholeInv
<1>2. IInv /\ WholeInv /\ [Next]_vars => WholeInv'
  BY NextWhole
<1>3. WholeInv => TreeCommitsWhole
  BY DEF WholeInv
<1> QED
  BY <1>1, <1>2, <1>3, Invariance, PTL DEF Spec

=============================================================================
