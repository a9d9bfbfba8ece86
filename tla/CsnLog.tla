------------------------------- MODULE CsnLog -------------------------------
(***************************************************************************)
(* The CSN log of csnlog.cpp: one commit sequence number per transaction   *)
(* id.  The 64-bit word of the code carries two flag bits (bit 63, "this   *)
(* is a subtransaction, the rest is its parent", and bit 62, "commit in    *)
(* progress"); an entry here is a record whose kind names the combination  *)
(* of the two bits and whose val is the masked number: a CSN, or a parent  *)
(* transaction id when the subtransaction bit is set.                      *)
(***************************************************************************)
EXTENDS Naturals

InvalidTransactionId == 0
FirstNormalTransactionId == 3

COMMITSEQNO_FIRST_NORMAL == 3

\* The four combinations of the two flag bits.
CsnKinds == {"plain", "committing", "subtrans", "subcommitting"}

CommitSeqNo == [kind : CsnKinds, val : Nat]

\* An entry with neither flag bit.
PlainCsn(n) == [kind |-> "plain", val |-> n]

COMMITSEQNO_INPROGRESS == PlainCsn(0)
COMMITSEQNO_ABORTED == PlainCsn(1)
COMMITSEQNO_FROZEN == PlainCsn(2)

COMMITSEQNO_IS_COMMITTED(c) ==
    c.kind = "plain" /\ c.val >= 2

COMMITSEQNO_IS_ABORTED(c) ==
    c = COMMITSEQNO_ABORTED

COMMITSEQNO_IS_COMMITTING(c) ==
    c.kind \in {"committing", "subcommitting"}

COMMITSEQNO_IS_SUBTRANS(c) ==
    c.kind \in {"subtrans", "subcommitting"}

(***************************************************************************)
(* What CSNLogSetPageStatus asks to be written for xid, when the commit of *)
(* the tree of topxid is announced with the CSN counter at latestCSN: the  *)
(* top transaction keeps latestCSN, a child points at the top transaction. *)
(***************************************************************************)
CommitInProgressCsn(xid, topxid, latestCSN) ==
    IF xid = topxid
    THEN [kind |-> "committing", val |-> latestCSN]
    ELSE [kind |-> "subcommitting", val |-> topxid]

\* SubTransSetParent's word for a subtransaction that has just got its xid.
SubTransCsn(parentXid) == [kind |-> "subtrans", val |-> parentXid]

\* CSNLogSetCSN stops the server with a PANIC on these two changes ...
CSNLogPanics(old, new) ==
    \/ COMMITSEQNO_IS_COMMITTED(old) /\ COMMITSEQNO_IS_ABORTED(new)
    \/ COMMITSEQNO_IS_ABORTED(old) /\ COMMITSEQNO_IS_COMMITTED(new)

\* ... and otherwise overwrites anything but an aborted entry.
CSNLogSetCSN(old, new) ==
    IF COMMITSEQNO_IS_ABORTED(old) THEN old ELSE new

=============================================================================
