-------------------------------- MODULE SInval --------------------------------
(***************************************************************************)
(* The users of the shared invalidation queue (sinval.cpp, inval.cpp).  A  *)
(* transaction that changed the catalog entry of a relation sends a        *)
(* message after it has become visible; AcceptInvalidationMessages makes   *)
(* a backend rebuild what it has cached.  A rebuild opens catalogs, which  *)
(* calls AcceptInvalidationMessages again: the messages that were read and *)
(* not yet processed are then processed by the inner call, which skips     *)
(* relations it has seen since the outermost call began (rcData).          *)
(*                                                                         *)
(* Two history variables: stale, the relations whose cached entry was read *)
(* before the last change to the catalog, and skipped, those a message was *)
(* skipped for since their entry was read.  A rebuild reads the catalog    *)
(* when the calls inside it are over (relcache.cpp starts over if one of   *)
(* them invalidated the entry).                                            *)
(***************************************************************************)
EXTENDS SInvalAdt

CONSTANTS
    RC_MAX_NUM,     \* relations remembered for the skipping
    Committers,     \* bound: slots whose transactions change the catalog
    Accepters,      \* bound: slots whose backend looks for messages
    Sends,          \* bound: the lists of messages a transaction sends
    MaxDepth        \* bound: nesting of AcceptInvalidationMessages

ASSUME BoundAssumption ==
    MaxDepth \in Nat \ {0} /\ Sends \subseteq Seq(Rels)

VARIABLES
    stack,          \* the invalFunction and resetFunction calls under way
    rcData,         \* t_thrd.rc_cxt.rcData
    stale, skipped

adtVars == <<procStateVars, segVars, slotVars, buffer, writeLock, readers, pc,
             writerVars, readerVars, catchupInterruptPending>>
histVars == <<stale, skipped>>
cacheVars == <<stack, rcData, histVars>>
vars == <<adtVars, cacheVars>>

\* A call of invalFunction or resetFunction: where from, for which relation, and
\* whether it has called AcceptInvalidationMessages.
Frames == [at : {"pending", "loop"}, rel : Rels, nested : BOOLEAN]
             \cup [at : {"reset"}, rel : {NoMsg}, nested : BOOLEAN]

Push(s, from, r) ==
    stack' = [stack EXCEPT ![s] = Append(@, [at |-> from, rel |-> r, nested |-> FALSE])]
Top(s) == stack[s][Len(stack[s])]

\* The thread leaves the queue alone.
LocalStep(s, label) ==
    /\ Goto(s, label)
    /\ UNCHANGED <<procStateVars, segVars, slotVars, buffer, writeLock, readers,
                   writerVars, maxRead>>

-----------------------------------------------------------------------------
(***************************************************************************)
(* CommitTransaction: the change to the catalog becomes visible when the   *)
(* transaction leaves the proc array; AtEOXact_Inval sends the messages    *)
(* behind that.  Everybody else's entry is out of date from here on.       *)
(***************************************************************************)
AtEOXact_Inval(s, rels) ==
    /\ pc[s] = "idle"
    /\ s \in Committers
    /\ Goto(s, "w_lock")
    /\ left' = [left EXCEPT ![s] = rels]
    /\ stale' = [t \in Slots |->
          IF t # s /\ active[t] /\ t \notin SendOnly
          THEN stale[t] \cup {rels[i] : i \in DOMAIN rels} ELSE stale[t]]
    /\ UNCHANGED <<procStateVars, segVars, slotVars, buffer, writeLock, readers,
                   kick, sigTo, readerVars, catchupInterruptPending>>
    /\ UNCHANGED <<stack, rcData, skipped>>

-----------------------------------------------------------------------------
(* AcceptInvalidationMessages, ReceiveSharedInvalidMessages                *)

AcceptInvalidationMessages(s) ==
    /\ pc[s] = "idle"
    /\ s \in Accepters \ SendOnly
    /\ rcData' = [rcData EXCEPT ![s] = {}]
    /\ LocalStep(s, "r_pending")
    /\ UNCHANGED <<messages, nummsgs, catchupInterruptPending, stack, histVars>>

\* SkipRedundantInvalMsg: a message about a relation that is remembered.
SkipRedundantInvalMsg(s) == Head(messages[s]) \in rcData[s]

\* Messages still pending from an outer call, if there is one.
SkipPending(s) ==
    /\ pc[s] = "r_pending"
    /\ messages[s] # <<>>
    /\ SkipRedundantInvalMsg(s)
    /\ messages' = [messages EXCEPT ![s] = Tail(@)]
    /\ skipped' = [skipped EXCEPT ![s] = @ \cup {Head(messages[s])}]
    /\ LocalStep(s, "r_pending")
    /\ UNCHANGED <<nummsgs, catchupInterruptPending, stack, rcData, stale>>

ProcessPending(s) ==
    /\ pc[s] = "r_pending"
    /\ messages[s] # <<>>
    /\ ~SkipRedundantInvalMsg(s)
    /\ rcData' = [rcData EXCEPT ![s] =
          (IF Cardinality(@) >= RC_MAX_NUM THEN {} ELSE @) \cup {Head(messages[s])}]
    /\ Push(s, "pending", Head(messages[s]))
    /\ messages' = [messages EXCEPT ![s] = Tail(@)]
    /\ LocalStep(s, "r_inval")
    /\ UNCHANGED <<nummsgs, catchupInterruptPending, histVars>>

\* Mutant: the call starts afresh, whatever an outer call has read.
NonePending_StartsAfresh(s) ==
    /\ pc[s] = "r_pending"
    /\ messages' = [messages EXCEPT ![s] = <<>>]
    /\ nummsgs' = [nummsgs EXCEPT ![s] = 0]
    /\ LocalStep(s, "r_test")
    /\ UNCHANGED <<catchupInterruptPending, cacheVars>>

NonePending(s) ==
    /\ pc[s] = "r_pending"
    /\ messages[s] = <<>>
    /\ nummsgs' = [nummsgs EXCEPT ![s] = 0]
    /\ LocalStep(s, "r_test")
    /\ UNCHANGED <<messages, catchupInterruptPending, cacheVars>>

\* The next of the messages just read; a call inside may have eaten some.
ProcessNext(s) ==
    /\ pc[s] = "r_loop"
    /\ messages[s] # <<>>
    /\ Push(s, "loop", Head(messages[s]))
    /\ messages' = [messages EXCEPT ![s] = Tail(@)]
    /\ LocalStep(s, "r_inval")
    /\ UNCHANGED <<nummsgs, catchupInterruptPending, rcData, histVars>>

\* Another round only if the last read, of whichever call, filled the array.
LoopEnd(s) ==
    /\ pc[s] = "r_loop"
    /\ messages[s] = <<>>
    /\ LocalStep(s, IF nummsgs[s] = MAXINVALMSGS THEN "r_test" ELSE "r_end")
    /\ nummsgs' = [nummsgs EXCEPT ![s] = 0]
    /\ UNCHANGED <<messages, catchupInterruptPending, cacheVars>>

\* A reset: resetFunction is called.
ReceiveReset(s) ==
    /\ GetReset(s)
    /\ Push(s, "reset", NoMsg)
    /\ UNCHANGED <<rcData, histVars>>

\* The rebuild opens a catalog and calls AcceptInvalidationMessages.
Recurse(s) ==
    /\ pc[s] = "r_inval"
    /\ ~Top(s).nested
    /\ Len(stack[s]) < MaxDepth
    /\ stack' = [stack EXCEPT ![s][Len(stack[s])].nested = TRUE]
    /\ LocalStep(s, "r_pending")
    /\ UNCHANGED <<messages, nummsgs, catchupInterruptPending, rcData, histVars>>

\* The entry, or with resetFunction every entry, is read from the catalog.
Rebuild(s) ==
    /\ pc[s] = "r_inval"
    /\ LET fresh == IF Top(s).at = "reset" THEN Rels ELSE {Top(s).rel}
       IN /\ stale' = [stale EXCEPT ![s] = @ \ fresh]
          /\ skipped' = [skipped EXCEPT ![s] = @ \ fresh]
    /\ stack' = [stack EXCEPT ![s] = SubSeq(@, 1, Len(@) - 1)]
    /\ LocalStep(s, CASE Top(s).at = "pending" -> "r_pending"
                      [] Top(s).at = "loop" -> "r_loop"
                      [] Top(s).at = "reset" -> "r_end")
    /\ UNCHANGED <<messages, nummsgs, catchupInterruptPending, rcData>>

\* Back to the rebuild that called, or to the backend's own work.
Caller(s) == IF stack[s] = <<>> THEN "idle" ELSE "r_inval"

ReceiveEnd(s) ==
    /\ pc[s] = "r_end"
    /\ ~catchupInterruptPending[s]
    /\ LocalStep(s, Caller(s))
    /\ UNCHANGED <<messages, nummsgs, catchupInterruptPending, cacheVars>>

\* Caught up after a signal: the queue is cleaned, to pass the signal on.
CatchupComplete(s) ==
    /\ pc[s] = "r_end"
    /\ catchupInterruptPending[s]
    /\ catchupInterruptPending' = [catchupInterruptPending EXCEPT ![s] = FALSE]
    /\ LocalStep(s, "c_lock")
    /\ UNCHANGED <<messages, nummsgs, cacheVars>>

CatchupLock(s) == pc[s] = "c_lock" /\ AcquireWriteLock(s, "c_clean")
CatchupCleanup(s) == pc[s] = "c_clean" /\ SICleanupQueue(s, 0, Caller(s))
CatchupSignal(s) == pc[s] = "c_signal" /\ SendCatchupSignal(s, Caller(s))

-----------------------------------------------------------------------------
(* The specification                                                       *)

Init ==
    /\ AdtInit
    /\ stack = [s \in Slots |-> <<>>]
    /\ rcData = [s \in Slots |-> {}]
    /\ stale = [s \in Slots |-> {}]
    /\ skipped = [s \in Slots |-> {}]

\* A new thread or session has nothing cached.
Attach(s) ==
    /\ SharedInvalReserveBackendInit(s) \/ SharedInvalWorkSessionInit(s)
    /\ rcData' = [rcData EXCEPT ![s] = {}]
    /\ UNCHANGED <<stack, histVars>>

Detach(s) ==
    /\ CleanupInvalidationState(s) \/ CleanupWorkSessionInvalidation(s)
    /\ stale' = [stale EXCEPT ![s] = {}]
    /\ skipped' = [skipped EXCEPT ![s] = {}]
    /\ UNCHANGED <<stack, rcData>>

\* What a thread gets done without waiting for a lock: inserting ...
InsertStep(s) ==
    /\ \/ InsertSignal(s)
       \/ WriteEntries(s)
       \/ PublishMax(s)
       \/ Kick(s)
       \/ InsertUnlock(s)
       \/ CatchupSignal(s)
    /\ UNCHANGED cacheVars

\* ... and receiving.
ReceiveStep(s) ==
    \/ SkipPending(s)
    \/ ProcessPending(s)
    \/ NonePending(s)
    \/ /\ NothingToRead(s) \/ ReadLock(s) \/ ReadMax(s) \/ GetEntries(s)
       /\ UNCHANGED cacheVars
    \/ ReceiveReset(s)
    \/ ProcessNext(s)
    \/ LoopEnd(s)
    \/ Rebuild(s)
    \/ ReceiveEnd(s)
    \/ CatchupComplete(s)

\* What has to wait: for SInvalWriteLock, and for the readers to be gone.
LockStep(s) ==
    /\ InsertLock(s) \/ InsertCleanup(s) \/ CatchupLock(s) \/ CatchupCleanup(s)
    /\ UNCHANGED cacheVars

Next == \E s \in Slots :
    \/ Attach(s)
    \/ Detach(s)
    \/ \E rels \in Sends : AtEOXact_Inval(s, rels)
    \/ AcceptInvalidationMessages(s)
    \/ Recurse(s)
    \/ InsertStep(s)
    \/ ReceiveStep(s)
    \/ LockStep(s)

Spec == Init /\ [][Next]_vars

(***************************************************************************)
(* Threads run on; a waiter that an LWLock wakes again and again does not  *)
(* lose every race for it; a backend that is signalled reads its messages  *)
(* (ProcessCatchupInterrupt), while nothing obliges an idle one to.        *)
(***************************************************************************)
Fairness == \A s \in Slots :
    /\ WF_vars(InsertStep(s)) /\ WF_vars(ReceiveStep(s))
    /\ SF_vars(LockStep(s))
    /\ WF_vars(catchupInterruptPending[s] /\ AcceptInvalidationMessages(s))

FairSpec == Spec /\ Fairness

-----------------------------------------------------------------------------
(* Properties                                                              *)

Pcs == {"off", "idle", "w_lock", "w_check", "w_signal", "w_max", "w_kick",
        "r_pending", "r_test", "r_max", "r_get", "r_loop", "r_inval", "r_end",
        "c_lock", "c_clean", "c_signal"}

MsgNums == 0 .. MSGNUMWRAPAROUND + MAXNUMMESSAGES

(***************************************************************************)
(* The type invariant.  The message numbers stay in the range the reduction*)
(* by MSGNUMWRAPAROUND is meant to keep them in, so that no int overflows. *)
(***************************************************************************)
TypeOK ==
    /\ active \in [Slots -> BOOLEAN] /\ resetState \in [Slots -> BOOLEAN]
    /\ signaled \in [Slots -> BOOLEAN] /\ hasMessages \in [Slots -> BOOLEAN]
    /\ nextMsgNum \in [Slots -> MsgNums] /\ maxRead \in [Slots -> MsgNums]
    /\ minMsgNum \in MsgNums /\ maxMsgNum \in MsgNums
    /\ nextThreshold \in CLEANUP_MIN .. MAXNUMMESSAGES + CLEANUP_QUANTUM
    /\ lastBackend \in 0 .. maxBackends
    /\ lastreserveBackend \in 0 .. maxreserveBackends
    /\ buffer \in [0 .. MAXNUMMESSAGES - 1 -> Rels \cup {NoMsg}]
    /\ writeLock \in Slots \cup {NoSlot} /\ readers \subseteq Slots
    /\ pc \in [Slots -> Pcs]
    /\ left \in [Slots -> Seq(Rels)]
    /\ kick \in [Slots -> 0 .. maxBackends]
    /\ sigTo \in [Slots -> Slots \cup {NoSlot}]
    /\ messages \in [Slots -> Seq(Rels)]
    /\ nummsgs \in [Slots -> 0 .. MAXINVALMSGS]
    /\ \A s \in Slots : Len(messages[s]) <= MAXINVALMSGS
    /\ catchupInterruptPending \in [Slots -> BOOLEAN]
    /\ stack \in [Slots -> Seq(Frames)]
    /\ \A s \in Slots : Len(stack[s]) <= MaxDepth
    /\ rcData \in [Slots -> SUBSET Rels]
    /\ stale \in [Slots -> SUBSET Rels] /\ skipped \in [Slots -> SUBSET Rels]

Receivers == {s \in Slots : active[s] /\ s \notin SendOnly}

\* Backends in reset state, until they have read the number they will go on from.
Lost == {s \in Receivers : resetState[s] /\ pc[s] # "r_get"}

\* The messages a backend has not read, as the numbers delimit them.
Unread(s) ==
    LET first == IF resetState[s] THEN maxRead[s] ELSE nextMsgNum[s]
    IN IF s \in Receivers \ Lost
       THEN [k \in 1 .. maxMsgNum - first |->
               buffer[(first + k - 1) % MAXNUMMESSAGES]]
       ELSE <<>>

Delivery == INSTANCE InvalDelivery WITH
    Messages <- Rels,
    Room <- MAXNUMMESSAGES,
    Batch <- WRITE_QUANTUM,
    attached <- Receivers,
    owed <- [s \in Slots |-> Unread(s)],
    lost <- Lost,
    taken <- messages

(***************************************************************************)
(* The circular buffer, the message numbers with their wrap-around and the *)
(* two locks deliver every message to every backend, once and in order, or *)
(* reset the backend; nobody is reset who leaves room enough.              *)
(***************************************************************************)
ImplementsDelivery == Delivery!Spec

(***************************************************************************)
(* The quick test without a lock never hides a message for good: a backend *)
(* that has messages to read or a reset coming has hasMessages set, unless *)
(* the writer that published them is about to set it.                      *)
(***************************************************************************)
NothingOverlooked ==
    \A s \in Receivers :
       /\ pc[s] \notin {"r_max", "r_get"}
       /\ Unread(s) # <<>> \/ resetState[s]
       => \/ hasMessages[s]
          \/ \E w \in Slots : pc[w] = "w_kick" /\ kick[w] <= s

\* A message about r that will reach s: with its sender, unread, read, or being
\* processed.
OnItsWay(r, s) ==
    \/ \E w \in Slots \ {s} : \E i \in DOMAIN left[w] : left[w][i] = r
    \/ \E i \in DOMAIN Unread(s) : Unread(s)[i] = r
    \/ \E i \in DOMAIN messages[s] : messages[s][i] = r
    \/ \E i \in DOMAIN stack[s] : stack[s][i].rel = r \/ stack[s][i].at = "reset"
    \/ resetState[s]

(***************************************************************************)
(* No cached entry stays out of date unnoticed: while one is, a message    *)
(* about it, or a reset, is on its way to the backend, unless the message  *)
(* was skipped as a duplicate.                                             *)
(***************************************************************************)
StaleIsAnnounced ==
    \A s \in Receivers : \A r \in stale[s] : OnItsWay(r, s) \/ r \in skipped[s]

(***************************************************************************)
(* "skip if inval msg is duplicate": the entry a message is skipped for is *)
(* up to date, or something else on its way will have it rebuilt.          *)
(***************************************************************************)
SkippedIsDuplicate ==
    \A s \in Receivers : \A r \in skipped[s] \cap stale[s] : OnItsWay(r, s)

(***************************************************************************)
(* Whenever somebody has messages to send, messages are sent: the clean-up *)
(* makes room however far back the readers are, and the senders do not     *)
(* keep each other from it although they let go of the lock to signal.     *)
(***************************************************************************)
SendersGetOn ==
    \A s \in Slots : pc[s] = "w_lock" ~> \E w \in Slots : pc[w] = "w_max"

=============================================================================
