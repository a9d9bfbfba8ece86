------------------------------- MODULE LWLock -------------------------------
(***************************************************************************)
(* A lightweight lock (lwlock.cpp): one atomic word and a list of waiting  *)
(* PGPROCs.  The six low bytes of the word count the shared holders, each  *)
(* for the threads that map to it; its highest bit, and LW_VAL_EXCLUSIVE   *)
(* has that bit in every byte.  Shared holders compare and swap their own  *)
(* byte only, exclusive ones the whole word.  Three flags speak of the     *)
(* list, which LW_FLAG_LOCKED protects.                                    *)
(*                                                                         *)
(* Work under LW_FLAG_LOCKED is one step: who looks at the list waits for  *)
(* it, and the flags it changes are taken up by those who then look.       *)
(* LWLockWaitForVar and LWLockUpdateVar, which nobody calls, and the       *)
(* victims of the LWLock deadlock monitor are left out.                    *)
(***************************************************************************)
EXTENDS Integers, Sequences, FiniteSets

CONSTANTS
    Procs,          \* PGPROCs
    Bytes,          \* LOCK_THREADID_MASK: bytes with a count
    ByteOf,         \* the byte of a thread
    MaxCount,       \* shared holders a byte can count, 2^7 - 1
    Calls,          \* bound: the calls a thread makes
    Downgraders,    \* bound: threads that use LWLockDowngrade
    Leftover,       \* bound: PGPROCs with a wakeup left by LockErrorCleanup
    MaxTimeouts,    \* bound: calls of LWLockAcquireTimeout that time out
    High,           \* the exclusive bit outside the bytes
    NoProc

\* What a thread may call: LWLockAcquire, LWLockAcquireTimeout,
\* LWLockConditionalAcquire or LWLockAcquireOrWait.
Ops == {"acquire", "timeout", "conditional", "or_wait"}
AllCalls == [op : Ops, mode : {"exclusive", "shared"}]
NoCall == [op |-> "none", mode |-> "none"]

ASSUME LWLockAssumption ==
    /\ ByteOf \in [Procs -> Bytes] /\ Calls \in [Procs -> SUBSET AllCalls]
    /\ MaxCount \in Nat \ {0} /\ MaxTimeouts \in Nat
    /\ Downgraders \subseteq Procs /\ Leftover \subseteq Procs
    /\ High \notin Bytes /\ NoProc \notin Procs
    /\ IsFiniteSet(Procs)

VARIABLES
    bits,           \* the exclusive bits that are set
    count,          \* shared holders, per byte
    hasWaiters,     \* LW_FLAG_HAS_WAITERS
    releaseOk,      \* LW_FLAG_RELEASE_OK
    waiters,        \* lock->waiters
    lwWaiting,      \* PGPROC.lwWaiting
    sem,            \* count of PGPROC.sem
    pc,             \* thread: where it is
    call,           \* thread: its call
    old,            \* thread: its byte of old_state in LWLockAttemptLock
    extraWaits,     \* thread: wakeups it has absorbed
    wakeup,         \* thread: the waiters LWLockWakeup has yet to awaken, ...
    target,         \* ... and the one whose semaphore comes next
    holds,          \* history: how a thread holds the lock
    timeouts,       \* history: calls that have timed out
    dropped         \* history: a thread that was woken did not try again

wordVars == <<bits, count>>
listVars == <<hasWaiters, releaseOk, waiters>>
semVars == <<sem, extraWaits>>
histVars == <<timeouts, dropped>>
vars == <<wordVars, listVars, lwWaiting, semVars, pc, call, old, wakeup, target,
          holds, histVars>>

Goto(p, label) == pc' = [pc EXCEPT ![p] = label]

\* lwWaitMode: LWLockAcquireOrWait waits in LW_WAIT_UNTIL_FREE.
WaitMode(p) == IF call[p].op = "or_wait" THEN "until_free" ELSE call[p].mode

\* No bit of LW_LOCK_MASK is set.
Free == bits = {} /\ \A b \in Bytes : count[b] = 0

-----------------------------------------------------------------------------
(* LWLockAttemptLock                                                       *)

\* Mutant: one exclusive bit, outside the bytes.
ExclusiveBits_HighOnly == {High}

\* LW_VAL_EXCLUSIVE.
ExclusiveBits == Bytes \cup {High}

\* Mutant: the holder that overflows the byte is let in.
ByteFull_TooLate(b) == count[b] > MaxCount

ByteFull(b) == count[b] >= MaxCount

\* The lock is p's.  At the second attempt p has to get off the list.
Got(p, mode) ==
    /\ holds' = [holds EXCEPT ![p] = mode]
    /\ Goto(p, IF pc[p] \in {"first", "first_cas"} THEN "acquired" ELSE "dequeue")

MustWait(p) ==
    /\ Goto(p, IF pc[p] \in {"second", "second_cas"} THEN "sleep"
               ELSE IF call[p].op = "conditional" THEN "failed" ELSE "queue")
    /\ UNCHANGED <<holds, wordVars>>

\* The compare-and-swap of the whole word fails on any change and looks again.
AttemptExclusive(p) ==
    /\ pc[p] \in {"first", "second"} /\ call[p].mode = "exclusive"
    /\ \/ ~Free /\ MustWait(p)
       \/ /\ Free
          /\ bits' = ExclusiveBits
          /\ Got(p, "exclusive")
          /\ UNCHANGED count
    /\ UNCHANGED <<listVars, lwWaiting, semVars, call, old, wakeup, target, histVars>>

\* A shared locker reads the word, ...
ReadState(p) ==
    /\ pc[p] \in {"first", "second"} /\ call[p].mode = "shared"
    /\ \/ /\ bits # {} \/ ByteFull(ByteOf[p])
          /\ MustWait(p) /\ UNCHANGED old
       \/ /\ bits = {} /\ ~ByteFull(ByteOf[p])
          /\ old' = [old EXCEPT ![p] = count[ByteOf[p]]]
          /\ Goto(p, IF pc[p] = "first" THEN "first_cas" ELSE "second_cas")
          /\ UNCHANGED <<holds, wordVars>>
    /\ UNCHANGED <<listVars, lwWaiting, semVars, call, wakeup, target, histVars>>

\* ... then swaps its byte, if that is as it was; otherwise it looks at the byte it
\* has got instead.
AttemptShared(p) ==
    LET b == ByteOf[p] IN
    /\ pc[p] \in {"first_cas", "second_cas"}
    /\ \/ /\ b \notin bits /\ count[b] = old[p]
          /\ count' = [count EXCEPT ![b] = @ + 1]
          /\ Got(p, "shared")
          /\ old' = [old EXCEPT ![p] = 0]
          /\ UNCHANGED bits
       \/ /\ b \in bits \/ (ByteFull(b) /\ count[b] # old[p])
          /\ MustWait(p)
          /\ old' = [old EXCEPT ![p] = 0]
       \/ /\ b \notin bits /\ ~ByteFull(b) /\ count[b] # old[p]
          /\ old' = [old EXCEPT ![p] = count[b]]
          /\ UNCHANGED <<pc, holds, wordVars>>
    /\ UNCHANGED <<listVars, lwWaiting, semVars, call, wakeup, target, histVars>>

-----------------------------------------------------------------------------
(* The list of waiters                                                     *)

LWLockQueueSelf(p) ==
    /\ pc[p] = "queue"
    /\ hasWaiters' = TRUE
    /\ waiters' = IF WaitMode(p) = "until_free" THEN <<p>> \o waiters
                                               ELSE Append(waiters, p)
    /\ lwWaiting' = [lwWaiting EXCEPT ![p] = TRUE]
    /\ Goto(p, "second")
    /\ UNCHANGED <<wordVars, releaseOk, semVars, call, old, wakeup, target, holds,
                   histVars>>

Members(s) == {s[i] : i \in DOMAIN s}
Queued == Members(waiters)

\* The members of a list that are in S, in their order.
Only(s, S) ==
    LET f[i \in 0 .. Len(s)] == IF i = 0 THEN <<>>
                               ELSE IF s[i] \in S THEN Append(f[i - 1], s[i])
                               ELSE f[i - 1]
    IN  f[Len(s)]

\* After LWLockDequeueSelf: p has the lock, or has run out of time.
AfterDequeue(p) == Goto(p, IF holds[p] = "none" THEN "give_up" ELSE "acquired")

LWLockDequeueSelf(p) ==
    /\ pc[p] = "dequeue"
    /\ waiters' = Only(waiters, Procs \ {p})
    /\ hasWaiters' = (hasWaiters /\ waiters' # <<>>)
    /\ IF p \in Queued
       THEN /\ lwWaiting' = [lwWaiting EXCEPT ![p] = FALSE]
            /\ AfterDequeue(p)
       ELSE Goto(p, "dequeued") /\ UNCHANGED lwWaiting
    /\ UNCHANGED <<wordVars, releaseOk, semVars, call, old, wakeup, target, holds,
                   histVars>>

\* Mutant: LW_FLAG_RELEASE_OK stays off.
DequeuedByOther_NoFlag(p) ==
    /\ pc[p] = "dequeued"
    /\ dropped' = (dropped \/ holds[p] = "none")
    /\ Goto(p, "dequeued_sleep")
    /\ UNCHANGED <<wordVars, listVars, lwWaiting, semVars, call, old, wakeup, target,
                   holds, timeouts>>

\* Somebody else has taken p off the list, has switched LW_FLAG_RELEASE_OK off for it
\* and will wake it up.
DequeuedByOther(p) ==
    /\ pc[p] = "dequeued"
    /\ releaseOk' = TRUE
    /\ dropped' = (dropped \/ holds[p] = "none")
    /\ Goto(p, "dequeued_sleep")
    /\ UNCHANGED <<wordVars, hasWaiters, waiters, lwWaiting, semVars, call, old,
                   wakeup,
                   target, holds, timeouts>>

\* Mutant: p does not wait for that wakeup.
AwaitWakeup_Not(p) ==
    /\ pc[p] = "dequeued_sleep"
    /\ AfterDequeue(p)
    /\ UNCHANGED <<wordVars, listVars, lwWaiting, semVars, call, old, wakeup,
                   target, holds,
                   histVars>>

AwaitWakeup(p) ==
    /\ pc[p] = "dequeued_sleep"
    /\ sem[p] > 0
    /\ sem' = [sem EXCEPT ![p] = @ - 1]
    /\ IF lwWaiting[p]
       THEN extraWaits' = [extraWaits EXCEPT ![p] = @ + 1] /\ UNCHANGED pc
       ELSE AfterDequeue(p) /\ UNCHANGED extraWaits
    /\ UNCHANGED <<wordVars, listVars, lwWaiting, call, old, wakeup, target, holds,
                   histVars>>

-----------------------------------------------------------------------------
(* Acquisition                                                             *)

Start(p, c) ==
    /\ pc[p] = "idle" /\ c \in Calls[p]
    /\ call' = [call EXCEPT ![p] = c]
    /\ Goto(p, "first")
    /\ UNCHANGED <<wordVars, listVars, lwWaiting, semVars, old, wakeup, target,
                   holds, histVars>>

\* The semaphore is shared with the lock manager: p sleeps until lwWaiting is off.
\* LWLockAcquireOrWait then returns, the others try again.
Sleep(p) ==
    /\ pc[p] = "sleep"
    /\ sem[p] > 0
    /\ sem' = [sem EXCEPT ![p] = @ - 1]
    /\ IF lwWaiting[p]
       THEN extraWaits' = [extraWaits EXCEPT ![p] = @ + 1] /\ UNCHANGED pc
       ELSE /\ Goto(p, IF call[p].op = "or_wait" THEN "failed" ELSE "retry")
            /\ UNCHANGED extraWaits
    /\ UNCHANGED <<wordVars, listVars, lwWaiting, call, old, wakeup, target, holds,
                   histVars>>

Retry(p) ==
    /\ pc[p] = "retry"
    /\ releaseOk' = TRUE
    /\ Goto(p, "first")
    /\ UNCHANGED <<wordVars, hasWaiters, waiters, lwWaiting, semVars, call, old,
                   wakeup, target,
                   holds, histVars>>

\* PGSemaphoreLockTimeout returns without the semaphore.  extraWaits counts that as
\* a wakeup, unless p has been woken meanwhile.
Timeout(p) ==
    /\ pc[p] = "sleep" /\ call[p].op = "timeout"
    /\ timeouts < MaxTimeouts
    /\ timeouts' = timeouts + 1
    /\ extraWaits' = [extraWaits EXCEPT ![p] = @ + IF lwWaiting[p] THEN 1 ELSE 0]
    /\ Goto(p, "dequeue")
    /\ UNCHANGED <<wordVars, listVars, lwWaiting, sem, call, old, wakeup, target,
                   holds,
                   dropped>>

GiveUp(p) ==
    /\ pc[p] = "give_up"
    /\ releaseOk' = TRUE
    /\ Goto(p, "failed")
    /\ UNCHANGED <<wordVars, hasWaiters, waiters, lwWaiting, semVars, call, old,
                   wakeup, target,
                   holds, histVars>>

\* The call returns; the wakeups it has absorbed are made up for.
Return(p) ==
    /\ pc[p] \in {"acquired", "failed"}
    /\ sem' = [sem EXCEPT ![p] = @ + extraWaits[p]]
    /\ extraWaits' = [extraWaits EXCEPT ![p] = 0]
    /\ call' = [call EXCEPT ![p] = NoCall]
    /\ Goto(p, IF pc[p] = "acquired" THEN "holding" ELSE "idle")
    /\ UNCHANGED <<wordVars, listVars, lwWaiting, old, wakeup, target, holds,
                   histVars>>

-----------------------------------------------------------------------------
(* Release                                                                 *)

\* Waiters are looked after if there are some and none is on its way already.
CheckWaiters == hasWaiters /\ releaseOk

LWLockRelease(p) ==
    /\ pc[p] = "holding"
    /\ \/ /\ holds[p] = "exclusive"
          /\ bits' = bits \ ExclusiveBits
          /\ UNCHANGED count
       \/ /\ holds[p] = "shared"
          /\ count' = [count EXCEPT ![ByteOf[p]] = @ - 1]
          /\ UNCHANGED bits
    /\ holds' = [holds EXCEPT ![p] = "none"]
    /\ Goto(p, IF CheckWaiters /\ Free' THEN "wakeup" ELSE "idle")
    /\ UNCHANGED <<listVars, lwWaiting, semVars, call, old, wakeup, target, histVars>>

\* LWLockDowngrade counts itself as a shared holder, ...
DowngradeCount(p) ==
    /\ pc[p] = "holding" /\ holds[p] = "exclusive" /\ p \in Downgraders
    /\ count' = [count EXCEPT ![ByteOf[p]] = @ + 1]
    /\ Goto(p, "downgrade")
    /\ UNCHANGED <<bits, listVars, lwWaiting, semVars, call, old, wakeup, target,
                   holds, histVars>>

\* ... then takes the exclusive bits back.
LWLockDowngrade(p) ==
    /\ pc[p] = "downgrade"
    /\ bits' = bits \ ExclusiveBits
    /\ holds' = [holds EXCEPT ![p] = "shared"]
    /\ Goto(p, IF CheckWaiters THEN "wakeup" ELSE "holding")
    /\ UNCHANGED <<count, listVars, lwWaiting, semVars, call, old, wakeup, target,
                   histVars>>

\* Those LWLockWakeup takes off the list: the ones that wait until the lock is free,
\* the first of the others and, if that one is shared, all shared ones.
ToWake ==
    LET lockers == Only(waiters, {q \in Procs : WaitMode(q) # "until_free"})
    IN  {q \in Queued :
           \/ WaitMode(q) = "until_free"
           \/ q = lockers[1]
           \/ WaitMode(q) = "shared" /\ WaitMode(lockers[1]) = "shared"}

LWLockWakeup(p) ==
    /\ pc[p] = "wakeup"
    /\ wakeup' = [wakeup EXCEPT ![p] = Only(waiters, ToWake)]
    /\ waiters' = Only(waiters, Procs \ ToWake)
    /\ releaseOk' = \A q \in ToWake : WaitMode(q) = "until_free"
    /\ hasWaiters' = (hasWaiters /\ ToWake # {})
    /\ Goto(p, "waking")
    /\ UNCHANGED <<wordVars, lwWaiting, semVars, call, old, target, holds, histVars>>

\* A waiter is taken off the local list before it can see that it is awake, ...
ClearWaiting(p) ==
    /\ pc[p] = "waking" /\ wakeup[p] # <<>>
    /\ target' = [target EXCEPT ![p] = Head(wakeup[p])]
    /\ wakeup' = [wakeup EXCEPT ![p] = Tail(@)]
    /\ lwWaiting' = [lwWaiting EXCEPT ![Head(wakeup[p])] = FALSE]
    /\ Goto(p, "post")
    /\ UNCHANGED <<wordVars, listVars, semVars, call, old, holds, histVars>>

\* ... then its semaphore is raised.
PGSemaphoreUnlock(p) ==
    /\ pc[p] = "post"
    /\ sem' = [sem EXCEPT ![target[p]] = @ + 1]
    /\ target' = [target EXCEPT ![p] = NoProc]
    /\ Goto(p, "waking")
    /\ UNCHANGED <<wordVars, listVars, lwWaiting, extraWaits, call, old, wakeup,
                   holds,
                   histVars>>

WakeupDone(p) ==
    /\ pc[p] = "waking" /\ wakeup[p] = <<>>
    /\ Goto(p, IF holds[p] = "none" THEN "idle" ELSE "holding")
    /\ UNCHANGED <<wordVars, listVars, lwWaiting, semVars, call, old, wakeup,
                   target, holds,
                   histVars>>

-----------------------------------------------------------------------------

\* LWLockInitialize.  LockErrorCleanup may have left a wakeup in a semaphore.
Init ==
    /\ bits = {} /\ count = [b \in Bytes |-> 0]
    /\ hasWaiters = FALSE /\ releaseOk = TRUE /\ waiters = <<>>
    /\ lwWaiting = [p \in Procs |-> FALSE]
    /\ sem = [p \in Procs |-> IF p \in Leftover THEN 1 ELSE 0]
    /\ extraWaits = [p \in Procs |-> 0]
    /\ pc = [p \in Procs |-> "idle"]
    /\ call = [p \in Procs |-> NoCall]
    /\ old = [p \in Procs |-> 0]
    /\ wakeup = [p \in Procs |-> <<>>] /\ target = [p \in Procs |-> NoProc]
    /\ holds = [p \in Procs |-> "none"]
    /\ timeouts = 0 /\ dropped = FALSE

Acquire(p) ==
    \/ AttemptExclusive(p) \/ ReadState(p) \/ AttemptShared(p) \/ LWLockQueueSelf(p)
    \/ LWLockDequeueSelf(p) \/ DequeuedByOther(p) \/ AwaitWakeup(p)
    \/ Sleep(p) \/ Retry(p) \/ GiveUp(p) \/ Return(p)

Release(p) ==
    \/ LWLockRelease(p) \/ LWLockDowngrade(p) \/ LWLockWakeup(p) \/ ClearWaiting(p)
    \/ PGSemaphoreUnlock(p) \/ WakeupDone(p)

Next == \E p \in Procs :
    \/ \E c \in Calls[p] : Start(p, c)
    \/ Acquire(p) \/ Timeout(p)
    \/ Release(p) \/ DowngradeCount(p)

Spec == Init /\ [][Next]_vars

\* Threads run on, and who holds the lock lets go of it.
Fairness == \A p \in Procs : WF_vars(Acquire(p) \/ Release(p))

FairSpec == Spec /\ Fairness

-----------------------------------------------------------------------------
(* Properties                                                              *)

Labels == {"idle", "first", "first_cas", "queue", "second", "second_cas", "sleep",
           "retry", "dequeue", "dequeued", "dequeued_sleep", "give_up", "failed",
           "acquired", "holding", "downgrade", "wakeup", "waking", "post"}

\* The type invariant.
TypeOK ==
    /\ bits \subseteq Bytes \cup {High} /\ count \in [Bytes -> Nat]
    /\ hasWaiters \in BOOLEAN /\ releaseOk \in BOOLEAN /\ waiters \in Seq(Procs)
    /\ lwWaiting \in [Procs -> BOOLEAN]
    /\ sem \in [Procs -> Nat] /\ extraWaits \in [Procs -> Nat]
    /\ pc \in [Procs -> Labels] /\ call \in [Procs -> AllCalls \cup {NoCall}]
    /\ old \in [Procs -> 0 .. MaxCount]
    /\ wakeup \in [Procs -> Seq(Procs)] /\ target \in [Procs -> Procs \cup {NoProc}]
    /\ holds \in [Procs -> {"none", "shared", "exclusive"}]
    /\ timeouts \in Nat /\ dropped \in BOOLEAN

\* The shared holders of a byte, the one that downgrades included.
Sharers(b) == {p \in Procs : ByteOf[p] = b /\ (holds[p] = "shared" \/ pc[p] = "downgrade")}

(***************************************************************************)
(* The word says who holds the lock, and they may: an exclusive holder is  *)
(* alone and all its bits are set, and each byte counts the shared holders *)
(* of its threads, and does not grow into the exclusive bit, though shared *)
(* lockers swap a byte of a word they have read earlier.                   *)
(***************************************************************************)
StateWordExact ==
    /\ \A p, q \in Procs : holds[p] = "exclusive" /\ q # p => holds[q] = "none"
    /\ bits = IF \E p \in Procs : holds[p] = "exclusive" THEN ExclusiveBits ELSE {}
    /\ \A b \in Bytes : count[b] = Cardinality(Sharers(b)) /\ count[b] <= MaxCount

Asleep(p) == pc[p] \in {"sleep", "dequeued_sleep"}

\* From LWLockQueueSelf until it is woken, or has got itself off the list.
Waiting(p) == pc[p] \in {"second", "second_cas", "sleep", "dequeue", "dequeued",
                         "dequeued_sleep"}
OnList(p) == p \in Queued \/ \E q \in Procs : p \in Members(wakeup[q])

(***************************************************************************)
(* A thread that is about to queue is not waiting any more (the PANIC of   *)
(* LWLockQueueSelf) and its link is on no list, neither the lock's nor     *)
(* that of a thread that wakes others; one that waits is on a list, or has *)
(* been told and its semaphore is up or about to be.                       *)
(***************************************************************************)
LinksSound ==
    \A p \in Procs :
       /\ OnList(p) <=> lwWaiting[p]
       /\ lwWaiting[p] => Waiting(p)
       /\ Waiting(p) => lwWaiting[p] \/ sem[p] > 0 \/ \E q \in Procs : target[q] = p

(***************************************************************************)
(* No wakeup is lost between the attempt, the queue and the flags: if the  *)
(* lock is free again and again, a sleeper wakes up.  The exception is a   *)
(* call of LWLockAcquireTimeout that runs out of time after it was chosen  *)
(* to be woken: it lets the lock go by and wakes nobody in its place.      *)
(***************************************************************************)
SleeperWoken ==
    []<>Free => \A p \in Procs : Asleep(p) ~> ~Asleep(p) \/ dropped

-----------------------------------------------------------------------------
(* The inductive invariant                                                 *)

Once(s) == \A i, j \in DOMAIN s : s[i] = s[j] => i = j

\* A PGPROC has one link: it is on one list, once.
ListInv ==
    /\ Once(waiters) /\ \A p \in Procs : Once(wakeup[p])
    /\ \A p \in Procs : Queued \cap Members(wakeup[p]) = {}
    /\ \A p, q \in Procs : p # q => Members(wakeup[p]) \cap Members(wakeup[q]) = {}

\* Where a thread may hold the lock, has room in its byte, or wakes others.
PlaceInv ==
    \A p \in Procs :
       /\ pc[p] \in {"idle", "first", "first_cas", "queue", "second", "second_cas",
                     "sleep", "retry", "give_up", "failed"} => holds[p] = "none"
       /\ pc[p] = "downgrade" => holds[p] = "exclusive"
       /\ pc[p] \in {"first_cas", "second_cas"} => old[p] < MaxCount
       /\ wakeup[p] # <<>> => pc[p] \in {"waking", "post"}
       /\ target[p] # NoProc <=> pc[p] = "post"

(***************************************************************************)
(* The inductive invariant: whoever sees its byte unchanged has seen that  *)
(* nobody holds the lock exclusively, and a waiter that was taken off the  *)
(* list goes nowhere before it is told.                                    *)
(***************************************************************************)
IInv == TypeOK /\ PlaceInv /\ StateWordExact /\ ListInv /\ LinksSound

=============================================================================
