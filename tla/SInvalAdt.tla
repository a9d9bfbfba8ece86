------------------------------ MODULE SInvalAdt ------------------------------
(***************************************************************************)
(* The queue of shared cache invalidation messages (sinvaladt.cpp): a      *)
(* circular buffer that every backend reads at its own pace.  Writers are  *)
(* serialised by SInvalWriteLock; readers hold SInvalReadLock in shared    *)
(* mode and run beside a writer; the clean-up of the queue holds both.     *)
(* hasMessages is read without a lock.                                     *)
(*                                                                         *)
(* A slot of procState stands for the thread or session that occupies it.  *)
(* A message is the relation it is about.  Code that runs under an         *)
(* exclusive lock nobody can look past is one step.                        *)
(***************************************************************************)
EXTENDS Integers, Sequences, FiniteSets, FiniteSetsExt

CONSTANTS
    maxBackends,        \* slots of procState
    maxreserveBackends, \* ... those of threads; the rest is for pool sessions
    SendOnly,           \* slots whose thread never reads: the startup process
    Rels,               \* relations messages are about
    MAXNUMMESSAGES,
    MSGNUMWRAPAROUND,
    CLEANUP_MIN,
    CLEANUP_QUANTUM,
    SIG_THRESHOLD,
    WRITE_QUANTUM,
    MAXINVALMSGS,       \* messages read at a time
    NoSlot, NoMsg

ASSUME SInvalAssumption ==
    /\ {maxBackends, maxreserveBackends, CLEANUP_MIN, SIG_THRESHOLD} \subseteq Nat
    /\ {MAXNUMMESSAGES, MSGNUMWRAPAROUND, CLEANUP_QUANTUM, WRITE_QUANTUM,
        MAXINVALMSGS} \subseteq Nat \ {0}
    /\ MSGNUMWRAPAROUND % MAXNUMMESSAGES = 0
    /\ WRITE_QUANTUM <= MAXNUMMESSAGES
    /\ CLEANUP_MIN \in 1 .. MAXNUMMESSAGES

Slots == 0 .. maxBackends - 1

ASSUME NullAssumption ==
    NoSlot \notin Slots /\ NoMsg \notin Rels /\ SendOnly \subseteq Slots

VARIABLES
    active,         \* procPid # 0
    nextMsgNum, resetState, signaled, hasMessages,
    minMsgNum, maxMsgNum, nextThreshold, lastBackend, lastreserveBackend,
    buffer,
    writeLock,      \* the holder of SInvalWriteLock
    readers,        \* the shared holders of SInvalReadLock
    pc,             \* where the slot's thread is
    left,           \* writer: messages it has still to insert
    kick,           \* writer: the slot whose hasMessages it sets next
    sigTo,          \* who is to be sent a catchup signal
    maxRead,        \* reader: maxMsgNum as it found it
    messages,       \* reader: inval_cxt->messages from nextmsg to nummsgs
    nummsgs,        \* reader: inval_cxt->nummsgs
    catchupInterruptPending

procStateVars == <<active, nextMsgNum, resetState, signaled, hasMessages>>
segVars == <<minMsgNum, maxMsgNum, nextThreshold>>
slotVars == <<lastBackend, lastreserveBackend>>
writerVars == <<left, kick, sigTo>>
readerVars == <<maxRead, messages, nummsgs>>

Goto(s, label) == pc' = [pc EXCEPT ![s] = label]

AdtInit ==
    /\ active = [s \in Slots |-> FALSE]
    /\ nextMsgNum = [s \in Slots |-> 0]
    /\ resetState = [s \in Slots |-> FALSE]
    /\ signaled = [s \in Slots |-> FALSE]
    /\ hasMessages = [s \in Slots |-> FALSE]
    /\ minMsgNum = 0 /\ maxMsgNum = 0 /\ nextThreshold = CLEANUP_MIN
    /\ lastBackend = 0 /\ lastreserveBackend = 0
    /\ buffer = [i \in 0 .. MAXNUMMESSAGES - 1 |-> NoMsg]
    /\ writeLock = NoSlot /\ readers = {}
    /\ pc = [s \in Slots |-> "off"]
    /\ left = [s \in Slots |-> <<>>]
    /\ kick = [s \in Slots |-> 0]
    /\ sigTo = [s \in Slots |-> NoSlot]
    /\ maxRead = [s \in Slots |-> 0]
    /\ messages = [s \in Slots |-> <<>>]
    /\ nummsgs = [s \in Slots |-> 0]
    /\ catchupInterruptPending = [s \in Slots |-> FALSE]

-----------------------------------------------------------------------------
(* Attaching and detaching                                                 *)

\* The slot becomes active, with all extant messages already read.
Occupy(s) ==
    /\ active' = [active EXCEPT ![s] = TRUE]
    /\ nextMsgNum' = [nextMsgNum EXCEPT ![s] = maxMsgNum]
    /\ resetState' = [resetState EXCEPT ![s] = FALSE]
    /\ signaled' = [signaled EXCEPT ![s] = FALSE]
    /\ hasMessages' = [hasMessages EXCEPT ![s] = FALSE]
    /\ catchupInterruptPending' = [catchupInterruptPending EXCEPT ![s] = FALSE]
    /\ Goto(s, "idle")
    /\ UNCHANGED <<segVars, buffer, writeLock, readers, writerVars, readerVars>>

\* A thread takes the first free reserved slot, or one more.
SharedInvalReserveBackendInit(s) ==
    LET free == {i \in 0 .. lastreserveBackend - 1 : ~active[i]}
    IN /\ writeLock = NoSlot
       /\ s = IF free # {} THEN Min(free) ELSE lastreserveBackend
       /\ s < maxreserveBackends
       /\ lastreserveBackend' = Max({lastreserveBackend, s + 1})
       /\ lastBackend' = Max({lastBackend, lastreserveBackend'})
       /\ Occupy(s)

\* A session of the thread pool has the slot of its session_ctr_index.
SharedInvalWorkSessionInit(s) ==
    /\ writeLock = NoSlot
    /\ s >= maxreserveBackends /\ ~active[s]
    /\ lastBackend' = Max({lastBackend, s + 1})
    /\ UNCHANGED lastreserveBackend
    /\ Occupy(s)

\* One more than the last active slot below n.
LastActive(n) == Max({0} \cup {i + 1 : i \in {j \in 0 .. n - 1 : active'[j]}})

Vacate(s) ==
    /\ writeLock = NoSlot
    /\ pc[s] = "idle"
    /\ active' = [active EXCEPT ![s] = FALSE]
    /\ nextMsgNum' = [nextMsgNum EXCEPT ![s] = 0]
    /\ resetState' = [resetState EXCEPT ![s] = FALSE]
    /\ signaled' = [signaled EXCEPT ![s] = FALSE]
    /\ lastBackend' = LastActive(lastBackend)
    \* A signal that is on its way finds no such thread any more.
    /\ sigTo' = [t \in Slots |-> IF sigTo[t] = s THEN NoSlot ELSE sigTo[t]]
    /\ Goto(s, "off")
    /\ UNCHANGED <<hasMessages, segVars, buffer, writeLock, readers, left, kick,
                   readerVars, catchupInterruptPending>>

CleanupInvalidationState(s) ==
    /\ s < maxreserveBackends
    /\ Vacate(s)
    /\ lastreserveBackend' = LastActive(lastreserveBackend)

CleanupWorkSessionInvalidation(s) ==
    /\ s >= maxreserveBackends
    /\ Vacate(s)
    /\ UNCHANGED lastreserveBackend

-----------------------------------------------------------------------------
(* SICleanupQueue                                                          *)

\* The backends whose position counts.
Following == {i \in 0 .. lastBackend - 1 :
                 active[i] /\ ~resetState[i] /\ i \notin SendOnly}

\* Mutant: the messages that are to be inserted are not taken into account.
TooFarBack_NoRoom(minFree) ==
    {i \in Following : nextMsgNum[i] < maxMsgNum - MAXNUMMESSAGES}

\* Those that keep minFree messages from fitting in are forced into reset state.
TooFarBack(minFree) ==
    {i \in Following : nextMsgNum[i] < maxMsgNum - MAXNUMMESSAGES + minFree}

\* Who needs a catchup signal; sessions of the pool are not signalled.
Behind(S) == {i \in S : /\ i < maxreserveBackends
                        /\ nextMsgNum[i] < maxMsgNum - SIG_THRESHOLD
                        /\ ~signaled[i]}

\* The furthest back of them, the first one of several.
FurthestBack(S) ==
    Min({i \in S : \A j \in S : nextMsgNum[i] <= nextMsgNum[j]})

\* Mutant: the numbers are never reduced.
Reduction_Never(min) == 0

\* What is subtracted from all numbers once the least of them is large.
Reduction(min) == IF min >= MSGNUMWRAPAROUND THEN MSGNUMWRAPAROUND ELSE 0

(***************************************************************************)
(* The clean-up under both locks, for a caller that goes on at label done  *)
(* if nobody has to be signalled.  All numbers go down together once the   *)
(* least of them is large.  Where nextMsgNum is meaningless (in reset      *)
(* state, or of a thread that only sends) it is 0 here.                    *)
(***************************************************************************)
SICleanupQueue(s, minFree, done) ==
    LET reset == TooFarBack(minFree)
        rest == Following \ reset
        min == Min({maxMsgNum} \cup {nextMsgNum[i] : i \in rest})
        shift == Reduction(min)
        numMsgs == maxMsgNum - min
        behind == Behind(rest)
    IN /\ readers = {}
       /\ resetState' = [i \in Slots |-> resetState[i] \/ i \in reset]
       /\ minMsgNum' = min - shift
       /\ maxMsgNum' = maxMsgNum - shift
       /\ nextMsgNum' = [i \in Slots |-> IF i \in rest THEN nextMsgNum[i] - shift
                                         ELSE 0]
       /\ nextThreshold' = IF numMsgs < CLEANUP_MIN THEN CLEANUP_MIN
                           ELSE (numMsgs \div CLEANUP_QUANTUM + 1) * CLEANUP_QUANTUM
       /\ IF behind = {}
          THEN /\ UNCHANGED <<signaled, sigTo>>
               /\ Goto(s, done)
          ELSE LET needSig == FurthestBack(behind)
               IN /\ signaled' = [signaled EXCEPT ![needSig] = TRUE]
                  /\ sigTo' = [sigTo EXCEPT ![s] = needSig]
                  /\ Goto(s, IF done = "w_check" THEN "w_signal" ELSE "c_signal")
       \* The write lock is kept by a writer, unless there is a signal to send.
       /\ writeLock' = IF done = "w_check" /\ behind = {} THEN s ELSE NoSlot
       /\ UNCHANGED <<active, hasMessages, slotVars, buffer, readers, left, kick,
                      readerVars, catchupInterruptPending>>

\* SendProcSignal, without locks; the handler sets catchupInterruptPending.
SendCatchupSignal(s, next) ==
    /\ Goto(s, next)
    /\ sigTo' = [sigTo EXCEPT ![s] = NoSlot]
    /\ catchupInterruptPending' = [t \in Slots |->
          catchupInterruptPending[t] \/ sigTo[s] = t]
    /\ UNCHANGED <<procStateVars, segVars, slotVars, buffer, writeLock, readers,
                   left, kick, readerVars>>

-----------------------------------------------------------------------------
(* SIInsertDataEntries                                                     *)

nthistime(s) == Min({Len(left[s]), WRITE_QUANTUM})

\* Mutant: only the threshold counts.
NeedsCleanup_Threshold(s) == maxMsgNum - minMsgNum >= nextThreshold

\* The buffer is full or has reached the next threshold.
NeedsCleanup(s) ==
    LET numMsgs == maxMsgNum - minMsgNum
    IN numMsgs + nthistime(s) > MAXNUMMESSAGES \/ numMsgs >= nextThreshold

AcquireWriteLock(s, next) ==
    /\ writeLock = NoSlot
    /\ writeLock' = s
    /\ Goto(s, next)
    /\ UNCHANGED <<procStateVars, segVars, slotVars, buffer, readers, writerVars,
                   readerVars, catchupInterruptPending>>

InsertLock(s) == pc[s] = "w_lock" /\ AcquireWriteLock(s, "w_check")

InsertCleanup(s) ==
    /\ pc[s] = "w_check"
    /\ NeedsCleanup(s)
    /\ SICleanupQueue(s, nthistime(s), "w_check")

InsertSignal(s) == pc[s] = "w_signal" /\ SendCatchupSignal(s, "w_lock")

\* The messages go into the buffer, beyond maxMsgNum ...
WriteEntries(s) ==
    /\ pc[s] = "w_check"
    /\ ~NeedsCleanup(s)
    /\ buffer' = [i \in DOMAIN buffer |->
          LET k == (i - maxMsgNum) % MAXNUMMESSAGES
          IN IF k < nthistime(s) THEN left[s][k + 1] ELSE buffer[i]]
    /\ Goto(s, "w_max")
    /\ UNCHANGED <<procStateVars, segVars, slotVars, writeLock, readers, writerVars,
                   readerVars, catchupInterruptPending>>

\* ... and maxMsgNum makes them visible.
PublishMax(s) ==
    /\ pc[s] = "w_max"
    /\ maxMsgNum' = maxMsgNum + nthistime(s)
    /\ left' = [left EXCEPT ![s] = SubSeq(@, nthistime(s) + 1, Len(@))]
    /\ Goto(s, "w_kick")
    /\ UNCHANGED <<procStateVars, minMsgNum, nextThreshold, slotVars, buffer,
                   writeLock, readers, kick, sigTo, readerVars,
                   catchupInterruptPending>>

\* The flags are set one after the other, under the writers' lock only.
Kick(s) ==
    /\ pc[s] = "w_kick"
    /\ kick[s] < lastBackend
    /\ hasMessages' = [hasMessages EXCEPT ![kick[s]] = @ \/ active[kick[s]]]
    /\ kick' = [kick EXCEPT ![s] = @ + 1]
    /\ UNCHANGED <<active, nextMsgNum, resetState, signaled, segVars, slotVars,
                   buffer, writeLock, readers, pc, left, sigTo, readerVars,
                   catchupInterruptPending>>

InsertUnlock(s) ==
    /\ pc[s] = "w_kick"
    /\ kick[s] = lastBackend
    /\ writeLock' = NoSlot
    /\ kick' = [kick EXCEPT ![s] = 0]
    /\ Goto(s, IF left[s] = <<>> THEN "idle" ELSE "w_lock")
    /\ UNCHANGED <<procStateVars, segVars, slotVars, buffer, readers, left, sigTo,
                   readerVars, catchupInterruptPending>>

-----------------------------------------------------------------------------
(* SIGetDataEntries                                                        *)

\* The quick test without a lock: there is nothing to read.
NothingToRead(s) ==
    /\ pc[s] = "r_test"
    /\ ~hasMessages[s]
    /\ Goto(s, "r_end")
    /\ UNCHANGED <<procStateVars, segVars, slotVars, buffer, writeLock, readers,
                   writerVars, readerVars, catchupInterruptPending>>

\* The flag is reset before maxMsgNum is read.
ReadLock(s) ==
    /\ pc[s] = "r_test"
    /\ hasMessages[s]
    /\ readers' = readers \cup {s}
    /\ hasMessages' = [hasMessages EXCEPT ![s] = FALSE]
    /\ Goto(s, "r_max")
    /\ UNCHANGED <<active, nextMsgNum, resetState, signaled, segVars, slotVars,
                   buffer, writeLock, writerVars, readerVars,
                   catchupInterruptPending>>

ReadMax(s) ==
    /\ pc[s] = "r_max"
    /\ maxRead' = [maxRead EXCEPT ![s] = maxMsgNum]
    /\ Goto(s, "r_get")
    /\ UNCHANGED <<procStateVars, segVars, slotVars, buffer, writeLock, readers,
                   writerVars, messages, nummsgs, catchupInterruptPending>>

\* In reset state: whatever was added since is dealt with as well.
GetReset(s) ==
    /\ pc[s] = "r_get"
    /\ resetState[s]
    /\ nextMsgNum' = [nextMsgNum EXCEPT ![s] = maxRead[s]]
    /\ resetState' = [resetState EXCEPT ![s] = FALSE]
    /\ signaled' = [signaled EXCEPT ![s] = FALSE]
    /\ maxRead' = [maxRead EXCEPT ![s] = 0]
    /\ readers' = readers \ {s}
    /\ Goto(s, "r_inval")
    /\ UNCHANGED <<active, hasMessages, segVars, slotVars, buffer, writeLock,
                   writerVars, messages, nummsgs, catchupInterruptPending>>

\* Mutant: the flag is set from what this read has left, over a writer's kick.
GetEntries_LateFlag(s) ==
    LET n == Min({MAXINVALMSGS, Max({0, maxRead[s] - nextMsgNum[s]})})
        caughtUp == nextMsgNum[s] + n >= maxRead[s]
    IN /\ pc[s] = "r_get"
       /\ ~resetState[s]
       /\ messages' = [messages EXCEPT ![s] =
             [k \in 1 .. n |-> buffer[(nextMsgNum[s] + k - 1) % MAXNUMMESSAGES]]]
       /\ nummsgs' = [nummsgs EXCEPT ![s] = n]
       /\ nextMsgNum' = [nextMsgNum EXCEPT ![s] = @ + n]
       /\ signaled' = [signaled EXCEPT ![s] = @ /\ ~caughtUp]
       /\ hasMessages' = [hasMessages EXCEPT ![s] = ~caughtUp]
       /\ maxRead' = [maxRead EXCEPT ![s] = 0]
       /\ readers' = readers \ {s}
       /\ Goto(s, "r_loop")
       /\ UNCHANGED <<active, resetState, segVars, slotVars, buffer, writeLock,
                      writerVars, catchupInterruptPending>>

GetEntries(s) ==
    LET n == Min({MAXINVALMSGS, Max({0, maxRead[s] - nextMsgNum[s]})})
        caughtUp == nextMsgNum[s] + n >= maxRead[s]
    IN /\ pc[s] = "r_get"
       /\ ~resetState[s]
       /\ messages' = [messages EXCEPT ![s] =
             [k \in 1 .. n |-> buffer[(nextMsgNum[s] + k - 1) % MAXNUMMESSAGES]]]
       /\ nummsgs' = [nummsgs EXCEPT ![s] = n]
       /\ nextMsgNum' = [nextMsgNum EXCEPT ![s] = @ + n]
       /\ signaled' = [signaled EXCEPT ![s] = @ /\ ~caughtUp]
       /\ hasMessages' = [hasMessages EXCEPT ![s] = @ \/ ~caughtUp]
       /\ maxRead' = [maxRead EXCEPT ![s] = 0]
       /\ readers' = readers \ {s}
       /\ Goto(s, "r_loop")
       /\ UNCHANGED <<active, resetState, segVars, slotVars, buffer, writeLock,
                      writerVars, catchupInterruptPending>>

=============================================================================
