------------------------- MODULE KernelQueueProofs -------------------------
(***************************************************************************)
(* Proofs about KernelQueue, for every set of tasks, every priority        *)
(* assignment, every queue length and every choice of calls: types and     *)
(* the suspended section, the places of tasks and preemption, the event    *)
(* lists in order of priority, and that no wakeup is lost.                 *)
(***************************************************************************)
EXTENDS KernelQueue, TLAPS, FiniteSetTheorems, WellFoundedInduction

LEMMA Numbers ==
  /\ queueUNLOCKED = -1 /\ queueLOCKED_UNMODIFIED = 0
  /\ Length \in Nat /\ Length > 0 /\ NumberOfTasks \in Nat
BY LengthAssumption, NumberAssumption DEF queueUNLOCKED, queueLOCKED_UNMODIFIED

LEMMA HighestLemma ==
  ASSUME NEW S PROVE Highest(S) \subseteq S
BY DEF Highest

LEMMA FirstLemma ==
  ASSUME NEW list, NEW k PROVE First(list, k) \subseteq list
BY DEF First

-----------------------------------------------------------------------------
(* The type invariant *)

LEMMA TypeInit == Init => TypeOK
<1> SUFFICES ASSUME Init PROVE TypeOK
  OBVIOUS
<1>1. current \in AllTasks
  BY HighestLemma DEF Init
<1>2. QueueTypeOK
  BY Numbers DEF Init, QueueTypeOK
<1>3. SchedTypeOK
  BY <1>1 DEF Init, SchedTypeOK
<1>4. TaskTypeOK
  BY DEF Init, TaskTypeOK, PcSet, OpSet, WaitSet
<1> QED
  BY <1>2, <1>3, <1>4 DEF TypeOK

LEMMA GotoType ==
  ASSUME TaskTypeOK, NEW t \in Tasks, NEW label \in PcSet, Goto(t, label)
  PROVE  TaskTypeOK'
BY DEF TaskTypeOK, Goto

LEMMA ReturnType ==
  ASSUME TaskTypeOK, NEW t \in Tasks, Return(t)
  PROVE  TaskTypeOK'
BY DEF TaskTypeOK, Return, PcSet, OpSet, WaitSet

\* What a wakeup changes keeps its type.
WakeTypeOK ==
  /\ recvWait \in SUBSET Tasks
  /\ sendWait \in SUBSET Tasks
  /\ ahead \in [Tasks -> SUBSET Tasks]
  /\ ready \in SUBSET AllTasks
  /\ timed \in SUBSET Tasks
  /\ pendingReady \in SUBSET Tasks
  /\ yieldPending \in BOOLEAN
  /\ pendsv \in BOOLEAN

LEMMA RemoveItemsType ==
  ASSUME ahead \in [Tasks -> SUBSET Tasks], NEW S, RemoveItems(S)
  PROVE  ahead' \in [Tasks -> SUBSET Tasks]
BY DEF RemoveItems

LEMMA UnblockType ==
  ASSUME SchedTypeOK, NEW S \in SUBSET Tasks, Unblock(S)
  PROVE  /\ ready' \in SUBSET AllTasks
         /\ timed' \in SUBSET Tasks
         /\ pendingReady' \in SUBSET Tasks
         /\ yieldPending' \in BOOLEAN
BY DEF SchedTypeOK, Unblock, AllTasks, Outranks

LEMMA WakeReceiverType ==
  ASSUME TypeOK, WakeReceiver PROVE WakeTypeOK'
BY FirstLemma, RemoveItemsType, UnblockType
   DEF TypeOK, QueueTypeOK, SchedTypeOK, WakeReceiver, WakeTypeOK, Outranks

LEMMA WakeSenderType ==
  ASSUME TypeOK, WakeSender PROVE WakeTypeOK'
BY FirstLemma, RemoveItemsType, UnblockType
   DEF TypeOK, QueueTypeOK, SchedTypeOK, WakeSender, WakeTypeOK, Outranks

LEMMA WakeNobodyType ==
  ASSUME TypeOK, WakeNobody PROVE WakeTypeOK'
BY DEF TypeOK, QueueTypeOK, SchedTypeOK, WakeNobody, WakeTypeOK

LEMMA GiveUpOrBlockType ==
  ASSUME TypeOK, NEW t \in Tasks, GiveUpOrBlock(t)
  PROVE  WakeTypeOK' /\ TaskTypeOK' /\ messages' = messages
<1>1. "suspend" \in PcSet
  BY DEF PcSet
<1> QED
  BY <1>1, WakeNobodyType, GotoType, ReturnType DEF GiveUpOrBlock, TypeOK

LEMMA IncrementTickType ==
  ASSUME TypeOK, NEW r \in SUBSET AllTasks, NEW d \in SUBSET Tasks,
         NEW E \in SUBSET MayExpire, IncrementTick(r, d, E)
  PROVE  /\ expired' \in SUBSET Tasks
         /\ ready' \in SUBSET AllTasks
         /\ timed' \in SUBSET Tasks
         /\ recvWait' \in SUBSET Tasks
         /\ sendWait' \in SUBSET Tasks
         /\ ahead' \in [Tasks -> SUBSET Tasks]
BY RemoveItemsType DEF TypeOK, QueueTypeOK, TaskTypeOK, IncrementTick, MayExpire, AllTasks

\* While a task outside the suspended section runs, the scheduler is not
\* suspended and nobody holds the queue lock.
LEMMA OutsideLemma ==
  ASSUME TypeOK, SuspendedSectionExclusive, current \in Tasks => pc[current] \notin SuspendedPcs
  PROVE  /\ suspended = 0
         /\ \A u \in Tasks : pc[u] \notin SuspendedPcs
         /\ cRxLock = queueUNLOCKED /\ cTxLock = queueUNLOCKED
         /\ pendingReady = {}
BY DEF SuspendedSectionExclusive, TypeOK, SchedTypeOK, SuspendedPcs

LEMMA TypeNext ==
  ASSUME TypeOK, SuspendedSectionExclusive, [Next]_vars PROVE TypeOK'
<1> USE Numbers
<1>1. ASSUME NEW t \in Tasks, NEW o \in TaskOps, NEW w \in WaitSet, Call(t, o, w)
      PROVE  TypeOK'
  BY <1>1 DEF Call, TypeOK, TaskTypeOK, QueueTypeOK, SchedTypeOK, queueVars, schedVars,
     PcSet, SuspendedPcs, LockedPcs, OpSet
<1>2. ASSUME NEW t \in Tasks, ResetQueue(t) PROVE TypeOK'
  BY <1>2, WakeSenderType DEF ResetQueue, TypeOK, TaskTypeOK, QueueTypeOK, SchedTypeOK,
     taskVars, WakeTypeOK
<1>3. ASSUME NEW t \in Tasks, TrySend(t) PROVE TypeOK'
  BY <1>3, WakeReceiverType, ReturnType, GiveUpOrBlockType
     DEF TrySend, TypeOK, QueueTypeOK, SchedTypeOK, WakeTypeOK
<1>4. ASSUME NEW t \in Tasks, TryReceive(t) PROVE TypeOK'
  BY <1>4, WakeSenderType, ReturnType, GiveUpOrBlockType
     DEF TryReceive, TypeOK, QueueTypeOK, SchedTypeOK, WakeTypeOK
<1>5. ASSUME NEW t \in Tasks, TryPeek(t) PROVE TypeOK'
  BY <1>5, WakeReceiverType, ReturnType, GiveUpOrBlockType
     DEF TryPeek, TypeOK, QueueTypeOK, SchedTypeOK, WakeTypeOK
<1>6. ASSUME NEW t \in Tasks, LockQueue(t) PROVE TypeOK'
  <2>1. "timeout" \in PcSet
    BY DEF PcSet, SuspendedPcs, LockedPcs
  <2> QED
    BY <1>6, <2>1, GotoType DEF LockQueue, TypeOK, QueueTypeOK, SchedTypeOK, schedVars
<1>7. ASSUME NEW t \in Tasks, CheckForTimeOut(t) PROVE TypeOK'
  BY <1>7 DEF CheckForTimeOut, Branch, Goto, TypeOK, QueueTypeOK, SchedTypeOK, TaskTypeOK,
     queueVars, schedVars, PcSet, SuspendedPcs, LockedPcs, WaitSet
<1>8. ASSUME NEW t \in Tasks, CheckQueue(t) PROVE TypeOK'
  BY <1>8 DEF CheckQueue, Branch, TypeOK, QueueTypeOK, SchedTypeOK, TaskTypeOK,
     queueVars, schedVars, PcSet, SuspendedPcs, LockedPcs
<1>9. ASSUME NEW t \in Tasks, PlaceOnEventList(t) PROVE TypeOK'
  <2>1. "unlockTx" \in PcSet
    BY DEF PcSet, SuspendedPcs, LockedPcs
  <2>2. TaskTypeOK'
    BY <1>9, <2>1, GotoType DEF PlaceOnEventList, TypeOK
  <2>3. SchedTypeOK'
    BY <1>9 DEF PlaceOnEventList, LeaveReady, TypeOK, SchedTypeOK
  <2>4. QueueTypeOK'
    BY <1>9 DEF PlaceOnEventList, InsertByPriority, TypeOK, QueueTypeOK
  <2> QED
    BY <2>2, <2>3, <2>4 DEF TypeOK
<1>10. ASSUME NEW t \in Tasks, DelayTask(t) PROVE TypeOK'
  <2>1. "resume" \in PcSet
    BY DEF PcSet, SuspendedPcs
  <2> QED
    BY <1>10, <2>1, GotoType DEF DelayTask, LeaveReady, TypeOK, QueueTypeOK, SchedTypeOK, queueVars
<1>11. ASSUME NEW t \in Tasks, UnlockTx(t) PROVE TypeOK'
  <2>1. "unlockRx" \in PcSet
    BY DEF PcSet, SuspendedPcs, LockedPcs
  <2>2. First(recvWait, cTxLock) \in SUBSET Tasks
    BY FirstLemma DEF TypeOK, QueueTypeOK
  <2> QED
    BY <1>11, <2>1, <2>2, GotoType, UnblockType, RemoveItemsType
       DEF UnlockTx, TypeOK, QueueTypeOK, SchedTypeOK
<1>12. ASSUME NEW t \in Tasks, UnlockRx(t) PROVE TypeOK'
  <2>1. "resume" \in PcSet
    BY DEF PcSet, SuspendedPcs
  <2>2. First(sendWait, cRxLock) \in SUBSET Tasks
    BY FirstLemma DEF TypeOK, QueueTypeOK
  <2> QED
    BY <1>12, <2>1, <2>2, GotoType, UnblockType, RemoveItemsType
       DEF UnlockRx, TypeOK, QueueTypeOK, SchedTypeOK
<1>13. ASSUME NEW t \in Tasks, NEW E \in SUBSET MayExpire, ResumeAll(t, E) PROVE TypeOK'
  <2>1. ready \union pendingReady \in SUBSET AllTasks /\ timed \ pendingReady \in SUBSET Tasks
    BY DEF TypeOK, SchedTypeOK, AllTasks
  <2>2. /\ expired' \in SUBSET Tasks
        /\ ready' \in SUBSET AllTasks
        /\ timed' \in SUBSET Tasks
        /\ recvWait' \in SUBSET Tasks
        /\ sendWait' \in SUBSET Tasks
        /\ ahead' \in [Tasks -> SUBSET Tasks]
    BY <1>13, <2>1, IncrementTickType
       DEF ResumeAll, TypeOK, QueueTypeOK, TaskTypeOK
  <2>3. yieldPending' \in BOOLEAN /\ pendsv' \in BOOLEAN
    BY <1>13 DEF ResumeAll, Outranks
  <2>4. pc' \in [Tasks -> PcSet]
    BY <1>13 DEF ResumeAll, TypeOK, TaskTypeOK, PcSet, AfterYield
  <2>5. suspended' \in {0, 1}
    <3>1. pc[t] \in SuspendedPcs
      BY <1>13 DEF ResumeAll, At, SuspendedPcs
    <3>2. suspended = 1
      BY <3>1 DEF SuspendedSectionExclusive
    <3> QED
      BY <1>13, <3>2 DEF ResumeAll
  <2> QED
    BY <1>13, <2>2, <2>3, <2>4, <2>5 DEF ResumeAll, TypeOK, QueueTypeOK, SchedTypeOK, TaskTypeOK
<1>14. ASSUME NEW t \in Tasks, SuspendAll(t) PROVE TypeOK'
  <2>1. suspended = 0
    BY <1>14, OutsideLemma DEF SuspendAll, At, SuspendedPcs, LockedPcs
  <2>2. "lock" \in PcSet /\ "delay" \in PcSet
    BY DEF PcSet, SuspendedPcs
  <2> QED
    BY <1>14, <2>1, <2>2, GotoType DEF SuspendAll, TypeOK, QueueTypeOK, SchedTypeOK, queueVars
<1>15. ASSUME NEW t \in Tasks, YieldWithinApi(t) PROVE TypeOK'
  <2>1. AfterYield(t) \in PcSet
    BY DEF PcSet, AfterYield
  <2> QED
    BY <1>15, <2>1, GotoType DEF YieldWithinApi, TypeOK, QueueTypeOK, SchedTypeOK, queueVars
<1>16. ASSUME NEW t \in Tasks, DelayReturns(t) PROVE TypeOK'
  BY <1>16, ReturnType DEF DelayReturns, TypeOK, QueueTypeOK, SchedTypeOK, queueVars, schedVars
<1>17. ASSUME NEW t \in Tasks, AfterTimeOut(t) PROVE TypeOK'
  <2>1. "try" \in PcSet
    BY DEF PcSet
  <2> QED
    BY <1>17, <2>1, ReturnType, GotoType
       DEF AfterTimeOut, TypeOK, QueueTypeOK, SchedTypeOK, queueVars, schedVars
<1>18. CASE SendFromISR
  <2>1. WakeTypeOK'
    BY <1>18, WakeReceiverType, WakeNobodyType DEF SendFromISR
  <2>2. messages' \in 0..Length /\ cTxLock' \in queueUNLOCKED..NumberOfTasks
    BY <1>18 DEF SendFromISR, TypeOK, QueueTypeOK
  <2> QED
    BY <1>18, <2>1, <2>2
       DEF SendFromISR, TypeOK, QueueTypeOK, SchedTypeOK, TaskTypeOK, WakeTypeOK, taskVars
<1>19. CASE ReceiveFromISR
  <2>1. WakeTypeOK'
    BY <1>19, WakeSenderType, WakeNobodyType DEF ReceiveFromISR
  <2>2. messages' \in 0..Length /\ cRxLock' \in queueUNLOCKED..NumberOfTasks
    BY <1>19 DEF ReceiveFromISR, TypeOK, QueueTypeOK
  <2> QED
    BY <1>19, <2>1, <2>2
       DEF ReceiveFromISR, TypeOK, QueueTypeOK, SchedTypeOK, TaskTypeOK, WakeTypeOK, taskVars
<1>20. ASSUME NEW E \in SUBSET MayExpire, Tick(E) PROVE TypeOK'
  <2>1. CASE suspended = 0
    <3>1. ready \in SUBSET AllTasks /\ timed \in SUBSET Tasks
      BY DEF TypeOK, SchedTypeOK
    <3>2. IncrementTick(ready, timed, E)
      BY <1>20, <2>1 DEF Tick
    <3>3. pendsv' \in BOOLEAN
      BY <1>20, <2>1 DEF Tick, Outranks
    <3>4. /\ expired' \in SUBSET Tasks
          /\ ready' \in SUBSET AllTasks
          /\ timed' \in SUBSET Tasks
          /\ recvWait' \in SUBSET Tasks
          /\ sendWait' \in SUBSET Tasks
          /\ ahead' \in [Tasks -> SUBSET Tasks]
      BY <3>1, <3>2, IncrementTickType
    <3>5. UNCHANGED <<messages, cTxLock, cRxLock, current, pendingReady, suspended,
                      yieldPending, pendedTicks, pc, op, wait, outcome>>
      BY <1>20, <2>1 DEF Tick
    <3> QED
      BY <3>3, <3>4, <3>5 DEF TypeOK, QueueTypeOK, SchedTypeOK, TaskTypeOK
  <2>2. CASE suspended # 0
    BY <1>20, <2>2 DEF Tick, TypeOK, QueueTypeOK, SchedTypeOK, TaskTypeOK, queueVars, taskVars
  <2> QED
    BY <2>1, <2>2
<1>21. CASE SwitchContext
  BY <1>21, HighestLemma
     DEF SwitchContext, TypeOK, QueueTypeOK, SchedTypeOK, TaskTypeOK, queueVars, taskVars
<1>22. CASE UNCHANGED vars
  BY <1>22 DEF vars, queueVars, schedVars, taskVars, TypeOK, QueueTypeOK, SchedTypeOK, TaskTypeOK
<1>23. ASSUME NEW t \in Tasks, TaskStep(t) PROVE TypeOK'
  BY <1>23, <1>1, <1>2, <1>3, <1>4, <1>5, <1>6, <1>7, <1>8, <1>9, <1>10, <1>11, <1>12,
     <1>13, <1>14, <1>15, <1>16, <1>17 DEF TaskStep
<1> QED
  BY <1>18, <1>19, <1>20, <1>21, <1>22, <1>23 DEF Next

-----------------------------------------------------------------------------
(* The suspended section *)

LEMMA ExclusiveInit == Init => SuspendedSectionExclusive
BY DEF Init, SuspendedSectionExclusive, SuspendedPcs, LockedPcs, queueUNLOCKED

\* A step of the running task keeps the section exclusive when that task is
\* inside it exactly if the scheduler is suspended.
LEMMA ExclusiveStep ==
  ASSUME TypeOK, SuspendedSectionExclusive, NEW t \in Tasks,
         current = t, current' = t,
         \A u \in Tasks \ {t} : pc'[u] = pc[u],
         suspended' = 1 <=> pc'[t] \in SuspendedPcs,
         cRxLock' # queueUNLOCKED => pc'[t] \in LockedPcs,
         cTxLock' # queueUNLOCKED => pc'[t] \in LockedPcs \ {"unlockRx"},
         suspended' = 0 => pendingReady' = {}
  PROVE  SuspendedSectionExclusive'
<1> USE DEF SuspendedSectionExclusive
<1>1. \A u \in Tasks \ {t} : pc'[u] \notin SuspendedPcs
  OBVIOUS
<1>2. (suspended = 1 <=> \E u \in Tasks : pc[u] \in SuspendedPcs)'
  BY <1>1
<1> QED
  BY <1>1, <1>2

\* A step of a task outside the section, or of an interrupt, that changes
\* neither who is inside nor the locks.
LEMMA ExclusiveOutside ==
  ASSUME TypeOK, SuspendedSectionExclusive,
         current \in Tasks => pc[current] \notin SuspendedPcs,
         \A u \in Tasks : pc'[u] # pc[u] => pc'[u] \notin SuspendedPcs,
         suspended' = suspended,
         cRxLock' = queueUNLOCKED, cTxLock' = queueUNLOCKED,
         pendingReady' = pendingReady
  PROVE  SuspendedSectionExclusive'
<1>1. \A u \in Tasks : pc'[u] \notin SuspendedPcs
  BY OutsideLemma
<1> QED
  BY <1>1, OutsideLemma DEF SuspendedSectionExclusive

LEMMA UnblockOutside ==
  ASSUME suspended = 0, NEW S, Unblock(S) PROVE pendingReady' = pendingReady
BY DEF Unblock

LEMMA WakeOutside ==
  ASSUME suspended = 0, WakeReceiver \/ WakeSender \/ WakeNobody
  PROVE  pendingReady' = pendingReady
BY UnblockOutside DEF WakeReceiver, WakeSender, WakeNobody

LEMMA GotoPc ==
  ASSUME TypeOK, NEW t \in Tasks, NEW label, Goto(t, label)
  PROVE  pc'[t] = label /\ \A u \in Tasks \ {t} : pc'[u] = pc[u]
BY DEF Goto, TypeOK, TaskTypeOK

LEMMA ReturnPc ==
  ASSUME TypeOK, NEW t \in Tasks, Return(t)
  PROVE  pc'[t] = "out" /\ \A u \in Tasks \ {t} : pc'[u] = pc[u]
BY DEF Return, TypeOK, TaskTypeOK

LEMMA BranchPc ==
  ASSUME TypeOK, NEW t \in Tasks, NEW label, NEW o, Branch(t, label, o)
  PROVE  pc'[t] = label /\ \A u \in Tasks \ {t} : pc'[u] = pc[u]
BY DEF Branch, TypeOK, TaskTypeOK

LEMMA ExclusiveNext ==
  ASSUME TypeOK, SuspendedSectionExclusive, [Next]_vars
  PROVE  SuspendedSectionExclusive'
<1> USE OutsideLemma
<1>1. ASSUME NEW t \in Tasks, NEW o \in TaskOps, NEW w \in WaitSet, Call(t, o, w)
      PROVE  SuspendedSectionExclusive'
  <2>1. pc[t] \notin SuspendedPcs /\ current = t
    BY <1>1 DEF Call, At, SuspendedPcs, LockedPcs
  <2>2. \A u \in Tasks : pc'[u] # pc[u] => pc'[u] \notin SuspendedPcs
    BY <1>1 DEF Call, TypeOK, TaskTypeOK, SuspendedPcs, LockedPcs
  <2> QED
    BY <1>1, <2>1, <2>2, ExclusiveOutside DEF Call, queueVars, schedVars
<1>2. ASSUME NEW t \in Tasks, ResetQueue(t) PROVE SuspendedSectionExclusive'
  <2>1. pc[t] \notin SuspendedPcs /\ current = t
    BY <1>2 DEF ResetQueue, At, SuspendedPcs, LockedPcs
  <2> QED
    BY <1>2, <2>1, ExclusiveOutside, WakeOutside DEF ResetQueue, taskVars
<1>3. ASSUME NEW t \in Tasks, TrySend(t) \/ TryReceive(t) \/ TryPeek(t)
      PROVE  SuspendedSectionExclusive'
  <2>1. pc[t] \notin SuspendedPcs /\ current = t
    BY <1>3 DEF TrySend, TryReceive, TryPeek, At, SuspendedPcs, LockedPcs
  <2>2. Return(t) \/ Goto(t, "suspend")
    BY <1>3 DEF TrySend, TryReceive, TryPeek, GiveUpOrBlock
  <2>3. \A u \in Tasks : pc'[u] # pc[u] => pc'[u] \notin SuspendedPcs
    BY <2>2, GotoPc, ReturnPc DEF SuspendedPcs, LockedPcs
  <2>4. WakeReceiver \/ WakeSender \/ WakeNobody
    BY <1>3 DEF TrySend, TryReceive, TryPeek, GiveUpOrBlock
  <2>5. UNCHANGED <<cTxLock, cRxLock, current, suspended>>
    BY <1>3 DEF TrySend, TryReceive, TryPeek
  <2> QED
    BY <2>1, <2>3, <2>4, <2>5, ExclusiveOutside, WakeOutside
<1>4. ASSUME NEW t \in Tasks, SuspendAll(t) PROVE SuspendedSectionExclusive'
  <2>1. pc[t] \notin SuspendedPcs /\ current = t /\ current' = t
    BY <1>4 DEF SuspendAll, At, SuspendedPcs, LockedPcs
  <2>2. pc'[t] \in SuspendedPcs /\ \A u \in Tasks \ {t} : pc'[u] = pc[u]
    BY <1>4, GotoPc DEF SuspendAll, SuspendedPcs
  <2>3. suspended' = 1 /\ cRxLock' = queueUNLOCKED /\ cTxLock' = queueUNLOCKED
    BY <1>4, <2>1 DEF SuspendAll, queueVars
  <2> QED
    BY <2>1, <2>2, <2>3, ExclusiveStep
<1>5. ASSUME NEW t \in Tasks, pc[t] \in SuspendedPcs, current = t, current' = t,
             \A u \in Tasks \ {t} : pc'[u] = pc[u],
             suspended' = suspended, pc'[t] \in SuspendedPcs,
             cRxLock' # queueUNLOCKED => pc'[t] \in LockedPcs,
             cTxLock' # queueUNLOCKED => pc'[t] \in LockedPcs \ {"unlockRx"}
      PROVE  SuspendedSectionExclusive'
  <2>1. suspended = 1
    BY <1>5 DEF SuspendedSectionExclusive
  <2> QED
    BY <1>5, <2>1, ExclusiveStep
<1>6. ASSUME NEW t \in Tasks, pc[t] \in SuspendedPcs
      PROVE  /\ suspended = 1 /\ current = t
             /\ cRxLock # queueUNLOCKED => pc[t] \in LockedPcs
             /\ cTxLock # queueUNLOCKED => pc[t] \in LockedPcs \ {"unlockRx"}
  BY <1>6 DEF SuspendedSectionExclusive, SuspendedPcs, LockedPcs
<1>7. ASSUME NEW t \in Tasks, LockQueue(t) PROVE SuspendedSectionExclusive'
  <2>1. pc[t] \in SuspendedPcs /\ current = t /\ current' = t /\ suspended' = suspended
    BY <1>7 DEF LockQueue, At, SuspendedPcs, schedVars
  <2>2. pc'[t] = "timeout" /\ \A u \in Tasks \ {t} : pc'[u] = pc[u]
    BY <1>7, GotoPc DEF LockQueue
  <2> QED
    BY <2>1, <2>2, <1>5 DEF SuspendedPcs, LockedPcs
<1>8. ASSUME NEW t \in Tasks, CheckForTimeOut(t) \/ CheckQueue(t)
      PROVE  SuspendedSectionExclusive'
  <2>1. pc[t] \in SuspendedPcs /\ current = t
    BY <1>8 DEF CheckForTimeOut, CheckQueue, At, SuspendedPcs, LockedPcs
  <2>2. current' = t /\ suspended' = suspended
    BY <1>8, <2>1 DEF CheckForTimeOut, CheckQueue, schedVars
  <2>3. /\ pc'[t] \in {"unlockTx", "check", "place"}
        /\ \A u \in Tasks \ {t} : pc'[u] = pc[u]
    BY <1>8, GotoPc, BranchPc DEF CheckForTimeOut, CheckQueue
  <2> QED
    BY <2>1, <2>2, <2>3, <1>5 DEF SuspendedPcs, LockedPcs
<1>9. ASSUME NEW t \in Tasks, PlaceOnEventList(t) PROVE SuspendedSectionExclusive'
  <2>1. pc[t] \in SuspendedPcs /\ current = t /\ current' = t /\ suspended' = suspended
    BY <1>9 DEF PlaceOnEventList, At, SuspendedPcs, LockedPcs
  <2>2. pc'[t] = "unlockTx" /\ \A u \in Tasks \ {t} : pc'[u] = pc[u]
    BY <1>9, GotoPc DEF PlaceOnEventList
  <2> QED
    BY <2>1, <2>2, <1>5 DEF SuspendedPcs, LockedPcs
<1>10. ASSUME NEW t \in Tasks, DelayTask(t) PROVE SuspendedSectionExclusive'
  <2>1. pc[t] = "delay" /\ current = t /\ current' = t /\ suspended' = suspended
    BY <1>10 DEF DelayTask, At
  <2>2. pc'[t] = "resume" /\ \A u \in Tasks \ {t} : pc'[u] = pc[u]
    BY <1>10, GotoPc DEF DelayTask
  <2>3. cRxLock' = queueUNLOCKED /\ cTxLock' = queueUNLOCKED
    BY <1>10, <2>1, <1>6 DEF DelayTask, SuspendedPcs, LockedPcs, queueVars
  <2> QED
    BY <2>1, <2>2, <2>3, <1>5 DEF SuspendedPcs
<1>11. ASSUME NEW t \in Tasks, UnlockTx(t) PROVE SuspendedSectionExclusive'
  <2>1. pc[t] \in SuspendedPcs /\ current = t /\ current' = t /\ suspended' = suspended
    BY <1>11 DEF UnlockTx, At, SuspendedPcs, LockedPcs
  <2>2. pc'[t] = "unlockRx" /\ \A u \in Tasks \ {t} : pc'[u] = pc[u]
    BY <1>11, GotoPc DEF UnlockTx
  <2>3. cTxLock' = queueUNLOCKED
    BY <1>11 DEF UnlockTx
  <2> QED
    BY <2>1, <2>2, <2>3, <1>5 DEF SuspendedPcs, LockedPcs
<1>12. ASSUME NEW t \in Tasks, UnlockRx(t) PROVE SuspendedSectionExclusive'
  <2>1. pc[t] = "unlockRx" /\ current = t /\ current' = t /\ suspended' = suspended
    BY <1>12 DEF UnlockRx, At
  <2>2. pc'[t] = "resume" /\ \A u \in Tasks \ {t} : pc'[u] = pc[u]
    BY <1>12, GotoPc DEF UnlockRx
  <2>3. cRxLock' = queueUNLOCKED /\ cTxLock' = queueUNLOCKED
    BY <1>12, <2>1, <1>6 DEF UnlockRx, SuspendedPcs, LockedPcs
  <2> QED
    BY <2>1, <2>2, <2>3, <1>5 DEF SuspendedPcs, LockedPcs
<1>13. ASSUME NEW t \in Tasks, NEW E \in SUBSET MayExpire, ResumeAll(t, E)
       PROVE  SuspendedSectionExclusive'
  <2>1. pc[t] = "resume" /\ current = t /\ current' = t
    BY <1>13 DEF ResumeAll, At
  <2>2. /\ suspended = 1
        /\ cRxLock = queueUNLOCKED /\ cTxLock = queueUNLOCKED
    BY <2>1, <1>6 DEF SuspendedPcs, LockedPcs
  <2>3. suspended' = 0 /\ cRxLock' = queueUNLOCKED /\ cTxLock' = queueUNLOCKED
    BY <1>13, <2>2 DEF ResumeAll
  <2>4. pendingReady' = {}
    BY <1>13 DEF ResumeAll
  <2>5. /\ pc'[t] \in {"yield", "delayed", "try", "recheck"}
        /\ \A u \in Tasks \ {t} : pc'[u] = pc[u]
    BY <1>13 DEF ResumeAll, AfterYield, TypeOK, TaskTypeOK
  <2> QED
    BY <2>1, <2>3, <2>4, <2>5, ExclusiveStep DEF SuspendedPcs, LockedPcs
<1>14. ASSUME NEW t \in Tasks, YieldWithinApi(t) \/ DelayReturns(t) \/ AfterTimeOut(t)
       PROVE  SuspendedSectionExclusive'
  <2>1. pc[t] \notin SuspendedPcs /\ current = t
    BY <1>14 DEF YieldWithinApi, DelayReturns, AfterTimeOut, At, SuspendedPcs, LockedPcs
  <2>2. \A u \in Tasks : pc'[u] # pc[u] => pc'[u] \notin SuspendedPcs
    BY <1>14, GotoPc, ReturnPc
       DEF YieldWithinApi, DelayReturns, AfterTimeOut, AfterYield, SuspendedPcs, LockedPcs
  <2>3. UNCHANGED <<cTxLock, cRxLock, current, suspended, pendingReady>>
    BY <1>14 DEF YieldWithinApi, DelayReturns, AfterTimeOut, queueVars, schedVars
  <2> QED
    BY <2>1, <2>2, <2>3, ExclusiveOutside
<1>15. ASSUME UNCHANGED <<pc, suspended>>,
              current' # current => suspended = 0,
              cRxLock' # queueUNLOCKED => cRxLock # queueUNLOCKED,
              cTxLock' # queueUNLOCKED => cTxLock # queueUNLOCKED,
              suspended = 0 => pendingReady' = pendingReady
       PROVE  SuspendedSectionExclusive'
  BY <1>15 DEF SuspendedSectionExclusive
<1>16. CASE SendFromISR
  <2>1. suspended = 0 => pendingReady' = pendingReady
    BY <1>16, WakeOutside DEF SendFromISR
  <2> QED
    BY <1>16, <2>1, <1>15 DEF SendFromISR, taskVars
<1>17. CASE ReceiveFromISR
  <2>1. suspended = 0 => pendingReady' = pendingReady
    BY <1>17, WakeOutside DEF ReceiveFromISR
  <2> QED
    BY <1>17, <2>1, <1>15 DEF ReceiveFromISR, taskVars
<1>18. ASSUME NEW E \in SUBSET MayExpire, Tick(E) PROVE SuspendedSectionExclusive'
  BY <1>18, <1>15 DEF Tick, queueVars, taskVars
<1>19. CASE SwitchContext
  <2>1. suspended \in {0, 1}
    BY DEF TypeOK, SchedTypeOK
  <2> QED
    BY <1>19, <2>1, <1>15 DEF SwitchContext, queueVars, taskVars
<1>20. CASE UNCHANGED vars
  BY <1>20, <1>15 DEF vars, queueVars, schedVars, taskVars
<1>21. ASSUME NEW t \in Tasks, TaskStep(t) PROVE SuspendedSectionExclusive'
  BY <1>21, <1>1, <1>2, <1>3, <1>4, <1>7, <1>8, <1>9, <1>10, <1>11, <1>12, <1>13, <1>14
     DEF TaskStep
<1> QED
  BY <1>16, <1>17, <1>18, <1>19, <1>20, <1>21 DEF Next

\* In every execution each variable keeps its type, the message count stays
\* within the queue and the lock counts within their int8_t bound, and the
\* section between vTaskSuspendAll and xTaskResumeAll is exclusive: the queue is
\* locked only inside it and nothing is left on the pending-ready list outside.
THEOREM SectionCorrect == Spec => [](TypeOK /\ SuspendedSectionExclusive)
<1>1. Init => TypeOK /\ SuspendedSectionExclusive
  BY TypeInit, ExclusiveInit
<1>2. (TypeOK /\ SuspendedSectionExclusive) /\ [Next]_vars
        => (TypeOK /\ SuspendedSectionExclusive)'
  BY TypeNext, ExclusiveNext
<1> QED
  BY <1>1, <1>2, PTL DEF Spec

-----------------------------------------------------------------------------
(* The event lists while the queue is locked *)

LEMMA LockedListsStep ==
  ASSUME TypeOK, SuspendedSectionExclusive, [Next]_vars,
         (cTxLock # queueUNLOCKED /\ recvWait' # recvWait) \/
         (cRxLock # queueUNLOCKED /\ sendWait' # sendWait)
  PROVE  \E t \in Tasks : pc[t] \in LockedPcs /\ pc'[t] # pc[t]
<1> USE OutsideLemma
\* Outside the section nobody holds the lock, so only its steps are left.
<1>1. ASSUME NEW t \in Tasks, current = t, pc[t] \notin LockedPcs
      PROVE  FALSE
  BY <1>1 DEF SuspendedSectionExclusive, SuspendedPcs
<1>2. suspended # 0
  BY DEF SuspendedSectionExclusive, SuspendedPcs
<1>3. ASSUME NEW t \in Tasks, TaskStep(t)
      PROVE  pc[t] \in LockedPcs /\ pc'[t] # pc[t]
  <2>1. current = t
    BY <1>3 DEF TaskStep, At, Call, ResetQueue, TrySend, TryReceive, TryPeek, SuspendAll,
       LockQueue, CheckForTimeOut, CheckQueue, PlaceOnEventList, DelayTask, UnlockTx,
       UnlockRx, ResumeAll, YieldWithinApi, DelayReturns, AfterTimeOut
  <2>2. pc[t] \in LockedPcs
    BY <1>1, <2>1
  <2>3. \/ CheckForTimeOut(t) \/ CheckQueue(t) \/ PlaceOnEventList(t)
        \/ UnlockTx(t) \/ UnlockRx(t)
    BY <1>3, <2>2 DEF TaskStep, At, Call, ResetQueue, TrySend, TryReceive, TryPeek, SuspendAll,
       LockQueue, DelayTask, ResumeAll, YieldWithinApi, DelayReturns, AfterTimeOut, LockedPcs
  <2>4. CASE CheckForTimeOut(t) \/ CheckQueue(t)
    BY <2>4 DEF CheckForTimeOut, CheckQueue, queueVars
  <2>5. CASE PlaceOnEventList(t)
    BY <2>5, <2>2, GotoPc DEF PlaceOnEventList, At
  <2>6. CASE UnlockTx(t)
    BY <2>6, <2>2, GotoPc DEF UnlockTx, At
  <2>7. CASE UnlockRx(t)
    BY <2>7, <2>2, GotoPc DEF UnlockRx, At
  <2> QED
    BY <2>3, <2>4, <2>5, <2>6, <2>7
<1>4. CASE SendFromISR
  BY <1>4 DEF SendFromISR, WakeReceiver, WakeNobody
<1>5. CASE ReceiveFromISR
  BY <1>5 DEF ReceiveFromISR, WakeSender, WakeNobody
<1>6. ASSUME NEW E \in SUBSET MayExpire, Tick(E) PROVE FALSE
  BY <1>2, <1>6 DEF Tick, queueVars
<1>7. CASE SwitchContext
  BY <1>7 DEF SwitchContext, queueVars
<1>8. CASE UNCHANGED vars
  BY <1>8 DEF vars, queueVars
<1> QED
  BY <1>3, <1>4, <1>5, <1>6, <1>7, <1>8 DEF Next

\* No interrupt changes an event list while the queue is locked: only the task
\* between prvLockQueue and the end of prvUnlockQueue does.
THEOREM LockedListsCorrect == Spec => LockedListsLeftAlone
<1>1. TypeOK /\ SuspendedSectionExclusive /\ [Next]_vars
        => [ (cTxLock # queueUNLOCKED /\ recvWait' # recvWait) \/
             (cRxLock # queueUNLOCKED /\ sendWait' # sendWait)
             => \E t \in Tasks : pc[t] \in LockedPcs /\ pc'[t] # pc[t] ]_vars
  BY LockedListsStep
<1> QED
  BY <1>1, SectionCorrect, PTL DEF Spec, LockedListsLeftAlone
-----------------------------------------------------------------------------
(* Where a task is: the ready, delayed, pending-ready and event lists *)

\* What the local variables of a call say at each of its labels.
CallConsistent ==
  \A t \in Tasks :
    /\ pc[t] \in {"out", "place"} => outcome[t] = "block"
    /\ op[t] = "delay" => outcome[t] = "block" /\ wait[t] = "finite"
    /\ pc[t] \in {"lock", "timeout", "check"} => op[t] # "delay"
    /\ pc[t] = "delay" => op[t] = "delay"

LEMMA CallConsistentInit == Init => CallConsistent
BY DEF Init, CallConsistent

\* A step of t touches the local variables of no other task.
LEMMA CallConsistentStep ==
  ASSUME CallConsistent, NEW t \in Tasks,
         \A u \in Tasks \ {t} : /\ pc'[u] = pc[u] /\ op'[u] = op[u]
                                /\ wait'[u] = wait[u] /\ outcome'[u] = outcome[u],
         pc'[t] \in {"out", "place"} => outcome'[t] = "block",
         op'[t] = "delay" => outcome'[t] = "block" /\ wait'[t] = "finite",
         pc'[t] \in {"lock", "timeout", "check"} => op'[t] # "delay",
         pc'[t] = "delay" => op'[t] = "delay"
  PROVE  CallConsistent'
BY DEF CallConsistent

LEMMA GotoConsistent ==
  ASSUME TypeOK, CallConsistent, NEW t \in Tasks, NEW label, Goto(t, label),
         label \in {"out", "place"} => outcome[t] = "block",
         label \in {"lock", "timeout", "check"} => op[t] # "delay",
         label = "delay" => op[t] = "delay"
  PROVE  CallConsistent'
BY CallConsistentStep, GotoPc DEF Goto, CallConsistent

LEMMA ReturnConsistent ==
  ASSUME TypeOK, CallConsistent, NEW t \in Tasks, Return(t)
  PROVE  CallConsistent'
<1>1. /\ pc'[t] = "out" /\ op'[t] = "none" /\ outcome'[t] = "block"
      /\ \A u \in Tasks \ {t} : /\ pc'[u] = pc[u] /\ op'[u] = op[u]
                                /\ wait'[u] = wait[u] /\ outcome'[u] = outcome[u]
  BY DEF Return, TypeOK, TaskTypeOK
<1> QED
  BY <1>1, CallConsistentStep

LEMMA CallConsistentNext ==
  ASSUME TypeOK, CallConsistent, [Next]_vars PROVE CallConsistent'
<1>1. ASSUME NEW t \in Tasks, NEW o \in TaskOps, NEW w \in WaitSet, Call(t, o, w)
      PROVE  CallConsistent'
  <2>1. o = "delay" => w = "finite"
    BY <1>1, CallsAssumption DEF Call
  <2>2. outcome[t] = "block"
    BY <1>1 DEF Call, At, CallConsistent
  <2> QED
    BY <1>1, <2>1, <2>2, CallConsistentStep DEF Call, TypeOK, TaskTypeOK
<1>2. ASSUME NEW t \in Tasks, TrySend(t) \/ TryReceive(t) \/ TryPeek(t)
      PROVE  CallConsistent'
  <2>1. Return(t) \/ Goto(t, "suspend")
    BY <1>2 DEF TrySend, TryReceive, TryPeek, GiveUpOrBlock
  <2> QED
    BY <2>1, ReturnConsistent, GotoConsistent
<1>3. ASSUME NEW t \in Tasks, SuspendAll(t) PROVE CallConsistent'
  BY <1>3, GotoConsistent DEF SuspendAll
<1>4. ASSUME NEW t \in Tasks, LockQueue(t) PROVE CallConsistent'
  <2>1. op[t] # "delay"
    BY <1>4 DEF LockQueue, At, CallConsistent
  <2> QED
    BY <1>4, <2>1, GotoConsistent DEF LockQueue
<1>5. ASSUME NEW t \in Tasks, CheckForTimeOut(t) \/ CheckQueue(t) PROVE CallConsistent'
  <2>1. op[t] # "delay"
    BY <1>5 DEF CheckForTimeOut, CheckQueue, At, CallConsistent
  <2>2. /\ \A u \in Tasks \ {t} : /\ pc'[u] = pc[u] /\ op'[u] = op[u]
                                  /\ wait'[u] = wait[u] /\ outcome'[u] = outcome[u]
        /\ op'[t] = op[t]
        /\ pc'[t] \in {"unlockTx", "check", "place"}
        /\ pc'[t] = "place" => outcome'[t] = "block"
    BY <1>5 DEF CheckForTimeOut, CheckQueue, Branch, Goto, TypeOK, TaskTypeOK
  <2> QED
    BY <2>1, <2>2, CallConsistentStep
<1>6. ASSUME NEW t \in Tasks, PlaceOnEventList(t) \/ DelayTask(t) \/ UnlockTx(t) \/ UnlockRx(t)
      PROVE  CallConsistent'
  BY <1>6, GotoConsistent DEF PlaceOnEventList, DelayTask, UnlockTx, UnlockRx
<1>7. ASSUME NEW t \in Tasks, NEW E \in SUBSET MayExpire, ResumeAll(t, E)
      PROVE  CallConsistent'
  <2>1. /\ UNCHANGED <<op, wait, outcome>>
        /\ \A u \in Tasks \ {t} : pc'[u] = pc[u]
        /\ pc'[t] \in {"yield", "delayed", "try", "recheck"}
    BY <1>7 DEF ResumeAll, AfterYield, TypeOK, TaskTypeOK
  <2> QED
    BY <2>1 DEF CallConsistent
<1>8. ASSUME NEW t \in Tasks, YieldWithinApi(t) PROVE CallConsistent'
  BY <1>8, GotoConsistent DEF YieldWithinApi, AfterYield
<1>9. ASSUME NEW t \in Tasks, DelayReturns(t) \/ AfterTimeOut(t) PROVE CallConsistent'
  BY <1>9, GotoConsistent, ReturnConsistent DEF DelayReturns, AfterTimeOut
<1>10. ASSUME UNCHANGED <<pc, op, wait, outcome>> PROVE CallConsistent'
  BY <1>10 DEF CallConsistent
<1>11. ASSUME NEW t \in Tasks, TaskStep(t) PROVE CallConsistent'
  BY <1>11, <1>1, <1>2, <1>3, <1>4, <1>5, <1>6, <1>7, <1>8, <1>9, <1>10
     DEF TaskStep, ResetQueue, taskVars
<1>12. ASSUME SendFromISR \/ ReceiveFromISR \/ SwitchContext \/ UNCHANGED vars
       PROVE  CallConsistent'
  BY <1>12, <1>10 DEF SendFromISR, ReceiveFromISR, SwitchContext, vars, taskVars
<1>13. ASSUME NEW E \in SUBSET MayExpire, Tick(E) PROVE CallConsistent'
  BY <1>13, <1>10 DEF Tick, taskVars
<1> QED
  BY <1>11, <1>12, <1>13 DEF Next
\* What a step does to the lists a task can be on: nothing, or one wakeup, or
\* one of the steps that are named here.
lists == <<ready, timed, pendingReady, recvWait, sendWait, ahead>>

LEMMA ListSteps ==
  ASSUME TypeOK, SuspendedSectionExclusive, [Next]_vars
  PROVE  \/ UNCHANGED lists
         \/ WakeReceiver /\ UNCHANGED <<current, suspended>>
         \/ WakeSender /\ UNCHANGED <<current, suspended>>
         \/ \E t \in Tasks : PlaceOnEventList(t) \/ DelayTask(t) \/ UnlockTx(t) \/ UnlockRx(t)
         \/ \E t \in Tasks, E \in SUBSET MayExpire : ResumeAll(t, E)
         \/ \E E \in SUBSET MayExpire : Tick(E) /\ suspended = 0
<1>1. ASSUME NEW t \in Tasks, NEW o \in TaskOps, NEW w \in WaitSet, Call(t, o, w)
      PROVE  UNCHANGED lists
  BY <1>1 DEF Call, queueVars, schedVars, lists
<1>2. ASSUME NEW t \in Tasks,
             TrySend(t) \/ TryReceive(t) \/ TryPeek(t) \/ ResetQueue(t)
      PROVE  /\ UNCHANGED <<current, suspended>>
             /\ WakeReceiver \/ WakeSender \/ UNCHANGED lists
  BY <1>2 DEF TrySend, TryReceive, TryPeek, ResetQueue, GiveUpOrBlock, WakeNobody, lists
<1>3. ASSUME NEW t \in Tasks,
             \/ SuspendAll(t) \/ LockQueue(t) \/ CheckForTimeOut(t) \/ CheckQueue(t)
             \/ YieldWithinApi(t) \/ DelayReturns(t) \/ AfterTimeOut(t)
      PROVE  UNCHANGED lists
  BY <1>3 DEF SuspendAll, LockQueue, CheckForTimeOut, CheckQueue, YieldWithinApi,
     DelayReturns, AfterTimeOut, queueVars, schedVars, lists
<1>4. CASE SendFromISR \/ ReceiveFromISR
  BY <1>4 DEF SendFromISR, ReceiveFromISR, WakeNobody, lists
<1>5. CASE SwitchContext \/ UNCHANGED vars
  BY <1>5 DEF SwitchContext, vars, queueVars, schedVars, lists
<1>6. ASSUME NEW E \in SUBSET MayExpire, Tick(E)
      PROVE  suspended = 0 \/ UNCHANGED lists
  BY <1>6 DEF Tick, queueVars, lists
<1>7. CASE \E t \in Tasks : TaskStep(t)
  BY <1>7, <1>1, <1>2, <1>3 DEF TaskStep
<1> QED
  BY <1>4, <1>5, <1>6, <1>7 DEF Next

LEMMA PrioLemma ==
  ASSUME NEW t \in AllTasks PROVE PrioOf(t) \in Int
BY PrioAssumption DEF PrioOf, AllTasks

LEMMA OutranksLemma ==
  ASSUME NEW S \in SUBSET AllTasks, current \in AllTasks, ~Outranks(S)
  PROVE  \A u \in S : PrioOf(u) <= PrioOf(current)
BY PrioLemma DEF Outranks

\* A wakeup moves tasks from an event list to the ready lists, or to the
\* pending-ready list when the scheduler is suspended.
LEMMA UnblockPlaces ==
  ASSUME TypeOK, SuspendedSectionExclusive, OnePlace,
         NEW S \in SUBSET (recvWait \union sendWait), Unblock(S),
         recvWait' = recvWait \ S, sendWait' = sendWait \ S
  PROVE  /\ OnePlace'
         /\ BlockedCanBeWoken => BlockedCanBeWoken'
         /\ ready \subseteq ready'
         /\ ready' \subseteq ready \union S
         /\ suspended = 1 => ready' = ready
<1>1. CASE suspended = 0
  <2>1. pendingReady = {} /\ pendingReady' = {} /\ ready' = ready \union S /\ timed' = timed \ S
    BY <1>1 DEF Unblock, SuspendedSectionExclusive
  <2> QED
    BY <1>1, <2>1 DEF OnePlace, BlockedCanBeWoken
<1>2. CASE suspended # 0
  <2>1. ready' = ready /\ timed' = timed /\ pendingReady' = pendingReady \union S
    BY <1>2 DEF Unblock
  <2> QED
    BY <1>2, <2>1 DEF OnePlace, BlockedCanBeWoken
<1> QED
  BY <1>1, <1>2

LEMMA WakePlaces ==
  ASSUME TypeOK, SuspendedSectionExclusive, OnePlace, WakeReceiver \/ WakeSender
  PROVE  /\ OnePlace'
         /\ BlockedCanBeWoken => BlockedCanBeWoken'
         /\ ready \subseteq ready'
         /\ suspended = 1 => ready' = ready
         /\ pendsv => pendsv'
         /\ ~pendsv' => \A u \in ready' \ ready : PrioOf(u) <= PrioOf(current)
<1>1. PICK S \in SUBSET (recvWait \union sendWait) :
        /\ Unblock(S)
        /\ recvWait' = recvWait \ S /\ sendWait' = sendWait \ S
        /\ pendsv' = (pendsv \/ Outranks(S))
  <2>1. CASE WakeReceiver
    BY <2>1, FirstLemma DEF WakeReceiver, OnePlace
  <2>2. CASE WakeSender
    BY <2>2, FirstLemma DEF WakeSender, OnePlace
  <2> QED
    BY <2>1, <2>2
<1>2. S \subseteq AllTasks
  BY DEF TypeOK, QueueTypeOK, AllTasks
<1>3. ~pendsv' => ~Outranks(S)
  BY <1>1
<1>4. ~pendsv' => \A u \in S : PrioOf(u) <= PrioOf(current)
  BY <1>2, <1>3, OutranksLemma DEF TypeOK, SchedTypeOK
<1> QED
  BY <1>1, <1>4, UnblockPlaces
LEMMA IncrementTickPlaces ==
  ASSUME NEW r, NEW d, NEW E, IncrementTick(r, d, E),
         r \intersect (d \union recvWait \union sendWait) = {},
         recvWait \intersect sendWait = {}
  PROVE  /\ ready' \intersect (timed' \union recvWait' \union sendWait') = {}
         /\ recvWait' \intersect sendWait' = {}
         /\ r \subseteq ready'
         /\ r \union d \union recvWait \union sendWait
              \subseteq ready' \union timed' \union recvWait' \union sendWait'
         /\ ready' = r \union (d \intersect (expired \union E))
BY DEF IncrementTick

LEMMA ResumePlaces ==
  ASSUME TypeOK, OnePlace, NEW t \in Tasks, NEW E \in SUBSET MayExpire, ResumeAll(t, E)
  PROVE  /\ OnePlace'
         /\ BlockedCanBeWoken => BlockedCanBeWoken'
         /\ ready \subseteq ready'
<1> DEFINE r == ready \union pendingReady
           d == timed \ pendingReady
<1>1. /\ r \intersect (d \union recvWait \union sendWait) = {}
      /\ recvWait \intersect sendWait = {}
  BY DEF OnePlace
<1>2. pendingReady' = {}
  BY DEF ResumeAll
<1>3. /\ ready' \intersect (timed' \union recvWait' \union sendWait') = {}
      /\ recvWait' \intersect sendWait' = {}
      /\ r \subseteq ready'
      /\ r \union d \union recvWait \union sendWait
           \subseteq ready' \union timed' \union recvWait' \union sendWait'
  <2>1. CASE pendedTicks
    <3>1. IncrementTick(r, d, E)
      BY <2>1 DEF ResumeAll
    <3> QED
      BY <1>1, <3>1, IncrementTickPlaces
  <2>2. CASE ~pendedTicks
    <3>1. ready' = r /\ timed' = d /\ recvWait' = recvWait /\ sendWait' = sendWait
      BY <2>2 DEF ResumeAll
    <3> QED
      BY <1>1, <3>1
  <2> QED
    BY <2>1, <2>2
<1> QED
  BY <1>2, <1>3 DEF OnePlace, BlockedCanBeWoken

LEMMA TickPlaces ==
  ASSUME TypeOK, SuspendedSectionExclusive, OnePlace, suspended = 0,
         NEW E \in SUBSET MayExpire, Tick(E)
  PROVE  /\ OnePlace'
         /\ BlockedCanBeWoken => BlockedCanBeWoken'
         /\ ready \subseteq ready'
<1>1. IncrementTick(ready, timed, E) /\ pendingReady' = pendingReady
  BY DEF Tick
<1>2. pendingReady = {}
  BY DEF SuspendedSectionExclusive
<1>3. /\ ready' \intersect (timed' \union recvWait' \union sendWait') = {}
      /\ recvWait' \intersect sendWait' = {}
      /\ ready \subseteq ready'
      /\ ready \union timed \union recvWait \union sendWait
           \subseteq ready' \union timed' \union recvWait' \union sendWait'
  BY <1>1, IncrementTickPlaces DEF OnePlace
<1> QED
  BY <1>1, <1>2, <1>3 DEF OnePlace, BlockedCanBeWoken

\* A task that is not ready is past the point where it left its ready list.
Blocked(t) ==
  \/ pc[t] \in {"try", "delayed"}
  \/ pc[t] \in {"unlockTx", "unlockRx", "resume", "yield"} /\ outcome[t] = "block"
BlockedAfterLeaving == \A t \in Tasks \ ready : Blocked(t)

\* The running task is ready, but for the instructions between leaving its
\* ready list and the switch.
RunningIsReady ==
  suspended = 0 /\ ~pendsv /\ (current = Idle \/ pc[current] # "yield") => current \in ready

\* No ready task outranks the running one, unless a switch is pending.
NobodyOutranks ==
  ~pendsv \/ suspended = 1 => \A u \in ready : PrioOf(u) <= PrioOf(current)

Places ==
  /\ CallConsistent
  /\ OnePlace
  /\ BlockedCanBeWoken
  /\ BlockedAfterLeaving
  /\ RunningIsReady
  /\ NobodyOutranks

LEMMA PlacesInit == Init => Places
<1> SUFFICES ASSUME Init PROVE Places
  OBVIOUS
<1>1. current \in ready /\ \A u \in ready : PrioOf(u) <= PrioOf(current)
  BY DEF Init, Highest
<1>2. OnePlace
  BY DEF Init, OnePlace
<1>3. BlockedCanBeWoken /\ BlockedAfterLeaving
  BY DEF Init, BlockedCanBeWoken, BlockedAfterLeaving, AllTasks
<1> QED
  BY <1>1, <1>2, <1>3, CallConsistentInit DEF Places, RunningIsReady, NobodyOutranks

\* The task that blocks is on no list when it takes its place on one.
LEMMA BlockingIsReady ==
  ASSUME Places, NEW t \in Tasks, pc[t] \in {"place", "delay"}
  PROVE  t \in ready
BY DEF Places, BlockedAfterLeaving, Blocked

LEMMA OnePlaceNext ==
  ASSUME TypeOK, SuspendedSectionExclusive, Places, [Next]_vars
  PROVE  OnePlace' /\ BlockedCanBeWoken'
<1> USE DEF Places
<1>1. CASE UNCHANGED lists
  BY <1>1 DEF lists, OnePlace, BlockedCanBeWoken
<1>2. CASE WakeReceiver \/ WakeSender
  BY <1>2, WakePlaces
<1>3. ASSUME NEW t \in Tasks, PlaceOnEventList(t) PROVE OnePlace' /\ BlockedCanBeWoken'
  <2>1. t \in ready
    BY <1>3, BlockingIsReady DEF PlaceOnEventList, At
  <2>2. /\ ready' = ready \ {t} /\ pendingReady' = pendingReady
        /\ timed' = timed \/ timed' = timed \union {t}
    BY <1>3 DEF PlaceOnEventList, LeaveReady
  <2>3. \/ sendWait' = sendWait \union {t} /\ recvWait' = recvWait
        \/ recvWait' = recvWait \union {t} /\ sendWait' = sendWait
    BY <1>3 DEF PlaceOnEventList
  <2>4. OnePlace'
    BY <2>1, <2>2, <2>3 DEF OnePlace
  <2>5. BlockedCanBeWoken'
    BY <2>1, <2>2, <2>3 DEF BlockedCanBeWoken
  <2> QED
    BY <2>4, <2>5
<1>4. ASSUME NEW t \in Tasks, DelayTask(t) PROVE OnePlace' /\ BlockedCanBeWoken'
  <2>1. t \in ready
    BY <1>4, BlockingIsReady DEF DelayTask, At
  <2>2. wait[t] = "finite"
    BY <1>4 DEF DelayTask, At, CallConsistent
  <2>3. /\ ready' = ready \ {t} /\ timed' = timed \union {t}
        /\ UNCHANGED <<pendingReady, recvWait, sendWait>>
    BY <1>4, <2>2 DEF DelayTask, LeaveReady, queueVars
  <2> QED
    BY <2>1, <2>3 DEF OnePlace, BlockedCanBeWoken
<1>5. ASSUME NEW t \in Tasks, UnlockTx(t) PROVE OnePlace' /\ BlockedCanBeWoken'
  <2> DEFINE S == First(recvWait, cTxLock)
  <2>1. S \subseteq recvWait
    BY FirstLemma
  <2>2. Unblock(S) /\ recvWait' = recvWait \ S /\ sendWait' = sendWait \ S
    BY <1>5, <2>1 DEF UnlockTx, OnePlace
  <2> HIDE DEF S
  <2> QED
    BY <2>1, <2>2, UnblockPlaces
<1>6. ASSUME NEW t \in Tasks, UnlockRx(t) PROVE OnePlace' /\ BlockedCanBeWoken'
  <2> DEFINE S == First(sendWait, cRxLock)
  <2>1. S \subseteq sendWait
    BY FirstLemma
  <2>2. Unblock(S) /\ recvWait' = recvWait \ S /\ sendWait' = sendWait \ S
    BY <1>6, <2>1 DEF UnlockRx, OnePlace
  <2> HIDE DEF S
  <2> QED
    BY <2>1, <2>2, UnblockPlaces
<1>7. ASSUME NEW t \in Tasks, NEW E \in SUBSET MayExpire, ResumeAll(t, E)
      PROVE  OnePlace' /\ BlockedCanBeWoken'
  BY <1>7, ResumePlaces
<1>8. ASSUME NEW E \in SUBSET MayExpire, Tick(E), suspended = 0
      PROVE  OnePlace' /\ BlockedCanBeWoken'
  BY <1>8, TickPlaces
<1> QED
  BY <1>1, <1>2, <1>3, <1>4, <1>5, <1>6, <1>7, <1>8, ListSteps
\* A task leaves the ready lists only by its own step.
LEMMA LeavesReady ==
  ASSUME TypeOK, SuspendedSectionExclusive, Places, [Next]_vars,
         NEW t \in AllTasks, t \in ready, t \notin ready'
  PROVE  t \in Tasks /\ (PlaceOnEventList(t) \/ DelayTask(t))
<1> USE DEF Places
<1>1. CASE UNCHANGED lists
  BY <1>1 DEF lists
<1>2. CASE WakeReceiver \/ WakeSender
  BY <1>2, WakePlaces
<1>3. ASSUME NEW u \in Tasks, UnlockTx(u) \/ UnlockRx(u) PROVE FALSE
  BY <1>3 DEF UnlockTx, UnlockRx, Unblock
<1>4. ASSUME NEW u \in Tasks, PlaceOnEventList(u) \/ DelayTask(u) PROVE t = u
  BY <1>4 DEF PlaceOnEventList, DelayTask, LeaveReady
<1>5. ASSUME NEW u \in Tasks, NEW E \in SUBSET MayExpire, ResumeAll(u, E) PROVE FALSE
  BY <1>5, ResumePlaces
<1>6. ASSUME NEW E \in SUBSET MayExpire, Tick(E), suspended = 0 PROVE FALSE
  BY <1>6, TickPlaces
<1> QED
  BY <1>1, <1>2, <1>3, <1>4, <1>5, <1>6, ListSteps

\* Only the running task steps, and it steps only when no switch is pending.
LEMMA OnlyRunningSteps ==
  ASSUME NEW t \in Tasks, TaskStep(t)
  PROVE  current = t /\ current' = t /\ ~pendsv
BY DEF TaskStep, At, Call, ResetQueue, TrySend, TryReceive, TryPeek, SuspendAll,
   LockQueue, CheckForTimeOut, CheckQueue, PlaceOnEventList, DelayTask, UnlockTx,
   UnlockRx, ResumeAll, YieldWithinApi, DelayReturns, AfterTimeOut, schedVars

\* Where a step of t that is not ready leaves it.
LEMMA BlockedStep ==
  ASSUME TypeOK, SuspendedSectionExclusive, Places, NEW t \in Tasks, TaskStep(t),
         t \notin ready
  PROVE  Blocked(t)'
<1>1. current = t /\ ~pendsv
  BY OnlyRunningSteps
<1>2. Blocked(t)
  BY DEF Places, BlockedAfterLeaving
<1>3. pc[t] \notin {"try", "delayed"}
  BY <1>1, OutsideLemma DEF Places, RunningIsReady, SuspendedPcs, LockedPcs
<1>4. pc[t] \in {"unlockTx", "unlockRx", "resume", "yield"} /\ outcome[t] = "block"
  BY <1>2, <1>3 DEF Blocked
<1>5. \/ UnlockTx(t) \/ UnlockRx(t) \/ YieldWithinApi(t)
      \/ \E E \in SUBSET MayExpire : ResumeAll(t, E)
  BY <1>4 DEF TaskStep, At, Call, ResetQueue, TrySend, TryReceive, TryPeek, SuspendAll,
     LockQueue, CheckForTimeOut, CheckQueue, PlaceOnEventList, DelayTask, DelayReturns,
     AfterTimeOut
<1>6. CASE UnlockTx(t) \/ UnlockRx(t) \/ YieldWithinApi(t)
  <2>1. outcome' = outcome
    BY <1>6 DEF UnlockTx, UnlockRx, YieldWithinApi, Goto
  <2>2. pc'[t] \in {"unlockRx", "resume", "try", "delayed"}
    BY <1>6, GotoPc DEF UnlockTx, UnlockRx, YieldWithinApi, AfterYield
  <2> QED
    BY <1>4, <2>1, <2>2 DEF Blocked
<1>7. ASSUME NEW E \in SUBSET MayExpire, ResumeAll(t, E) PROVE Blocked(t)'
  <2>1. outcome' = outcome
    BY <1>7 DEF ResumeAll
  <2>2. pc'[t] \in {"yield", "try", "delayed"}
    BY <1>4, <1>7 DEF ResumeAll, AfterYield, TypeOK, TaskTypeOK
  <2> QED
    BY <1>4, <2>1, <2>2 DEF Blocked
<1> QED
  BY <1>5, <1>6, <1>7

LEMMA OthersKeepPc ==
  ASSUME TypeOK, [Next]_vars, NEW t \in Tasks, ~TaskStep(t)
  PROVE  pc'[t] = pc[t] /\ outcome'[t] = outcome[t]
<1>1. ASSUME NEW u \in Tasks, u # t, TaskStep(u)
      PROVE  pc'[t] = pc[t] /\ outcome'[t] = outcome[t]
  <2> USE DEF TypeOK, TaskTypeOK
  <2>1. CASE \E o \in TaskOps, w \in WaitSet : Call(u, o, w)
    BY <1>1, <2>1 DEF Call
  <2>2. CASE \/ ResetQueue(u) \/ TrySend(u) \/ TryReceive(u) \/ TryPeek(u)
    BY <1>1, <2>2 DEF ResetQueue, TrySend, TryReceive, TryPeek, GiveUpOrBlock, Return, Goto,
       taskVars
  <2>3. CASE \/ SuspendAll(u) \/ LockQueue(u) \/ PlaceOnEventList(u) \/ DelayTask(u)
             \/ UnlockTx(u) \/ UnlockRx(u) \/ YieldWithinApi(u)
    BY <1>1, <2>3 DEF SuspendAll, LockQueue, PlaceOnEventList, DelayTask, UnlockTx, UnlockRx,
       YieldWithinApi, Goto
  <2>4. CASE \/ CheckForTimeOut(u) \/ CheckQueue(u) \/ DelayReturns(u) \/ AfterTimeOut(u)
    BY <1>1, <2>4 DEF CheckForTimeOut, CheckQueue, DelayReturns, AfterTimeOut, Branch, Goto,
       Return
  <2>5. CASE \E E \in SUBSET MayExpire : ResumeAll(u, E)
    BY <1>1, <2>5 DEF ResumeAll
  <2> QED
    BY <1>1, <2>1, <2>2, <2>3, <2>4, <2>5 DEF TaskStep
<1>2. CASE SendFromISR \/ ReceiveFromISR \/ SwitchContext \/ UNCHANGED vars
  BY <1>2 DEF SendFromISR, ReceiveFromISR, SwitchContext, vars, taskVars
<1>3. CASE \E E \in SUBSET MayExpire : Tick(E)
  BY <1>3 DEF Tick, taskVars
<1> QED
  BY <1>1, <1>2, <1>3 DEF Next

LEMMA BlockedAfterLeavingNext ==
  ASSUME TypeOK, SuspendedSectionExclusive, Places, [Next]_vars
  PROVE  BlockedAfterLeaving'
<1> SUFFICES ASSUME NEW t \in Tasks, t \notin ready' PROVE Blocked(t)'
  BY DEF BlockedAfterLeaving
<1>1. CASE t \in ready
  <2>1. PlaceOnEventList(t) \/ DelayTask(t)
    BY <1>1, LeavesReady DEF AllTasks
  <2>2. outcome'[t] = "block"
    BY <2>1 DEF PlaceOnEventList, DelayTask, At, Goto, Places, CallConsistent
  <2>3. pc'[t] \in {"unlockTx", "resume"}
    BY <2>1, GotoPc DEF PlaceOnEventList, DelayTask
  <2> QED
    BY <2>2, <2>3 DEF Blocked
<1>2. CASE t \notin ready /\ TaskStep(t)
  BY <1>2, BlockedStep
<1>3. CASE t \notin ready /\ ~TaskStep(t)
  BY <1>3, OthersKeepPc DEF Places, BlockedAfterLeaving, Blocked
<1> QED
  BY <1>1, <1>2, <1>3
\* What xTaskResumeAll leaves: a pending switch, or a running task that is
\* ready (or one instruction from its yield) and outranked by nobody.
LEMMA ResumeSwitches ==
  ASSUME TypeOK, SuspendedSectionExclusive, Places, NEW t \in Tasks,
         NEW E \in SUBSET MayExpire, ResumeAll(t, E), ~pendsv'
  PROVE  /\ pc'[t] = "yield" \/ t \in ready'
         /\ \A u \in ready' : PrioOf(u) <= PrioOf(t)
<1> DEFINE d == timed \ pendingReady
           ticked == IF pendedTicks THEN d \intersect (expired \union E) ELSE {}
           yields == \/ yieldPending
                     \/ \E u \in pendingReady : PrioOf(u) >= PrioOf(current)
                     \/ Outranks(ticked)
<1>1. current = t /\ ~pendsv /\ pc[t] = "resume" /\ suspended = 1
  BY DEF ResumeAll, At, SuspendedSectionExclusive, SuspendedPcs
<1>2. ~yields
  BY DEF ResumeAll
<1>3. ready' = ready \union pendingReady \union ticked
  <2>1. CASE pendedTicks
    BY <2>1 DEF ResumeAll, IncrementTick
  <2>2. CASE ~pendedTicks
    BY <2>2 DEF ResumeAll
  <2> QED
    BY <2>1, <2>2
<1>4. \A u \in ready : PrioOf(u) <= PrioOf(t)
  BY <1>1 DEF Places, NobodyOutranks
<1>5. \A u \in ticked : PrioOf(u) <= PrioOf(t)
  <2>1. ticked \in SUBSET AllTasks /\ ~Outranks(ticked)
    BY <1>2 DEF TypeOK, SchedTypeOK, AllTasks
  <2> HIDE DEF ticked
  <2> QED
    BY <2>1, <1>1, OutranksLemma DEF TypeOK, SchedTypeOK
<1>6. \A u \in pendingReady : PrioOf(u) <= PrioOf(t)
  <2>1. \A u \in pendingReady : ~(PrioOf(u) >= PrioOf(t))
    BY <1>1, <1>2
  <2>2. \A u \in pendingReady : PrioOf(u) \in Int
    BY PrioLemma DEF TypeOK, SchedTypeOK, AllTasks
  <2>3. PrioOf(t) \in Int
    BY PrioLemma DEF AllTasks
  <2> QED
    BY <2>1, <2>2, <2>3
<1>7. CASE outcome[t] = "block"
  BY <1>2, <1>3, <1>4, <1>5, <1>6, <1>7 DEF ResumeAll, TypeOK, TaskTypeOK
<1>8. CASE outcome[t] # "block"
  <2>1. t \in ready
    BY <1>1, <1>8 DEF Places, BlockedAfterLeaving, Blocked
  <2> QED
    BY <1>3, <1>4, <1>5, <1>6, <2>1
<1> QED
  BY <1>7, <1>8

LEMMA RunningIsReadyNext ==
  ASSUME TypeOK, SuspendedSectionExclusive, Places, [Next]_vars
  PROVE  RunningIsReady'
<1> SUFFICES ASSUME suspended' = 0, ~pendsv', current' = Idle \/ pc'[current'] # "yield"
             PROVE  current' \in ready'
  BY DEF RunningIsReady
<1>1. ASSUME NEW t \in Tasks, TaskStep(t) PROVE current' \in ready'
  <2>1. current = t /\ current' = t /\ ~pendsv /\ t # Idle
    BY <1>1, OnlyRunningSteps, TasksAssumption
  <2>2. CASE \E E \in SUBSET MayExpire : ResumeAll(t, E)
    BY <2>1, <2>2, ResumeSwitches
  <2>3. CASE pc[t] = "yield"
    <3>1. YieldWithinApi(t)
      BY <1>1, <2>3 DEF TaskStep, At, Call, ResetQueue, TrySend, TryReceive, TryPeek,
         SuspendAll, LockQueue, CheckForTimeOut, CheckQueue, PlaceOnEventList, DelayTask,
         UnlockTx, UnlockRx, ResumeAll, DelayReturns, AfterTimeOut
    <3> QED
      BY <3>1 DEF YieldWithinApi
  <2>4. CASE pc[t] # "yield" /\ ~\E E \in SUBSET MayExpire : ResumeAll(t, E)
    <3>1. suspended = 0
      <4>1. CASE SuspendAll(t)
        BY <4>1 DEF SuspendAll, TypeOK, SchedTypeOK
      <4>2. CASE ~SuspendAll(t)
        BY <1>1, <2>4, <4>2 DEF TaskStep, Call, ResetQueue, TrySend, TryReceive, TryPeek,
           LockQueue, CheckForTimeOut, CheckQueue, PlaceOnEventList, DelayTask,
           UnlockTx, UnlockRx, YieldWithinApi, DelayReturns, AfterTimeOut, schedVars
      <4> QED
        BY <4>1, <4>2
    <3>2. t \in ready
      BY <2>1, <2>4, <3>1 DEF Places, RunningIsReady
    <3>3. pc[t] \notin {"place", "delay"}
      BY <3>1 DEF SuspendedSectionExclusive, SuspendedPcs, LockedPcs
    <3> QED
      BY <2>1, <3>2, <3>3, LeavesReady DEF AllTasks, PlaceOnEventList, DelayTask, At
  <2> QED
    BY <2>2, <2>3, <2>4
<1>2. ASSUME suspended = 0, ~pendsv, UNCHANGED <<current, pc>>,
             ~\E t \in Tasks : PlaceOnEventList(t) \/ DelayTask(t)
      PROVE  current' \in ready'
  <2>1. current \in ready
    BY <1>2 DEF Places, RunningIsReady
  <2> QED
    BY <1>2, <2>1, LeavesReady DEF TypeOK, SchedTypeOK
<1>3. CASE ~(\E t \in Tasks : TaskStep(t)) /\ ~SwitchContext
  <2>1. ~\E t \in Tasks : PlaceOnEventList(t) \/ DelayTask(t)
    BY <1>3 DEF TaskStep
  <2>2. CASE SendFromISR \/ ReceiveFromISR
    BY <1>2, <2>1, <2>2 DEF SendFromISR, ReceiveFromISR, WakeReceiver, WakeSender, WakeNobody,
       taskVars
  <2>3. ASSUME NEW E \in SUBSET MayExpire, Tick(E) PROVE current' \in ready'
    BY <1>2, <2>1, <2>3 DEF Tick, taskVars
  <2>4. CASE UNCHANGED vars
    BY <1>2, <2>1, <2>4 DEF vars, schedVars, taskVars
  <2> QED
    BY <1>3, <2>2, <2>3, <2>4 DEF Next
<1>4. CASE SwitchContext
  BY <1>4, HighestLemma DEF SwitchContext, TypeOK, SchedTypeOK
<1> QED
  BY <1>1, <1>3, <1>4
LEMMA NobodyOutranksNext ==
  ASSUME TypeOK, SuspendedSectionExclusive, Places, [Next]_vars
  PROVE  NobodyOutranks'
<1> SUFFICES ASSUME ~pendsv' \/ suspended' = 1, NEW u \in ready'
             PROVE  PrioOf(u) <= PrioOf(current')
  BY DEF NobodyOutranks
<1>1. ASSUME UNCHANGED current, ~pendsv \/ suspended = 1, u \in ready
      PROVE  PrioOf(u) <= PrioOf(current')
  BY <1>1 DEF Places, NobodyOutranks
<1>2. ASSUME WakeReceiver \/ WakeSender, UNCHANGED <<current, suspended>>
      PROVE  PrioOf(u) <= PrioOf(current')
  <2>1. suspended = 1 => ready' = ready
    BY <1>2, WakePlaces DEF Places
  <2>2. ~pendsv' => ~pendsv /\ \A v \in ready' \ ready : PrioOf(v) <= PrioOf(current)
    BY <1>2, WakePlaces DEF Places
  <2> QED
    BY <1>1, <1>2, <2>1, <2>2
<1>3. ASSUME NEW t \in Tasks, PlaceOnEventList(t) \/ DelayTask(t) \/ UnlockTx(t) \/ UnlockRx(t)
      PROVE  PrioOf(u) <= PrioOf(current')
  <2>1. current' = current /\ ~pendsv
    BY <1>3 DEF PlaceOnEventList, DelayTask, UnlockTx, UnlockRx, At
  <2>2. suspended = 1
    BY <1>3 DEF PlaceOnEventList, DelayTask, UnlockTx, UnlockRx, At,
       SuspendedSectionExclusive, SuspendedPcs, LockedPcs
  <2>3. ready' \subseteq ready
    BY <1>3, <2>2 DEF PlaceOnEventList, DelayTask, UnlockTx, UnlockRx, LeaveReady, Unblock
  <2> QED
    BY <1>1, <2>1, <2>3
<1>4. ASSUME NEW t \in Tasks, NEW E \in SUBSET MayExpire, ResumeAll(t, E)
      PROVE  PrioOf(u) <= PrioOf(current')
  <2>1. suspended = 1 /\ current = t /\ current' = t
    BY <1>4 DEF ResumeAll, At, SuspendedSectionExclusive, SuspendedPcs
  <2>2. ~pendsv'
    BY <1>4, <2>1 DEF ResumeAll
  <2> QED
    BY <1>4, <2>1, <2>2, ResumeSwitches
<1>5. ASSUME NEW E \in SUBSET MayExpire, Tick(E), suspended = 0
      PROVE  PrioOf(u) <= PrioOf(current')
  <2> DEFINE woken == timed \intersect (expired \union E)
  <2>1. /\ current' = current /\ suspended' = suspended
        /\ IncrementTick(ready, timed, E)
        /\ pendsv' = (pendsv \/ yieldPending \/ Outranks(woken))
    BY <1>5 DEF Tick
  <2>2. ~pendsv /\ ~Outranks(woken)
    <3>1. ~pendsv'
      BY <1>5, <2>1
    <3> QED
      BY <2>1, <3>1 DEF Outranks
  <2>3. woken \in SUBSET AllTasks /\ current \in AllTasks
    BY DEF TypeOK, SchedTypeOK, AllTasks
  <2>4. ready' = ready \union woken
    BY <2>1 DEF IncrementTick
  <2> HIDE DEF woken
  <2>5. \A v \in woken : PrioOf(v) <= PrioOf(current)
    BY <2>2, <2>3, OutranksLemma
  <2> QED
    BY <1>1, <2>1, <2>2, <2>4, <2>5
<1>6. CASE SwitchContext
  <2>1. CASE suspended = 0
    BY <1>6, <2>1 DEF SwitchContext, Highest
  <2>2. CASE suspended = 1
    BY <1>1, <1>6, <2>2 DEF SwitchContext
  <2> QED
    BY <2>1, <2>2 DEF TypeOK, SchedTypeOK
<1>7. CASE UNCHANGED lists /\ ~SwitchContext
  <2>1. u \in ready
    BY <1>7 DEF lists
  <2>2. ASSUME NEW t \in Tasks, TaskStep(t) PROVE PrioOf(u) <= PrioOf(current')
    BY <1>1, <2>1, <2>2, OnlyRunningSteps
  <2>3. CASE SendFromISR \/ ReceiveFromISR
    BY <1>1, <2>1, <2>3 DEF SendFromISR, ReceiveFromISR, WakeReceiver, WakeSender, WakeNobody
  <2>4. ASSUME NEW E \in SUBSET MayExpire, Tick(E) PROVE PrioOf(u) <= PrioOf(current')
    BY <1>1, <2>1, <2>4 DEF Tick
  <2>5. CASE UNCHANGED vars
    BY <1>1, <2>1, <2>5 DEF vars, schedVars
  <2> QED
    BY <1>7, <2>2, <2>3, <2>4, <2>5 DEF Next
<1> QED
  BY <1>2, <1>3, <1>4, <1>5, <1>6, <1>7, ListSteps

LEMMA PlacesNext ==
  ASSUME TypeOK, SuspendedSectionExclusive, Places, [Next]_vars
  PROVE  Places'
BY CallConsistentNext, OnePlaceNext, BlockedAfterLeavingNext, RunningIsReadyNext,
   NobodyOutranksNext DEF Places

\* The strengthened invariant behind the next two theorems holds throughout:
\* calls are consistent, places exclude each other, a task that has left the
\* ready list is at a blocking point, and the running task is outranked by none.
THEOREM PlacesInvariant == Spec => []Places
<1>1. Init => Places
  BY PlacesInit
<1>2. TypeOK /\ SuspendedSectionExclusive /\ Places /\ [Next]_vars => Places'
  BY PlacesNext
<1> QED
  BY <1>1, <1>2, SectionCorrect, PTL DEF Spec

\* A task is always in exactly the lists its state calls for: no wakeup,
\* timeout or resume leaves it on an event list while it is ready, on both
\* event lists, or on none of the lists from which something can wake it.
THEOREM PlacesCorrect == Spec => [](OnePlace /\ BlockedCanBeWoken)
<1>1. Places => OnePlace /\ BlockedCanBeWoken
  BY DEF Places
<1> QED
  BY <1>1, PlacesInvariant, PTL

\* Preemption: whenever the scheduler runs and no switch is pending, the running
\* task is a ready task that no ready task outranks.
THEOREM PreemptionCorrect == Spec => []HighestPriorityRuns
<1>1. Places => HighestPriorityRuns
  BY DEF Places, RunningIsReady, NobodyOutranks, HighestPriorityRuns, Highest
<1> QED
  BY <1>1, PlacesInvariant, PTL

-----------------------------------------------------------------------------
(* Event lists in order of priority *)

LEMMA PrioInt == \A t \in Tasks : Prio[t] \in Int
BY PrioAssumption

\* uxListRemove keeps the order of the list it removes from.
LEMMA RemoveFromOrder ==
  ASSUME NEW list \in SUBSET Tasks, InPriorityOrder(list), NEW S, NEW after,
         \A t \in list \ S : after[t] = ahead[t] \ S
  PROVE  \A t \in list \ S :
           /\ after[t] \subseteq (list \ S) \ {t}
           /\ \A u \in after[t] : Prio[u] >= Prio[t] /\ after[u] \subseteq after[t]
           /\ \A u \in (list \ S) \ {t} : u \in after[t] <=> t \notin after[u]
<1> SUFFICES ASSUME NEW t \in list \ S
             PROVE  /\ after[t] \subseteq (list \ S) \ {t}
                    /\ \A u \in after[t] : Prio[u] >= Prio[t] /\ after[u] \subseteq after[t]
                    /\ \A u \in (list \ S) \ {t} : u \in after[t] <=> t \notin after[u]
  OBVIOUS
<1>1. /\ ahead[t] \subseteq list \ {t}
      /\ \A u \in ahead[t] : Prio[u] >= Prio[t] /\ ahead[u] \subseteq ahead[t]
      /\ \A u \in list \ {t} : u \in ahead[t] <=> t \notin ahead[u]
  BY DEF InPriorityOrder
<1>2. after[t] = ahead[t] \ S
  OBVIOUS
<1>3. after[t] \subseteq (list \ S) \ {t}
  BY <1>1, <1>2
<1>4. ASSUME NEW u \in after[t]
      PROVE  Prio[u] >= Prio[t] /\ after[u] \subseteq after[t]
  <2>1. u \in ahead[t] /\ after[u] = ahead[u] \ S
    BY <1>2, <1>3, <1>4
  <2>2. Prio[u] >= Prio[t] /\ ahead[u] \subseteq ahead[t]
    BY <1>1, <2>1
  <2>3. after[u] \subseteq after[t]
    BY <1>2, <2>1, <2>2
  <2> QED
    BY <2>2, <2>3
<1>5. ASSUME NEW u \in (list \ S) \ {t}
      PROVE  u \in after[t] <=> t \notin after[u]
  <2>1. u \in ahead[t] <=> t \notin ahead[u]
    BY <1>1
  <2>2. after[u] = ahead[u] \ S
    OBVIOUS
  <2> QED
    BY <1>2, <2>1, <2>2
<1> QED
  BY <1>3, <1>4, <1>5

LEMMA RemoveOrder ==
  ASSUME TypeOK, ListsByPriority, NEW S, RemoveItems(S),
         recvWait' = recvWait \ S, sendWait' = sendWait \ S
  PROVE  ListsByPriority'
<1>1. \A t \in Tasks : ahead'[t] = IF t \in S THEN {} ELSE ahead[t] \ S
  BY DEF RemoveItems
<1>2. recvWait \in SUBSET Tasks /\ sendWait \in SUBSET Tasks
  BY DEF TypeOK, QueueTypeOK
<1>3. InPriorityOrder(recvWait) /\ InPriorityOrder(sendWait)
  BY DEF ListsByPriority
<1>4. \A t \in recvWait \ S : ahead'[t] = ahead[t] \ S
  BY <1>1, <1>2
<1>5. \A t \in sendWait \ S : ahead'[t] = ahead[t] \ S
  BY <1>1, <1>2
<1>6. InPriorityOrder(recvWait)'
  <2>1. \A t \in recvWait \ S :
          /\ ahead'[t] \subseteq (recvWait \ S) \ {t}
          /\ \A u \in ahead'[t] : Prio[u] >= Prio[t] /\ ahead'[u] \subseteq ahead'[t]
          /\ \A u \in (recvWait \ S) \ {t} : u \in ahead'[t] <=> t \notin ahead'[u]
    BY <1>2, <1>3, <1>4, RemoveFromOrder, Zenon
  <2> QED
    BY <2>1, Zenon DEF InPriorityOrder
<1>7. InPriorityOrder(sendWait)'
  <2>1. \A t \in sendWait \ S :
          /\ ahead'[t] \subseteq (sendWait \ S) \ {t}
          /\ \A u \in ahead'[t] : Prio[u] >= Prio[t] /\ ahead'[u] \subseteq ahead'[t]
          /\ \A u \in (sendWait \ S) \ {t} : u \in ahead'[t] <=> t \notin ahead'[u]
    BY <1>2, <1>3, <1>5, RemoveFromOrder, Zenon
  <2> QED
    BY <2>1, Zenon DEF InPriorityOrder
<1>8. \A t \in Tasks \ (recvWait' \union sendWait') : ahead'[t] = {}
  BY <1>1 DEF ListsByPriority
<1> QED
  BY <1>6, <1>7, <1>8 DEF ListsByPriority

\* vListInsert keeps the order of the list it inserts into.
LEMMA InsertOrder ==
  ASSUME NEW list \in SUBSET Tasks, InPriorityOrder(list), NEW t \in Tasks \ list, NEW after,
         after[t] = {v \in list : Prio[v] >= Prio[t]},
         \A u \in list : after[u] = IF Prio[u] < Prio[t] THEN ahead[u] \union {t} ELSE ahead[u]
  PROVE  \A u \in list \union {t} :
           /\ after[u] \subseteq (list \union {t}) \ {u}
           /\ \A v \in after[u] : Prio[v] >= Prio[u] /\ after[v] \subseteq after[u]
           /\ \A v \in (list \union {t}) \ {u} : v \in after[u] <=> u \notin after[v]
<1>1. ASSUME NEW u \in list
      PROVE  /\ ahead[u] \subseteq list \ {u}
             /\ \A v \in ahead[u] : Prio[v] >= Prio[u] /\ ahead[v] \subseteq ahead[u]
             /\ \A v \in list \ {u} : v \in ahead[u] <=> u \notin ahead[v]
  BY DEF InPriorityOrder
<1>2. Prio[t] \in Int /\ \A u \in list : Prio[u] \in Int
  BY PrioInt
<1>3. \A u \in list : \A v \in list \ {u} : Prio[v] > Prio[u] => v \in ahead[u]
  <2> SUFFICES ASSUME NEW u \in list, NEW v \in list \ {u}, Prio[v] > Prio[u], v \notin ahead[u]
               PROVE  FALSE
    OBVIOUS
  <2>1. u \in ahead[v]
    BY <1>1
  <2>2. Prio[u] >= Prio[v]
    BY <1>1, <2>1
  <2> QED
    BY <1>2, <2>2
<1>4. ASSUME NEW u \in list \union {t}
      PROVE  after[u] \subseteq (list \union {t}) \ {u}
  <2>1. CASE u = t
    BY <2>1
  <2>2. CASE u \in list
    <3>1. ahead[u] \subseteq list \ {u}
      BY <1>1, <2>2
    <3>2. after[u] \subseteq ahead[u] \union {t}
      BY <2>2
    <3> QED
      BY <2>2, <3>1, <3>2
  <2> QED
    BY <2>1, <2>2
<1>5. ASSUME NEW u \in list, Prio[u] < Prio[t]
      PROVE  after[u] = ahead[u] \union {t} /\ after[t] \subseteq after[u]
  <2>1. after[u] = ahead[u] \union {t}
    BY <1>5
  <2>2. ASSUME NEW v \in after[t] PROVE v \in ahead[u]
    <3>1. v \in list /\ Prio[v] >= Prio[t]
      OBVIOUS
    <3>2. v # u /\ Prio[v] > Prio[u]
      BY <1>2, <1>5, <3>1
    <3> QED
      BY <1>3, <3>1, <3>2
  <2> QED
    BY <2>1, <2>2
<1>6. ASSUME NEW u \in list, ~(Prio[u] < Prio[t])
      PROVE  after[u] = ahead[u] /\ u \in after[t] /\ after[u] \subseteq after[t]
  <2>1. after[u] = ahead[u]
    BY <1>6
  <2>2. u \in after[t]
    BY <1>2, <1>6
  <2>3. ASSUME NEW v \in ahead[u] PROVE v \in after[t]
    <3>1. v \in list /\ Prio[v] >= Prio[u]
      BY <1>1
    <3>2. Prio[v] >= Prio[t]
      BY <1>2, <1>6, <3>1
    <3> QED
      BY <3>1, <3>2
  <2> QED
    BY <2>1, <2>2, <2>3
<1>7. ASSUME NEW u \in list \union {t}, NEW v \in after[u]
      PROVE  Prio[v] >= Prio[u] /\ after[v] \subseteq after[u]
  <2>1. CASE u = t
    <3>1. v \in list /\ Prio[v] >= Prio[t]
      BY <1>7, <2>1
    <3>2. after[v] \subseteq after[t]
      BY <1>2, <1>6, <3>1
    <3> QED
      BY <2>1, <3>1, <3>2
  <2>2. CASE u \in list /\ Prio[u] < Prio[t]
    <3>1. CASE v = t
      BY <1>2, <1>5, <2>2, <3>1
    <3>2. CASE v # t
      <4>1. v \in ahead[u]
        BY <1>5, <1>7, <2>2, <3>2
      <4>2. v \in list /\ Prio[v] >= Prio[u] /\ ahead[v] \subseteq ahead[u]
        BY <1>1, <2>2, <4>1
      <4>3. after[v] \subseteq ahead[v] \union {t}
        BY <4>2
      <4> QED
        BY <1>5, <2>2, <4>2, <4>3
    <3> QED
      BY <3>1, <3>2
  <2>3. CASE u \in list /\ ~(Prio[u] < Prio[t])
    <3>1. v \in ahead[u] /\ after[u] = ahead[u]
      BY <1>6, <1>7, <2>3
    <3>2. v \in list /\ Prio[v] >= Prio[u] /\ ahead[v] \subseteq ahead[u]
      BY <1>1, <2>3, <3>1
    <3>3. ~(Prio[v] < Prio[t])
      BY <1>2, <2>3, <3>2
    <3>4. after[v] = ahead[v]
      BY <1>6, <3>2, <3>3
    <3> QED
      BY <3>1, <3>2, <3>4
  <2> QED
    BY <2>1, <2>2, <2>3
<1>8. ASSUME NEW u \in list PROVE t \in after[u] <=> u \notin after[t]
  <2>1. CASE Prio[u] < Prio[t]
    <3>1. u \notin after[t]
      BY <1>2, <2>1
    <3> QED
      BY <1>5, <2>1, <3>1
  <2>2. CASE ~(Prio[u] < Prio[t])
    <3>1. t \notin ahead[u]
      BY <1>1
    <3> QED
      BY <1>6, <2>2, <3>1
  <2> QED
    BY <2>1, <2>2
<1>9. ASSUME NEW u \in list, NEW v \in list \ {u} PROVE v \in after[u] <=> u \notin after[v]
  <2>1. v \in ahead[u] <=> u \notin ahead[v]
    BY <1>1
  <2>2. v # t /\ (after[u] = ahead[u] \/ after[u] = ahead[u] \union {t})
    BY <1>5, <1>6
  <2>3. u # t /\ (after[v] = ahead[v] \/ after[v] = ahead[v] \union {t})
    BY <1>5, <1>6
  <2> QED
    BY <2>1, <2>2, <2>3
<1>10. \A u \in list \union {t} : \A v \in (list \union {t}) \ {u} : v \in after[u] <=> u \notin after[v]
  BY <1>8, <1>9
<1> QED
  BY <1>4, <1>7, <1>10

LEMMA InsertAhead ==
  ASSUME NEW list, NEW t \in Tasks \ list, InsertByPriority(list, t)
  PROVE  /\ ahead'[t] = {v \in list : Prio[v] >= Prio[t]}
         /\ \A u \in Tasks \ {t} : ahead'[u] = IF u \in list /\ Prio[u] < Prio[t] THEN ahead[u] \union {t}
                                                                               ELSE ahead[u]
<1>1. ahead'[t] = {v \in list : Prio[v] >= Prio[t]}
  BY DEF InsertByPriority
<1>2. \A u \in Tasks \ {t} : ahead'[u] = IF u \in list /\ Prio[u] < Prio[t] THEN ahead[u] \union {t}
                                                                         ELSE ahead[u]
  BY DEF InsertByPriority
<1> QED
  BY <1>1, <1>2

LEMMA PlaceOrder ==
  ASSUME TypeOK, Places, ListsByPriority, NEW t \in Tasks, PlaceOnEventList(t)
  PROVE  ListsByPriority'
<1>1. t \in ready
  BY BlockingIsReady DEF PlaceOnEventList, At
<1>2. t \notin recvWait \union sendWait /\ recvWait \intersect sendWait = {}
  BY <1>1 DEF Places, OnePlace
<1>3. recvWait \in SUBSET Tasks /\ sendWait \in SUBSET Tasks
  BY DEF TypeOK, QueueTypeOK
<1>4. InPriorityOrder(recvWait) /\ InPriorityOrder(sendWait)
  BY DEF ListsByPriority
<1>5. CASE op[t] = "send"
  <2>1. InsertByPriority(sendWait, t) /\ sendWait' = sendWait \union {t} /\ recvWait' = recvWait
    BY <1>5 DEF PlaceOnEventList
  <2>2. InPriorityOrder(sendWait)'
    <3>1. t \in Tasks \ sendWait
      BY <1>2
    <3>2. ahead'[t] = {v \in sendWait : Prio[v] >= Prio[t]}
      BY <2>1, <3>1, InsertAhead
    <3>3. \A u \in sendWait : ahead'[u] = IF Prio[u] < Prio[t] THEN ahead[u] \union {t} ELSE ahead[u]
      BY <1>3, <2>1, <3>1, InsertAhead
    <3>4. \A u \in sendWait \union {t} :
            /\ ahead'[u] \subseteq (sendWait \union {t}) \ {u}
            /\ \A v \in ahead'[u] : Prio[v] >= Prio[u] /\ ahead'[v] \subseteq ahead'[u]
            /\ \A v \in (sendWait \union {t}) \ {u} : v \in ahead'[u] <=> u \notin ahead'[v]
      BY <1>3, <1>4, <3>1, <3>2, <3>3, InsertOrder, Zenon
    <3> QED
      BY <2>1, <3>4, Zenon DEF InPriorityOrder
  <2>3. \A u \in Tasks \ (sendWait \union {t}) : ahead'[u] = ahead[u]
    BY <2>1 DEF InsertByPriority
  <2>4. InPriorityOrder(recvWait)'
    BY <1>2, <1>3, <1>4, <2>1, <2>3 DEF InPriorityOrder
  <2> QED
    BY <2>1, <2>2, <2>3, <2>4 DEF ListsByPriority
<1>6. CASE op[t] # "send"
  <2>1. InsertByPriority(recvWait, t) /\ recvWait' = recvWait \union {t} /\ sendWait' = sendWait
    BY <1>6 DEF PlaceOnEventList
  <2>2. InPriorityOrder(recvWait)'
    <3>1. t \in Tasks \ recvWait
      BY <1>2
    <3>2. ahead'[t] = {v \in recvWait : Prio[v] >= Prio[t]}
      BY <2>1, <3>1, InsertAhead
    <3>3. \A u \in recvWait : ahead'[u] = IF Prio[u] < Prio[t] THEN ahead[u] \union {t} ELSE ahead[u]
      BY <1>3, <2>1, <3>1, InsertAhead
    <3>4. \A u \in recvWait \union {t} :
            /\ ahead'[u] \subseteq (recvWait \union {t}) \ {u}
            /\ \A v \in ahead'[u] : Prio[v] >= Prio[u] /\ ahead'[v] \subseteq ahead'[u]
            /\ \A v \in (recvWait \union {t}) \ {u} : v \in ahead'[u] <=> u \notin ahead'[v]
      BY <1>3, <1>4, <3>1, <3>2, <3>3, InsertOrder, Zenon
    <3> QED
      BY <2>1, <3>4, Zenon DEF InPriorityOrder
  <2>3. \A u \in Tasks \ (recvWait \union {t}) : ahead'[u] = ahead[u]
    BY <2>1 DEF InsertByPriority
  <2>4. InPriorityOrder(sendWait)'
    BY <1>2, <1>3, <1>4, <2>1, <2>3 DEF InPriorityOrder
  <2> QED
    BY <2>1, <2>2, <2>3, <2>4 DEF ListsByPriority
<1> QED
  BY <1>5, <1>6

\* What a step that places nobody does to the event lists: it removes some tasks.
LEMMA RemovesSteps ==
  ASSUME TypeOK, SuspendedSectionExclusive, Places, [Next]_vars,
         \A t \in Tasks : ~PlaceOnEventList(t)
  PROVE  \/ UNCHANGED <<recvWait, sendWait, ahead>>
         \/ \E S \in SUBSET Tasks :
              RemoveItems(S) /\ recvWait' = recvWait \ S /\ sendWait' = sendWait \ S
<1>1. recvWait \intersect sendWait = {} /\ recvWait \subseteq Tasks /\ sendWait \subseteq Tasks
  BY DEF Places, OnePlace, TypeOK, QueueTypeOK
<1>2. CASE WakeReceiver
  <2>1. First(recvWait, 1) \subseteq recvWait
    BY FirstLemma
  <2>2. First(recvWait, 1) \in SUBSET Tasks /\ sendWait' = sendWait \ First(recvWait, 1)
    BY <1>1, <1>2, <2>1 DEF WakeReceiver
  <2> QED
    BY <1>2, <2>2 DEF WakeReceiver
<1>3. CASE WakeSender
  <2>1. First(sendWait, 1) \subseteq sendWait
    BY FirstLemma
  <2>2. First(sendWait, 1) \in SUBSET Tasks /\ recvWait' = recvWait \ First(sendWait, 1)
    BY <1>1, <1>3, <2>1 DEF WakeSender
  <2> QED
    BY <1>3, <2>2 DEF WakeSender
<1>4. ASSUME NEW t \in Tasks, UnlockTx(t)
      PROVE  \E S \in SUBSET Tasks :
               RemoveItems(S) /\ recvWait' = recvWait \ S /\ sendWait' = sendWait \ S
  <2>1. First(recvWait, cTxLock) \subseteq recvWait
    BY FirstLemma
  <2>2. First(recvWait, cTxLock) \in SUBSET Tasks /\ sendWait' = sendWait \ First(recvWait, cTxLock)
    BY <1>1, <1>4, <2>1 DEF UnlockTx
  <2> QED
    BY <1>4, <2>2 DEF UnlockTx
<1>5. ASSUME NEW t \in Tasks, UnlockRx(t)
      PROVE  \E S \in SUBSET Tasks :
               RemoveItems(S) /\ recvWait' = recvWait \ S /\ sendWait' = sendWait \ S
  <2>1. First(sendWait, cRxLock) \subseteq sendWait
    BY FirstLemma
  <2>2. First(sendWait, cRxLock) \in SUBSET Tasks /\ recvWait' = recvWait \ First(sendWait, cRxLock)
    BY <1>1, <1>5, <2>1 DEF UnlockRx
  <2> QED
    BY <1>5, <2>2 DEF UnlockRx
<1>6. ASSUME NEW r, NEW d \in SUBSET Tasks, NEW E, IncrementTick(r, d, E)
      PROVE  \E S \in SUBSET Tasks :
               RemoveItems(S) /\ recvWait' = recvWait \ S /\ sendWait' = sendWait \ S
  <2>1. d \intersect (expired \union E) \in SUBSET Tasks
    OBVIOUS
  <2> QED
    BY <1>6, <2>1 DEF IncrementTick
<1>7. ASSUME NEW t \in Tasks, NEW E \in SUBSET MayExpire, ResumeAll(t, E)
      PROVE  \/ UNCHANGED <<recvWait, sendWait, ahead>>
             \/ \E S \in SUBSET Tasks :
                  RemoveItems(S) /\ recvWait' = recvWait \ S /\ sendWait' = sendWait \ S
  <2>1. timed \ pendingReady \in SUBSET Tasks
    BY DEF TypeOK, SchedTypeOK
  <2>2. \/ UNCHANGED <<recvWait, sendWait, ahead>>
        \/ IncrementTick(ready \union pendingReady, timed \ pendingReady, E)
    BY <1>7 DEF ResumeAll
  <2> QED
    BY <1>6, <2>1, <2>2
<1>8. ASSUME NEW E \in SUBSET MayExpire, Tick(E), suspended = 0
      PROVE  \E S \in SUBSET Tasks :
               RemoveItems(S) /\ recvWait' = recvWait \ S /\ sendWait' = sendWait \ S
  <2>1. timed \in SUBSET Tasks
    BY DEF TypeOK, SchedTypeOK
  <2>2. IncrementTick(ready, timed, E)
    BY <1>8 DEF Tick
  <2> QED
    BY <1>6, <2>1, <2>2
<1>9. ASSUME NEW t \in Tasks, DelayTask(t) PROVE UNCHANGED <<recvWait, sendWait, ahead>>
  BY <1>9 DEF DelayTask, queueVars
<1>10. CASE UNCHANGED lists
  BY <1>10 DEF lists
<1> QED
  BY <1>2, <1>3, <1>4, <1>5, <1>7, <1>8, <1>9, <1>10, ListSteps

LEMMA OrderNext ==
  ASSUME TypeOK, SuspendedSectionExclusive, Places, ListsByPriority, [Next]_vars
  PROVE  ListsByPriority'
<1>1. CASE \E t \in Tasks : PlaceOnEventList(t)
  BY <1>1, PlaceOrder
<1>2. CASE UNCHANGED <<recvWait, sendWait, ahead>>
  BY <1>2 DEF ListsByPriority, InPriorityOrder
<1>3. CASE \E S \in SUBSET Tasks :
             RemoveItems(S) /\ recvWait' = recvWait \ S /\ sendWait' = sendWait \ S
  BY <1>3, RemoveOrder
<1> QED
  BY <1>1, <1>2, <1>3, RemovesSteps

\* Whatever wakeups and timeouts took out of the middle of an event list, it
\* remains a line in order of priority, and a task on no list has no place in one.
\* (vListInsert, uxListRemove)
THEOREM ListsCorrect == Spec => []ListsByPriority
<1>1. Init => ListsByPriority
  BY DEF Init, ListsByPriority, InPriorityOrder
<1>2. TypeOK /\ SuspendedSectionExclusive /\ Places /\ ListsByPriority /\ [Next]_vars
        => ListsByPriority'
  BY OrderNext
<1> QED
  BY <1>1, <1>2, SectionCorrect, PlacesInvariant, PTL DEF Spec
-----------------------------------------------------------------------------
(* The first tasks of an event list *)

LEMMA LessLemma ==
  ASSUME NEW x \in Nat, NEW y \in Nat, y < x
  PROVE  <<y, x>> \in OpToRel(<, Nat)
BY SMT DEF OpToRel

LEMMA LeastLemma ==
  ASSUME NEW W \in SUBSET Nat, W # {}
  PROVE  \E x \in W : \A y \in W : x <= y
<1>1. PICK x \in W : \A y \in W : ~(<<y, x>> \in OpToRel(<, Nat))
  BY NatLessThanWellFounded, WFMin
<1>2. ASSUME NEW y \in W PROVE x <= y
  <2>1. ~(y < x)
    BY <1>1, LessLemma, Zenon
  <2> QED
    BY <2>1
<1> QED
  BY <1>2

LEMMA SetsLemma ==
  ASSUME NEW S \in SUBSET Tasks
  PROVE  IsFiniteSet(S) /\ Cardinality(S) \in Nat /\ Cardinality(S) < NumberOfTasks
<1>1. IsFiniteSet(S) /\ Cardinality(S) <= Cardinality(Tasks)
  BY TasksAssumption, FS_Subset
<1>2. Cardinality(S) \in Nat /\ Cardinality(Tasks) \in Nat
  BY <1>1, TasksAssumption, FS_CardinalityType
<1> QED
  BY <1>1, <1>2, NumberAssumption

\* First(list, k) is the whole of the list or has k tasks.
LEMMA FirstCount ==
  ASSUME TypeOK, NEW list \in SUBSET Tasks, InPriorityOrder(list), NEW k \in Int,
         list \ First(list, k) # {}
  PROVE  Cardinality(First(list, k)) >= k
<1> DEFINE rest == list \ First(list, k)
           W == {Cardinality(ahead[v]) : v \in rest}
<1>1. \A v \in list : ahead[v] \in SUBSET Tasks /\ Cardinality(ahead[v]) \in Nat
  BY SetsLemma DEF TypeOK, QueueTypeOK
<1>2. W \in SUBSET Nat /\ W # {}
  BY <1>1
<1>3. PICK x \in W : \A y \in W : x <= y
  BY <1>2, LeastLemma
<1>4. PICK u \in rest : x = Cardinality(ahead[u])
  BY <1>3
<1>5. ASSUME NEW v \in ahead[u] PROVE v \in First(list, k)
  <2>1. u \in list /\ v \in list /\ ahead[v] \subseteq ahead[u] /\ v \notin ahead[v]
    BY <1>4, <1>5 DEF InPriorityOrder
  <2>2. /\ Cardinality(ahead[v]) <= Cardinality(ahead[u])
        /\ Cardinality(ahead[v]) # Cardinality(ahead[u])
    BY <1>1, <1>5, <2>1, SetsLemma, FS_Subset
  <2>3. ~(x <= Cardinality(ahead[v]))
    BY <1>1, <1>4, <2>1, <2>2
  <2>4. v \notin rest
    BY <1>3, <2>3
  <2> QED
    BY <2>1, <2>4
<1>6. Cardinality(ahead[u]) <= Cardinality(First(list, k)) /\ Cardinality(First(list, k)) \in Nat
  <2>1. First(list, k) \in SUBSET Tasks /\ ahead[u] \subseteq First(list, k)
    BY <1>5, FirstLemma
  <2> QED
    BY <2>1, SetsLemma, FS_Subset
<1>7. Cardinality(ahead[u]) >= k
  BY <1>1, <1>4 DEF First
<1> QED
  BY <1>1, <1>4, <1>6, <1>7

-----------------------------------------------------------------------------
(* What the local variables of a call say, continued *)

\* Where a task is inside a call that looks at the queue.
QueuePcs == LockedPcs \union {"try", "lock", "recheck"}

\* What call a task is in, by its place in it and by the list it is on.
OpsFit ==
  \A t \in Tasks :
    /\ pc[t] \in QueuePcs => op[t] \in {"send", "recv", "peek"}
    /\ pc[t] \in {"suspend", "resume", "yield"} => op[t] \in {"send", "recv", "peek", "delay"}
    /\ pc[t] \in {"delay", "delayed"} => op[t] = "delay"
    /\ t \in recvWait => op[t] \in {"recv", "peek"}
    /\ t \in sendWait => op[t] = "send"

\* What the counting of wakeups rests on.
Base == TypeOK /\ SuspendedSectionExclusive /\ Places /\ ListsByPriority /\ OpsFit

\* The call of t comes back to the queue, unless t is still on an event list.
OnItsWay(t) ==
  \/ pc[t] = "try"
  \/ pc[t] \in {"unlockTx", "unlockRx", "resume"} /\ outcome[t] \in {"block", "retry"}
  \/ pc[t] = "yield"

Takers == OnTheirWay({"recv", "peek"})
Givers == OnTheirWay({"send"})

LEMMA TakersLemma ==
  /\ Takers = {t \in Tasks \ (recvWait \union sendWait) : op[t] \in {"recv", "peek"} /\ OnItsWay(t)}
  /\ Givers = {t \in Tasks \ (recvWait \union sendWait) : op[t] = "send" /\ OnItsWay(t)}
BY DEF Takers, Givers, OnTheirWay, OnItsWay

\* A task on an event list goes back to the queue as soon as it is taken off.
LEMMA WaiterLemma ==
  ASSUME OnePlace, BlockedAfterLeaving, OpsFit, NEW t \in Tasks, t \in recvWait \union sendWait
  PROVE  OnItsWay(t) /\ Blocked(t) /\ t \notin ready /\ ~(t \in recvWait /\ t \in sendWait)
<1>1. t \notin ready /\ ~(t \in recvWait /\ t \in sendWait)
  BY DEF OnePlace
<1>2. Blocked(t)
  BY <1>1 DEF BlockedAfterLeaving
<1>3. op[t] \in {"recv", "peek", "send"}
  BY DEF OpsFit, QueuePcs, LockedPcs
<1>4. pc[t] # "delayed"
  BY <1>3 DEF OpsFit, QueuePcs, LockedPcs
<1> QED
  BY <1>1, <1>2, <1>4 DEF Blocked, OnItsWay

\* The running task is on no event list where its call looks at the queue or returns.
LEMMA RunningNotWaiting ==
  ASSUME Base, NEW t \in Tasks, current = t, ~pendsv,
         pc[t] \in {"out", "try", "recheck", "delayed", "suspend"}
  PROVE  t \notin recvWait \union sendWait
<1>1. suspended = 0
  BY OutsideLemma DEF Base, SuspendedPcs, LockedPcs
<1>2. t \in ready
  <2>1. t # Idle
    BY TasksAssumption
  <2> QED
    BY <1>1, <2>1 DEF Base, Places, RunningIsReady
<1> QED
  BY <1>2 DEF Base, Places, OnePlace

\* A task whose call does not move stays on its way, and is on it once it is woken.
LEMMA StillLemma ==
  ASSUME Base, NEW u \in Tasks, pc'[u] = pc[u], op'[u] = op[u], outcome'[u] = outcome[u],
         u \notin recvWait' \union sendWait'
  PROVE  /\ u \in Takers \union recvWait => u \in Takers'
         /\ u \in Givers \union sendWait => u \in Givers'
<1>1. OnItsWay(u) => OnItsWay(u)'
  BY DEF OnItsWay
<1>2. u \in recvWait \union sendWait => OnItsWay(u)
  BY WaiterLemma DEF Base, Places
<1>3. /\ u \in recvWait => op[u] \in {"recv", "peek"}
      /\ u \in sendWait => op[u] = "send"
  BY DEF Base, OpsFit, QueuePcs, LockedPcs
<1>4. u \in Takers \union recvWait => op[u] \in {"recv", "peek"} /\ OnItsWay(u)
  BY <1>2, <1>3, TakersLemma
<1>5. u \in Givers \union sendWait => op[u] = "send" /\ OnItsWay(u)
  BY <1>2, <1>3, TakersLemma
<1>6. /\ Takers' = {t \in Tasks \ (recvWait' \union sendWait') : op'[t] \in {"recv", "peek"} /\ OnItsWay(t)'}
      /\ Givers' = {t \in Tasks \ (recvWait' \union sendWait') : op'[t] = "send" /\ OnItsWay(t)'}
  BY DEF Takers, Givers, OnTheirWay, OnItsWay
<1> QED
  BY <1>1, <1>4, <1>5, <1>6


-----------------------------------------------------------------------------
(* Steps of one task *)

LEMMA OthersStill ==
  ASSUME TypeOK, NEW t \in Tasks, TaskStep(t)
  PROVE  \A u \in Tasks \ {t} : pc'[u] = pc[u] /\ op'[u] = op[u] /\ outcome'[u] = outcome[u]
<1> USE DEF TypeOK, TaskTypeOK
<1>1. CASE \E o \in TaskOps, w \in WaitSet : Call(t, o, w)
  BY <1>1 DEF Call
<1>2. CASE ResetQueue(t) \/ TrySend(t) \/ TryReceive(t) \/ TryPeek(t)
  BY <1>2 DEF ResetQueue, TrySend, TryReceive, TryPeek, GiveUpOrBlock, Return, Goto, taskVars
<1>3. CASE \/ SuspendAll(t) \/ LockQueue(t) \/ PlaceOnEventList(t) \/ DelayTask(t)
           \/ UnlockTx(t) \/ UnlockRx(t) \/ YieldWithinApi(t)
  BY <1>3 DEF SuspendAll, LockQueue, PlaceOnEventList, DelayTask, UnlockTx, UnlockRx,
     YieldWithinApi, Goto
<1>4. CASE CheckForTimeOut(t) \/ CheckQueue(t) \/ DelayReturns(t) \/ AfterTimeOut(t)
  BY <1>4 DEF CheckForTimeOut, CheckQueue, DelayReturns, AfterTimeOut, Branch, Goto, Return
<1>5. CASE \E E \in SUBSET MayExpire : ResumeAll(t, E)
  BY <1>5 DEF ResumeAll
<1> QED
  BY <1>1, <1>2, <1>3, <1>4, <1>5 DEF TaskStep

\* A task that is on its way past the queue stays on its way.
LEMMA ActorLemma ==
  ASSUME Base, NEW t \in Tasks, TaskStep(t), OnItsWay(t), pc[t] # "try",
         op[t] \in {"send", "recv", "peek"}
  PROVE  OnItsWay(t)' /\ op'[t] = op[t]
<1> USE DEF Base, TypeOK, TaskTypeOK
<1>1. CASE UnlockTx(t) \/ UnlockRx(t) \/ YieldWithinApi(t)
  <2>1. op' = op /\ outcome' = outcome
    BY <1>1 DEF UnlockTx, UnlockRx, YieldWithinApi, Goto
  <2>2. \/ pc[t] = "unlockTx" /\ pc'[t] = "unlockRx"
        \/ pc[t] = "unlockRx" /\ pc'[t] = "resume"
        \/ pc'[t] = "try"
    BY <1>1, GotoPc DEF UnlockTx, UnlockRx, YieldWithinApi, AfterYield, At
  <2> QED
    BY <2>1, <2>2 DEF OnItsWay
<1>2. ASSUME NEW E \in SUBSET MayExpire, ResumeAll(t, E) PROVE OnItsWay(t)' /\ op'[t] = op[t]
  <2>1. op' = op /\ pc[t] = "resume"
    BY <1>2 DEF ResumeAll, At
  <2>2. outcome[t] \in {"block", "retry"}
    BY <2>1 DEF OnItsWay
  <2>3. pc'[t] \in {"yield", "try"}
    BY <1>2, <2>2 DEF ResumeAll, AfterYield
  <2> QED
    BY <2>1, <2>3 DEF OnItsWay
<1>3. pc[t] \in {"unlockTx", "unlockRx", "resume", "yield"}
  BY DEF OnItsWay
<1>4. \/ UnlockTx(t) \/ UnlockRx(t) \/ YieldWithinApi(t)
      \/ \E E \in SUBSET MayExpire : ResumeAll(t, E)
  BY <1>3 DEF TaskStep, At, Call, ResetQueue, TrySend, TryReceive, TryPeek, SuspendAll,
     LockQueue, CheckForTimeOut, CheckQueue, PlaceOnEventList, DelayTask, DelayReturns,
     AfterTimeOut
<1> QED
  BY <1>1, <1>2, <1>4

\* Whoever is on its way stays so, and whoever is woken comes to be so, but for a task
\* that looks at the queue.
LEMMA StayLemma ==
  ASSUME Base, NEW t \in Tasks, TaskStep(t), NEW u \in Tasks, u \notin recvWait' \union sendWait',
         u = t => pc[t] # "try"
  PROVE  /\ u \in Takers \union recvWait => u \in Takers'
         /\ u \in Givers \union sendWait => u \in Givers'
<1>1. CASE u # t
  BY <1>1, OthersStill, StillLemma DEF Base
<1>2. CASE u = t
  <2>1. u \in Takers \union recvWait => op[u] \in {"recv", "peek"} /\ OnItsWay(u)
    BY TakersLemma, WaiterLemma DEF Base, Places, OpsFit
  <2>2. u \in Givers \union sendWait => op[u] = "send" /\ OnItsWay(u)
    BY TakersLemma, WaiterLemma DEF Base, Places, OpsFit
  <2>3. /\ Takers' = {v \in Tasks \ (recvWait' \union sendWait') : op'[v] \in {"recv", "peek"} /\ OnItsWay(v)'}
        /\ Givers' = {v \in Tasks \ (recvWait' \union sendWait') : op'[v] = "send" /\ OnItsWay(v)'}
    BY DEF Takers, Givers, OnTheirWay, OnItsWay
  <2> QED
    BY <1>2, <2>1, <2>2, <2>3, ActorLemma
<1> QED
  BY <1>1, <1>2

LEMMA OpsFitStep ==
  ASSUME OpsFit, NEW t \in Tasks,
         \A u \in Tasks \ {t} : pc'[u] = pc[u] /\ op'[u] = op[u],
         recvWait' \subseteq recvWait \union {t}, sendWait' \subseteq sendWait \union {t},
         pc'[t] \in QueuePcs => op'[t] \in {"send", "recv", "peek"},
         pc'[t] \in {"suspend", "resume", "yield"} => op'[t] \in {"send", "recv", "peek", "delay"},
         pc'[t] \in {"delay", "delayed"} => op'[t] = "delay",
         t \in recvWait' => op'[t] \in {"recv", "peek"},
         t \in sendWait' => op'[t] = "send"
  PROVE  OpsFit'
BY DEF OpsFit, QueuePcs, LockedPcs

LEMMA ShrinkLemma ==
  ASSUME TypeOK, SuspendedSectionExclusive, Places, [Next]_vars,
         \A t \in Tasks : ~PlaceOnEventList(t)
  PROVE  recvWait' \subseteq recvWait /\ sendWait' \subseteq sendWait
BY RemovesSteps

LEMMA OpsFitNext ==
  ASSUME Base, [Next]_vars
  PROVE  OpsFit'
<1> USE DEF Base, TypeOK, TaskTypeOK, QueuePcs, LockedPcs
<1>1. ASSUME NEW t \in Tasks, PlaceOnEventList(t) PROVE OpsFit'
  <2>1. op' = op /\ pc'[t] = "unlockTx" /\ op[t] \in {"send", "recv", "peek"}
    BY <1>1, GotoPc DEF PlaceOnEventList, Goto, At, OpsFit
  <2>2. TaskStep(t)
    BY <1>1 DEF TaskStep
  <2>3. \/ op[t] = "send" /\ sendWait' = sendWait \union {t} /\ recvWait' = recvWait
        \/ op[t] # "send" /\ recvWait' = recvWait \union {t} /\ sendWait' = sendWait
    BY <1>1 DEF PlaceOnEventList
  <2> QED
    BY <2>1, <2>2, <2>3, OthersStill, OpsFitStep DEF OpsFit
<1>2. CASE \A t \in Tasks : ~PlaceOnEventList(t)
  <2>1. recvWait' \subseteq recvWait /\ sendWait' \subseteq sendWait
    BY <1>2, ShrinkLemma
  <2>2. ASSUME NEW t \in Tasks, NEW o \in TaskOps, NEW w \in WaitSet, Call(t, o, w) PROVE OpsFit'
    <3>1. t \notin recvWait \union sendWait
      BY <2>2, RunningNotWaiting DEF Call, At
    <3>2. /\ op'[t] \in {"send", "recv", "peek", "delay"}
          /\ pc'[t] = "suspend" \/ (pc'[t] = "try" /\ op'[t] # "delay")
          /\ \A u \in Tasks \ {t} : pc'[u] = pc[u] /\ op'[u] = op[u]
      <4>1. o \in {"send", "recv", "peek", "delay"}
        BY <2>2 DEF Call, TaskOps
      <4>2. /\ pc' = [pc EXCEPT ![t] = IF o = "delay" THEN "suspend" ELSE "try"]
            /\ op' = [op EXCEPT ![t] = o]
        BY <2>2 DEF Call
      <4>3. op'[t] = o /\ pc'[t] = IF o = "delay" THEN "suspend" ELSE "try"
        BY <4>2
      <4>4. \A u \in Tasks \ {t} : pc'[u] = pc[u] /\ op'[u] = op[u]
        BY <4>2
      <4> QED
        BY <4>1, <4>3, <4>4
    <3> QED
      BY <2>1, <3>1, <3>2, OpsFitStep
  <2>3. ASSUME NEW t \in Tasks, Return(t), current = t, ~pendsv,
               pc[t] \in {"try", "recheck", "delayed"}
        PROVE  OpsFit'
    <3>1. t \notin recvWait \union sendWait
      BY <2>3, RunningNotWaiting
    <3>2. pc'[t] = "out" /\ \A u \in Tasks \ {t} : pc'[u] = pc[u] /\ op'[u] = op[u]
      BY <2>3 DEF Return
    <3> QED
      BY <2>1, <3>1, <3>2, OpsFitStep
  <2>4. ASSUME NEW t \in Tasks, op' = op, \A u \in Tasks \ {t} : pc'[u] = pc[u],
               pc'[t] \in QueuePcs => op[t] \in {"send", "recv", "peek"},
               pc'[t] \in {"suspend", "resume", "yield"} =>
                 op[t] \in {"send", "recv", "peek", "delay"},
               pc'[t] \in {"delay", "delayed"} => op[t] = "delay"
        PROVE  OpsFit'
    BY <2>1, <2>4, OpsFitStep DEF OpsFit
  <2>5. ASSUME NEW t \in Tasks, TrySend(t) \/ TryReceive(t) \/ TryPeek(t) PROVE OpsFit'
    <3>1. Return(t) \/ Goto(t, "suspend")
      BY <2>5 DEF TrySend, TryReceive, TryPeek, GiveUpOrBlock
    <3>2. current = t /\ ~pendsv /\ pc[t] = "try" /\ op[t] \in {"send", "recv", "peek"}
      BY <2>5 DEF TrySend, TryReceive, TryPeek, At
    <3>3. CASE Return(t)
      BY <2>3, <3>2, <3>3
    <3>4. CASE Goto(t, "suspend")
      <4>1. pc'[t] = "suspend" /\ op' = op /\ \A u \in Tasks \ {t} : pc'[u] = pc[u]
        BY <3>4, GotoPc DEF Goto
      <4> QED
        BY <2>4, <3>2, <4>1
    <3> QED
      BY <3>1, <3>3, <3>4
  <2>6. ASSUME NEW t \in Tasks,
               \/ SuspendAll(t) \/ LockQueue(t) \/ DelayTask(t)
               \/ UnlockTx(t) \/ UnlockRx(t) \/ YieldWithinApi(t)
        PROVE  OpsFit'
    <3>1. op' = op /\ \A u \in Tasks \ {t} : pc'[u] = pc[u]
      BY <2>6, GotoPc DEF SuspendAll, LockQueue, DelayTask, UnlockTx, UnlockRx, YieldWithinApi, Goto
    <3>2. \/ pc[t] = "suspend" /\ pc'[t] = IF op[t] = "delay" THEN "delay" ELSE "lock"
          \/ pc[t] = "lock" /\ pc'[t] = "timeout"
          \/ pc[t] = "delay" /\ pc'[t] = "resume"
          \/ pc[t] = "unlockTx" /\ pc'[t] = "unlockRx"
          \/ pc[t] = "unlockRx" /\ pc'[t] = "resume"
          \/ pc[t] = "yield" /\ pc'[t] = IF op[t] = "delay" THEN "delayed" ELSE "try"
      BY <2>6, GotoPc DEF SuspendAll, LockQueue, DelayTask, UnlockTx, UnlockRx, YieldWithinApi,
         AfterYield, At
    <3> QED
      BY <2>4, <3>1, <3>2 DEF OpsFit
  <2>7. ASSUME NEW t \in Tasks, CheckForTimeOut(t) \/ CheckQueue(t) PROVE OpsFit'
    <3>1. /\ op' = op /\ \A u \in Tasks \ {t} : pc'[u] = pc[u]
          /\ pc[t] \in {"timeout", "check"} /\ pc'[t] \in {"unlockTx", "check", "place"}
      BY <2>7 DEF CheckForTimeOut, CheckQueue, Branch, Goto, At
    <3> QED
      BY <2>4, <3>1 DEF OpsFit
  <2>8. ASSUME NEW t \in Tasks, NEW E \in SUBSET MayExpire, ResumeAll(t, E) PROVE OpsFit'
    <3>1. op' = op /\ pc[t] = "resume" /\ \A u \in Tasks \ {t} : pc'[u] = pc[u]
      BY <2>8 DEF ResumeAll, At
    <3>2. op[t] = "delay" => outcome[t] = "block"
      BY DEF Places, CallConsistent
    <3>3. \/ pc'[t] = "yield"
          \/ pc'[t] = "delayed" /\ op[t] = "delay"
          \/ pc'[t] \in {"try", "recheck"} /\ op[t] # "delay"
      BY <2>8, <3>2 DEF ResumeAll, AfterYield
    <3> QED
      BY <2>4, <3>1, <3>3 DEF OpsFit
  <2>9. ASSUME NEW t \in Tasks, DelayReturns(t) \/ AfterTimeOut(t) PROVE OpsFit'
    <3>1. current = t /\ ~pendsv /\ pc[t] \in {"delayed", "recheck"}
      BY <2>9 DEF DelayReturns, AfterTimeOut, At
    <3>2. CASE Return(t)
      BY <2>3, <3>1, <3>2
    <3>3. CASE pc[t] = "recheck" /\ Goto(t, "try")
      <4>1. pc'[t] = "try" /\ op' = op /\ \A u \in Tasks \ {t} : pc'[u] = pc[u]
        BY <3>3, GotoPc DEF Goto
      <4> QED
        BY <2>4, <3>3, <4>1 DEF OpsFit
    <3> QED
      BY <2>9, <3>2, <3>3 DEF DelayReturns, AfterTimeOut, At
  <2>10. ASSUME UNCHANGED <<pc, op>> PROVE OpsFit'
    BY <2>1, <2>10 DEF OpsFit
  <2>11. CASE \E t \in Tasks : TaskStep(t)
    BY <1>2, <2>2, <2>5, <2>6, <2>7, <2>8, <2>9, <2>10, <2>11 DEF TaskStep, ResetQueue, taskVars
  <2>12. CASE SendFromISR \/ ReceiveFromISR \/ SwitchContext \/ UNCHANGED vars
    BY <2>10, <2>12 DEF SendFromISR, ReceiveFromISR, SwitchContext, vars, taskVars
  <2>13. CASE \E E \in SUBSET MayExpire : Tick(E)
    BY <2>10, <2>13 DEF Tick, taskVars
  <2> QED
    BY <2>11, <2>12, <2>13 DEF Next
<1> QED
  BY <1>1, <1>2


-----------------------------------------------------------------------------
(* The task that takes its place on an event list *)

\* The queue is locked from prvLockQueue to prvUnlockQueue.
LockHeld ==
  \A t \in Tasks :
    /\ pc[t] \in {"timeout", "check", "place", "unlockTx"} => cTxLock # queueUNLOCKED
    /\ pc[t] \in LockedPcs => cRxLock # queueUNLOCKED

\* The queue lock has counted at least n changes, or can count no more.
Enough(n, lock) == n <= Deferred(lock) \/ lock = NumberOfTasks

\* The test made before blocking holds, or the lock has counted what has changed since.
PlaceTakes ==
  \A t \in Tasks : pc[t] = "place" =>
    /\ op[t] = "send" => Enough(Length - messages, cRxLock)
    /\ op[t] # "send" => Enough(messages, cTxLock)

LEMMA LockHeldNext ==
  ASSUME Base, LockHeld, [Next]_vars
  PROVE  LockHeld'
<1> USE Numbers DEF LockHeld
<1>1. ASSUME NEW t \in Tasks, TaskStep(t), pc[t] \notin SuspendedPcs PROVE LockHeld'
  <2>1. current = t
    BY <1>1, OnlyRunningSteps
  <2>2. \A u \in Tasks : pc[u] \notin SuspendedPcs
    BY <1>1, <2>1, OutsideLemma DEF Base
  <2>3. pc'[t] \notin LockedPcs
    BY <1>1 DEF TaskStep, At, Call, ResetQueue, TrySend, TryReceive, TryPeek, SuspendAll,
       LockQueue, CheckForTimeOut, CheckQueue, PlaceOnEventList, DelayTask, UnlockTx, UnlockRx,
       ResumeAll, YieldWithinApi, DelayReturns, AfterTimeOut, GiveUpOrBlock, Return, Goto,
       AfterYield, SuspendedPcs, LockedPcs, taskVars, Base, TypeOK, TaskTypeOK
  <2> QED
    BY <1>1, <2>2, <2>3, OthersStill DEF Base, SuspendedPcs, LockedPcs
<1>2. ASSUME NEW t \in Tasks, TaskStep(t), pc[t] \in SuspendedPcs PROVE LockHeld'
  <2>1. \A u \in Tasks \ {t} : pc[u] \notin SuspendedPcs /\ pc'[u] = pc[u]
    BY <1>2, OthersStill, OnlyRunningSteps DEF Base, SuspendedSectionExclusive
  <2>2. /\ pc'[t] \in {"timeout", "check", "place", "unlockTx"} => cTxLock' # queueUNLOCKED
        /\ pc'[t] \in LockedPcs => cRxLock' # queueUNLOCKED
    <3>1. CASE pc[t] = "lock"
      <4>1. LockQueue(t)
        BY <1>2, <3>1 DEF TaskStep, At, Call, ResetQueue, TrySend, TryReceive, TryPeek, SuspendAll,
           CheckForTimeOut, CheckQueue, PlaceOnEventList, DelayTask, UnlockTx, UnlockRx, ResumeAll,
           YieldWithinApi, DelayReturns, AfterTimeOut
      <4> QED
        BY <4>1 DEF LockQueue
    <3>2. CASE pc[t] = "timeout" \/ pc[t] = "check" \/ pc[t] = "place"
      <4>1. CheckForTimeOut(t) \/ CheckQueue(t) \/ PlaceOnEventList(t)
        BY <1>2, <3>2 DEF TaskStep, At, Call, ResetQueue, TrySend, TryReceive, TryPeek, SuspendAll,
           LockQueue, DelayTask, UnlockTx, UnlockRx, ResumeAll, YieldWithinApi, DelayReturns,
           AfterTimeOut
      <4>2. cTxLock' = cTxLock /\ cRxLock' = cRxLock
        BY <4>1 DEF CheckForTimeOut, CheckQueue, PlaceOnEventList, queueVars
      <4> QED
        BY <3>2, <4>2 DEF LockedPcs
    <3>3. CASE pc[t] = "unlockTx"
      <4>1. UnlockTx(t)
        BY <1>2, <3>3 DEF TaskStep, At, Call, ResetQueue, TrySend, TryReceive, TryPeek, SuspendAll,
           LockQueue, CheckForTimeOut, CheckQueue, PlaceOnEventList, DelayTask, UnlockRx, ResumeAll,
           YieldWithinApi, DelayReturns, AfterTimeOut
      <4>2. cRxLock' = cRxLock /\ pc'[t] = "unlockRx"
        BY <4>1, GotoPc DEF UnlockTx, Base
      <4> QED
        BY <3>3, <4>2 DEF LockedPcs
    <3>4. CASE pc[t] \in {"unlockRx", "delay", "resume"}
      <4>1. UnlockRx(t) \/ DelayTask(t) \/ \E E \in SUBSET MayExpire : ResumeAll(t, E)
        BY <1>2, <3>4 DEF TaskStep, At, Call, ResetQueue, TrySend, TryReceive, TryPeek, SuspendAll,
           LockQueue, CheckForTimeOut, CheckQueue, PlaceOnEventList, UnlockTx, YieldWithinApi,
           DelayReturns, AfterTimeOut
      <4>2. pc'[t] \notin LockedPcs
        BY <4>1 DEF UnlockRx, DelayTask, ResumeAll, Goto, AfterYield, LockedPcs,
           Base, TypeOK, TaskTypeOK
      <4> QED
        BY <4>2 DEF LockedPcs
    <3> QED
      BY <1>2, <3>1, <3>2, <3>3, <3>4 DEF SuspendedPcs, LockedPcs
  <2> QED
    BY <2>1, <2>2 DEF SuspendedPcs, LockedPcs
<1>3. CASE SendFromISR \/ ReceiveFromISR
  <2>1. /\ pc' = pc
        /\ cTxLock # queueUNLOCKED => cTxLock' # queueUNLOCKED
        /\ cRxLock # queueUNLOCKED => cRxLock' # queueUNLOCKED
    BY <1>3 DEF SendFromISR, ReceiveFromISR, taskVars, Base, TypeOK, QueueTypeOK
  <2> QED
    BY <2>1
<1>4. ASSUME UNCHANGED <<pc, cTxLock, cRxLock>> PROVE LockHeld'
  BY <1>4
<1>5. CASE SwitchContext \/ UNCHANGED vars
  BY <1>4, <1>5 DEF SwitchContext, vars, taskVars, queueVars
<1>6. CASE \E E \in SUBSET MayExpire : Tick(E)
  BY <1>4, <1>6 DEF Tick, taskVars, queueVars
<1> QED
  BY <1>1, <1>2, <1>3, <1>5, <1>6 DEF Next

LEMMA PlaceTakesNext ==
  ASSUME Base, LockHeld, PlaceTakes, [Next]_vars
  PROVE  PlaceTakes'
<1> USE Numbers
<1> SUFFICES ASSUME NEW t \in Tasks, pc'[t] = "place"
             PROVE  /\ op'[t] = "send" => Enough(Length - messages, cRxLock)'
                    /\ op'[t] # "send" => Enough(messages, cTxLock)'
  BY DEF PlaceTakes
<1>1. CASE TaskStep(t)
  <2>1. CheckQueue(t)
    BY <1>1 DEF TaskStep, Call, ResetQueue, TrySend, TryReceive, TryPeek, GiveUpOrBlock, Return,
       SuspendAll, LockQueue, CheckForTimeOut, PlaceOnEventList, DelayTask, UnlockTx, UnlockRx,
       ResumeAll, YieldWithinApi, DelayReturns, AfterTimeOut, Branch, Goto, AfterYield, At, taskVars,
       Base, TypeOK, TaskTypeOK
  <2>2. FullOrEmpty(t) /\ UNCHANGED <<messages, cTxLock, cRxLock>> /\ op' = op
    BY <2>1 DEF CheckQueue, Branch, queueVars, Base, TypeOK, TaskTypeOK
  <2>3. messages \in Nat /\ cTxLock \in Int /\ cRxLock \in Int
    BY DEF Base, TypeOK, QueueTypeOK
  <2>4. messages' = (IF op'[t] = "send" THEN Length ELSE 0)
    BY <2>2 DEF FullOrEmpty
  <2>5. Deferred(cTxLock') >= 0 /\ Deferred(cRxLock') >= 0
    BY <2>2, <2>3 DEF Deferred
  <2>6. op'[t] = "send" => Length - messages' <= Deferred(cRxLock')
    BY <2>4, <2>5
  <2>7. op'[t] # "send" => messages' <= Deferred(cTxLock')
    BY <2>4, <2>5
  <2> QED
    BY <2>6, <2>7 DEF Enough, Deferred
<1>2. CASE ~TaskStep(t)
  <2>1. pc[t] = "place"
    BY <1>2, OthersKeepPc DEF Base
  <2>2. current = t /\ cTxLock # queueUNLOCKED /\ cRxLock # queueUNLOCKED
    BY <2>1 DEF Base, SuspendedSectionExclusive, LockHeld, SuspendedPcs, LockedPcs
  <2>3. \A u \in Tasks : ~TaskStep(u)
    BY <1>2, <2>2, OnlyRunningSteps
  <2>4. messages \in 0..Length /\ cTxLock \in -1..NumberOfTasks /\ cRxLock \in -1..NumberOfTasks
    BY DEF Base, TypeOK, QueueTypeOK
  <2>5. /\ op[t] = "send" => Enough(Length - messages, cRxLock)
        /\ op[t] # "send" => Enough(messages, cTxLock)
    BY <2>1 DEF PlaceTakes
  <2>6. CASE SendFromISR
    <3>1. /\ op' = op /\ messages' = messages + 1 /\ cRxLock' = cRxLock
          /\ cTxLock' = IF cTxLock < NumberOfTasks THEN cTxLock + 1 ELSE cTxLock
      BY <2>2, <2>6 DEF SendFromISR, taskVars
    <3> QED
      BY <2>2, <2>4, <2>5, <3>1 DEF Enough, Deferred
  <2>7. CASE ReceiveFromISR
    <3>1. /\ op' = op /\ messages' = messages - 1 /\ cTxLock' = cTxLock
          /\ cRxLock' = IF cRxLock < NumberOfTasks THEN cRxLock + 1 ELSE cRxLock
      BY <2>2, <2>7 DEF ReceiveFromISR, taskVars
    <3> QED
      BY <2>2, <2>4, <2>5, <3>1 DEF Enough, Deferred
  <2>8. CASE SwitchContext \/ UNCHANGED vars \/ \E E \in SUBSET MayExpire : Tick(E)
    <3>1. UNCHANGED <<op, messages, cTxLock, cRxLock>>
      BY <2>8 DEF SwitchContext, vars, Tick, taskVars, queueVars
    <3> QED
      BY <2>5, <3>1 DEF Enough, Deferred
  <2> QED
    BY <2>3, <2>6, <2>7, <2>8 DEF Next
<1> QED
  BY <1>1, <1>2

-----------------------------------------------------------------------------
(* Wakeups and those who take them *)

\* While there is a list there are takers for n messages, or the lock has saturated.
Balance(n, list, W, lock) ==
  list # {} => n <= Cardinality(W) + Deferred(lock) \/ lock = NumberOfTasks

\* The free slots of the queue.
Room == Length - messages

\* For every message a receiver that waits beside it has one before it, and for every
\* free slot so has a sender.
Received == Balance(messages, recvWait, Takers, cTxLock)
Sent == Balance(Room, sendWait, Givers, cRxLock)

LEMMA BalanceKept ==
  ASSUME NEW n \in Int, NEW n2 \in Int, NEW list, NEW list2,
         NEW W \in SUBSET Tasks, NEW W2 \in SUBSET Tasks, NEW lock \in Int, NEW lock2 \in Int,
         Balance(n, list, W, lock),
         list2 # {} =>
           /\ list # {}
           /\ \/ lock2 = NumberOfTasks
              \/ /\ lock # NumberOfTasks
                 /\ n2 + Cardinality(W) + Deferred(lock) <= n + Cardinality(W2) + Deferred(lock2)
  PROVE  Balance(n2, list2, W2, lock2)
<1>1. Cardinality(W) \in Int /\ Cardinality(W2) \in Int
  BY SetsLemma
<1>2. Deferred(lock) \in Int /\ Deferred(lock2) \in Int
  BY DEF Deferred
<1> QED
  BY <1>1, <1>2 DEF Balance

\* Of those in W the ones of L leave, and those of S come.
LEMMA ComingAndGoing ==
  ASSUME NEW W \in SUBSET Tasks, NEW W2 \in SUBSET Tasks, NEW S \in SUBSET Tasks,
         NEW L \in SUBSET Tasks,
         W \intersect S = {}, (W \ L) \union S \subseteq W2
  PROVE  Cardinality(W) + Cardinality(S) <= Cardinality(W2) + Cardinality(L)
<1> DEFINE stay == W \ L
<1>1. stay \in SUBSET Tasks /\ W \intersect L \in SUBSET L /\ stay \intersect S = {}
  OBVIOUS
<1>2. Cardinality(stay) = Cardinality(W) - Cardinality(W \intersect L)
  BY SetsLemma, FS_Difference
<1>3. Cardinality(W \intersect L) <= Cardinality(L)
  BY <1>1, SetsLemma, FS_Subset
<1>4. Cardinality(stay \union S) = Cardinality(stay) + Cardinality(S)
  <2>1. Cardinality(stay \union S) =
          Cardinality(stay) + Cardinality(S) - Cardinality(stay \intersect S)
    BY <1>1, SetsLemma, FS_Union
  <2>2. Cardinality(stay) \in Nat /\ Cardinality(S) \in Nat
    BY <1>1, SetsLemma
  <2> QED
    BY <1>1, <2>1, <2>2, FS_EmptySet
<1>5. Cardinality(stay \union S) <= Cardinality(W2)
  BY SetsLemma, FS_Subset
<1>6. /\ Cardinality(W) \in Nat /\ Cardinality(L) \in Nat /\ Cardinality(W2) \in Nat
      /\ Cardinality(S) \in Nat /\ Cardinality(W \intersect L) \in Nat
  BY SetsLemma
<1> QED
  BY <1>2, <1>3, <1>4, <1>5, <1>6

\* Who is on its way after a step that places nobody: all who were, but for the task
\* that looks at the queue, and all who have been woken.
LEMMA StayOn ==
  ASSUME Base, [Next]_vars, \A t \in Tasks : ~PlaceOnEventList(t)
  PROVE  /\ \A t \in Tasks : TaskStep(t) =>
              /\ (Takers \union (recvWait \ recvWait')) \ {t} \subseteq Takers'
              /\ (Givers \union (sendWait \ sendWait')) \ {t} \subseteq Givers'
         /\ (\A t \in Tasks : TaskStep(t) => pc[t] # "try") =>
              /\ Takers \union (recvWait \ recvWait') \subseteq Takers'
              /\ Givers \union (sendWait \ sendWait') \subseteq Givers'
<1>1. recvWait' \subseteq recvWait /\ sendWait' \subseteq sendWait
  BY ShrinkLemma DEF Base
<1>2. recvWait \intersect sendWait = {} /\ recvWait \subseteq Tasks /\ sendWait \subseteq Tasks
  BY DEF Base, Places, OnePlace, TypeOK, QueueTypeOK
<1>3. /\ Takers \subseteq Tasks \ (recvWait \union sendWait)
      /\ Givers \subseteq Tasks \ (recvWait \union sendWait)
  BY TakersLemma
<1>4. \A u \in Takers \union Givers \union (recvWait \ recvWait') \union (sendWait \ sendWait') :
        u \in Tasks /\ u \notin recvWait' \union sendWait'
  BY <1>1, <1>2, <1>3
<1>5. ASSUME NEW t \in Tasks, TaskStep(t), NEW u \in Tasks, u \notin recvWait' \union sendWait',
             u # t \/ pc[t] # "try"
      PROVE  /\ u \in Takers \union recvWait => u \in Takers'
             /\ u \in Givers \union sendWait => u \in Givers'
  BY <1>5, StayLemma
<1>6. ASSUME \A t \in Tasks : ~TaskStep(t), NEW u \in Tasks, u \notin recvWait' \union sendWait'
      PROVE  /\ u \in Takers \union recvWait => u \in Takers'
             /\ u \in Givers \union sendWait => u \in Givers'
  <2>1. pc'[u] = pc[u] /\ op'[u] = op[u] /\ outcome'[u] = outcome[u]
    BY <1>6 DEF Next, SendFromISR, ReceiveFromISR, Tick, SwitchContext, vars, taskVars
  <2> QED
    BY <1>6, <2>1, StillLemma
<1>7. ASSUME NEW t \in Tasks, TaskStep(t)
      PROVE  /\ (Takers \union (recvWait \ recvWait')) \ {t} \subseteq Takers'
             /\ (Givers \union (sendWait \ sendWait')) \ {t} \subseteq Givers'
  BY <1>4, <1>5, <1>7
<1>8. ASSUME \A t \in Tasks : TaskStep(t) => pc[t] # "try"
      PROVE  /\ Takers \union (recvWait \ recvWait') \subseteq Takers'
             /\ Givers \union (sendWait \ sendWait') \subseteq Givers'
  <2>1. CASE \E t \in Tasks : TaskStep(t)
    BY <1>4, <1>5, <1>8, <2>1
  <2>2. CASE \A t \in Tasks : ~TaskStep(t)
    BY <1>4, <1>6, <2>2
  <2> QED
    BY <2>1, <2>2
<1> QED
  BY <1>7, <1>8

\* A wakeup that leaves tasks on the list has taken as many off it as it was to take.
LEMMA FirstWoken ==
  ASSUME TypeOK, NEW list \in SUBSET Tasks, InPriorityOrder(list), NEW k \in Int, NEW list2,
         list2 = list \ First(list, k), list2 # {}
  PROVE  list # {} /\ Cardinality(list \ list2) >= k
<1>1. list \ list2 = First(list, k)
  BY FirstLemma
<1> QED
  BY <1>1, FirstCount

-----------------------------------------------------------------------------
(* The receivers *)

\* A step that adds nothing to the messages, nobody to the list, and takes nobody off the way.
LEMMA ReceiversQuiet ==
  ASSUME Base, TypeOK', Received,
         messages' <= messages, recvWait' \subseteq recvWait, Takers \subseteq Takers',
         cTxLock = NumberOfTasks => cTxLock' = NumberOfTasks, Deferred(cTxLock') = Deferred(cTxLock)
  PROVE  Received'
<1>1. messages \in Int /\ messages' \in Int /\ cTxLock \in Int /\ cTxLock' \in Int
  BY Numbers DEF Base, TypeOK, QueueTypeOK
<1>2. Takers \in SUBSET Tasks /\ Takers' \in SUBSET Tasks
  BY DEF Takers, OnTheirWay
<1>3. /\ Cardinality(Takers) \in Int /\ Cardinality(Takers') \in Int
      /\ Cardinality(Takers) <= Cardinality(Takers')
  BY <1>2, SetsLemma, FS_Subset
<1>4. Deferred(cTxLock) \in Int
  BY <1>1 DEF Deferred
<1>5. messages' + Cardinality(Takers) + Deferred(cTxLock) <=
        messages + Cardinality(Takers') + Deferred(cTxLock')
  BY <1>1, <1>3, <1>4
<1>6. recvWait' # {} =>
        /\ recvWait # {}
        /\ cTxLock' = NumberOfTasks \/ cTxLock # NumberOfTasks
  BY <1>1
<1>7. Balance(messages', recvWait', Takers', cTxLock')
  BY <1>1, <1>2, <1>5, <1>6, BalanceKept DEF Received
<1> QED
  BY <1>7 DEF Received

\* A step that wakes the first task of the list, or as many as the lock has counted.
LEMMA ReceiversWoken ==
  ASSUME Base, TypeOK', Received, NEW k \in Nat, NEW L \in SUBSET Tasks,
         recvWait' = recvWait \ First(recvWait, k),
         (Takers \ L) \union (recvWait \ recvWait') \subseteq Takers',
         cTxLock # NumberOfTasks, cTxLock' = queueUNLOCKED,
         messages' + Deferred(cTxLock) + Cardinality(L) <= messages + k
  PROVE  Received'
<1>1. messages \in Int /\ messages' \in Int /\ cTxLock \in Int /\ cTxLock' \in Int
  BY Numbers DEF Base, TypeOK, QueueTypeOK
<1>2. Takers \in SUBSET Tasks /\ Takers' \in SUBSET Tasks /\ Takers \intersect recvWait = {}
  BY DEF Takers, OnTheirWay
<1>3. recvWait \in SUBSET Tasks /\ InPriorityOrder(recvWait)
  BY DEF Base, TypeOK, QueueTypeOK, ListsByPriority
<1>4. Cardinality(Takers) + Cardinality(recvWait \ recvWait') <=
        Cardinality(Takers') + Cardinality(L)
  BY <1>2, <1>3, ComingAndGoing
<1>5. recvWait' # {} => recvWait # {} /\ Cardinality(recvWait \ recvWait') >= k
  BY <1>3, FirstWoken DEF Base
<1>6. /\ Cardinality(Takers) \in Int /\ Cardinality(Takers') \in Int /\ Cardinality(L) \in Int
      /\ Cardinality(recvWait \ recvWait') \in Int
  BY <1>2, <1>3, SetsLemma
<1>7. Deferred(cTxLock) \in Int /\ Deferred(cTxLock') = 0
  BY <1>1, Numbers DEF Deferred
<1>8. recvWait' # {} =>
        /\ recvWait # {}
        /\ messages' + Cardinality(Takers) + Deferred(cTxLock) <=
             messages + Cardinality(Takers') + Deferred(cTxLock')
  BY <1>1, <1>4, <1>5, <1>6, <1>7
<1>9. Balance(messages', recvWait', Takers', cTxLock')
  BY <1>1, <1>2, <1>8, BalanceKept DEF Received
<1> QED
  BY <1>9 DEF Received

-----------------------------------------------------------------------------
(* The senders *)

\* A step that adds nothing to the free slots, nobody to the list, and takes nobody off the way.
LEMMA SendersQuiet ==
  ASSUME Base, TypeOK', Sent,
         Room' <= Room, sendWait' \subseteq sendWait, Givers \subseteq Givers',
         cRxLock = NumberOfTasks => cRxLock' = NumberOfTasks, Deferred(cRxLock') = Deferred(cRxLock)
  PROVE  Sent'
<1> USE DEF Room
<1>1. Room \in Int /\ Room' \in Int /\ cRxLock \in Int /\ cRxLock' \in Int
  BY Numbers DEF Base, TypeOK, QueueTypeOK
<1>2. Givers \in SUBSET Tasks /\ Givers' \in SUBSET Tasks
  BY DEF Givers, OnTheirWay
<1>3. /\ Cardinality(Givers) \in Int /\ Cardinality(Givers') \in Int
      /\ Cardinality(Givers) <= Cardinality(Givers')
  BY <1>2, SetsLemma, FS_Subset
<1>4. Deferred(cRxLock) \in Int
  BY <1>1 DEF Deferred
<1>5. Room' + Cardinality(Givers) + Deferred(cRxLock) <=
        Room + Cardinality(Givers') + Deferred(cRxLock')
  BY <1>1, <1>3, <1>4
<1>6. sendWait' # {} =>
        /\ sendWait # {}
        /\ cRxLock' = NumberOfTasks \/ cRxLock # NumberOfTasks
  BY <1>1
<1>7. Balance(Room', sendWait', Givers', cRxLock')
  BY <1>1, <1>2, <1>5, <1>6, BalanceKept DEF Sent
<1> QED
  BY <1>7 DEF Sent

\* A step that wakes the first task of the list, or as many as the lock has counted.
LEMMA SendersWoken ==
  ASSUME Base, TypeOK', Sent, NEW k \in Nat, NEW L \in SUBSET Tasks,
         sendWait' = sendWait \ First(sendWait, k),
         (Givers \ L) \union (sendWait \ sendWait') \subseteq Givers',
         cRxLock # NumberOfTasks, cRxLock' = queueUNLOCKED,
         Room' + Deferred(cRxLock) + Cardinality(L) <= Room + k
  PROVE  Sent'
<1> USE DEF Room
<1>1. Room \in Int /\ Room' \in Int /\ cRxLock \in Int /\ cRxLock' \in Int
  BY Numbers DEF Base, TypeOK, QueueTypeOK
<1>2. Givers \in SUBSET Tasks /\ Givers' \in SUBSET Tasks /\ Givers \intersect sendWait = {}
  BY DEF Givers, OnTheirWay
<1>3. sendWait \in SUBSET Tasks /\ InPriorityOrder(sendWait)
  BY DEF Base, TypeOK, QueueTypeOK, ListsByPriority
<1>4. Cardinality(Givers) + Cardinality(sendWait \ sendWait') <=
        Cardinality(Givers') + Cardinality(L)
  BY <1>2, <1>3, ComingAndGoing
<1>5. sendWait' # {} => sendWait # {} /\ Cardinality(sendWait \ sendWait') >= k
  BY <1>3, FirstWoken DEF Base
<1>6. /\ Cardinality(Givers) \in Int /\ Cardinality(Givers') \in Int /\ Cardinality(L) \in Int
      /\ Cardinality(sendWait \ sendWait') \in Int
  BY <1>2, <1>3, SetsLemma
<1>7. Deferred(cRxLock) \in Int /\ Deferred(cRxLock') = 0
  BY <1>1, Numbers DEF Deferred
<1>8. sendWait' # {} =>
        /\ sendWait # {}
        /\ Room' + Cardinality(Givers) + Deferred(cRxLock) <=
             Room + Cardinality(Givers') + Deferred(cRxLock')
  BY <1>1, <1>4, <1>5, <1>6, <1>7
<1>9. Balance(Room', sendWait', Givers', cRxLock')
  BY <1>1, <1>2, <1>8, BalanceKept DEF Sent
<1> QED
  BY <1>9 DEF Sent

-----------------------------------------------------------------------------
(* No wakeup is lost *)

LEMMA FirstNone ==
  ASSUME TypeOK, NEW list \in SUBSET Tasks
  PROVE  First(list, 0) = {}
<1>1. \A t \in list : Cardinality(ahead[t]) \in Nat
  BY SetsLemma DEF TypeOK, QueueTypeOK
<1> QED
  BY <1>1 DEF First

\* A lock that has counted as far as it can lets everybody go.
LEMMA FirstAll ==
  ASSUME TypeOK, NEW list \in SUBSET Tasks
  PROVE  First(list, NumberOfTasks) = list
<1>1. \A t \in list : Cardinality(ahead[t]) < NumberOfTasks
  BY SetsLemma DEF TypeOK, QueueTypeOK
<1> QED
  BY <1>1 DEF First

\* What prvLockQueue does to a counter, or nothing.
Kept(lock, lock2) == lock2 = lock \/ (lock = queueUNLOCKED /\ lock2 = queueLOCKED_UNMODIFIED)

LEMMA NobodyLeaves == Cardinality({}) = 0 /\ \A t : Cardinality({t}) = 1
BY FS_EmptySet, FS_Singleton

LEMMA ReceiversServedAll ==
  ASSUME Base, TypeOK', messages' = 0
  PROVE  Received'
<1>1. Takers' \in SUBSET Tasks /\ cTxLock' \in Int
  BY Numbers DEF Takers, OnTheirWay, TypeOK, QueueTypeOK
<1>2. Cardinality(Takers') >= 0 /\ Cardinality(Takers') \in Nat /\ Deferred(cTxLock') >= 0
      /\ Deferred(cTxLock') \in Int
  BY <1>1, SetsLemma DEF Deferred
<1>3. messages' <= Cardinality(Takers') + Deferred(cTxLock')
  BY <1>2
<1> QED
  BY <1>3 DEF Received, Balance

\* First the steps of a task that looks at the queue.
LEMMA ReceiversTry ==
  ASSUME Base, TypeOK', Received, [Next]_vars, NEW t \in Tasks,
         TrySend(t) \/ TryReceive(t) \/ TryPeek(t)
  PROVE  Received'
<1>1. /\ pc[t] = "try" /\ current = t /\ ~pendsv /\ TaskStep(t)
      /\ cTxLock' = cTxLock /\ \A u \in Tasks : ~PlaceOnEventList(u)
  BY DEF TrySend, TryReceive, TryPeek, At, TaskStep, PlaceOnEventList
<1>2. cTxLock = queueUNLOCKED /\ cTxLock # NumberOfTasks /\ Deferred(cTxLock) = 0
  <2>1. cTxLock = queueUNLOCKED
    BY <1>1, OutsideLemma DEF Base, SuspendedPcs, LockedPcs
  <2> QED
    BY <2>1, Numbers DEF Deferred
<1>3. t \notin recvWait /\ (Takers \ {t}) \union (recvWait \ recvWait') \subseteq Takers'
  <2>1. t \notin recvWait
    BY <1>1, RunningNotWaiting
  <2>2. (Takers \union (recvWait \ recvWait')) \ {t} \subseteq Takers'
    BY <1>1, StayOn
  <2> QED
    BY <2>1, <2>2
<1>4. recvWait' \subseteq recvWait
  BY <1>1, ShrinkLemma DEF Base
<1>5. messages \in Int /\ messages' \in Int /\ Length \in Int
  BY Numbers DEF Base, TypeOK, QueueTypeOK
<1>6. recvWait \in SUBSET Tasks /\ recvWait \ First(recvWait, 0) = recvWait
  <2>1. recvWait \in SUBSET Tasks
    BY DEF Base, TypeOK, QueueTypeOK
  <2> QED
    BY <2>1, FirstNone DEF Base
<1>7. CASE TrySend(t)
  <2>1. Takers \union (recvWait \ recvWait') \subseteq Takers'
    <3>1. t \notin Takers
      BY <1>7 DEF TrySend, Takers, OnTheirWay
    <3> QED
      BY <1>3, <3>1
  <2>2. CASE WakeReceiver /\ messages' = messages + 1
    <3>1. recvWait' = recvWait \ First(recvWait, 1)
      BY <2>2 DEF WakeReceiver
    <3>2. (Takers \ {}) \union (recvWait \ recvWait') \subseteq Takers'
      BY <2>1
    <3>3. messages' + Deferred(cTxLock) + Cardinality({}) <= messages + 1
      <4>1. messages' = messages + 1 /\ messages' \in Int /\ messages \in Int
        BY <1>5, <2>2
      <4>2. Cardinality({}) = 0
        BY NobodyLeaves
      <4> QED
        BY <1>2, <4>1, <4>2
    <3> QED
      BY <1>1, <1>2, <3>1, <3>2, <3>3, ReceiversWoken
  <2>3. CASE GiveUpOrBlock(t)
    <3>1. messages' <= messages /\ recvWait' = recvWait
      BY <1>5, <2>3 DEF GiveUpOrBlock, WakeNobody
    <3> QED
      BY <1>1, <2>1, <3>1, ReceiversQuiet
  <2>4. (WakeReceiver /\ messages' = messages + 1) \/ GiveUpOrBlock(t)
    BY <1>7 DEF TrySend
  <2>5. messages' = messages + 1 => messages' = messages + 1
    BY <1>5
  <2> QED
    BY <2>2, <2>3, <2>4, <2>5
<1>8. CASE TryReceive(t)
  <2>1. CASE messages' = messages - 1 /\ recvWait' = recvWait
    <3>1. messages' + Deferred(cTxLock) + Cardinality({t}) <= messages + 0
      <4>1. messages' = messages - 1 /\ messages' \in Int /\ messages \in Int
        BY <1>5, <2>1
      <4>2. Cardinality({t}) = 1
        BY NobodyLeaves
      <4> QED
        BY <1>2, <4>1, <4>2
    <3> QED
      BY <1>1, <1>2, <1>3, <1>6, <2>1, <3>1, ReceiversWoken
  <2>2. CASE GiveUpOrBlock(t)
    <3>1. messages' = 0
      BY <1>5, <1>8, <2>2 DEF GiveUpOrBlock, FullOrEmpty, TryReceive
    <3> QED
      BY <3>1, ReceiversServedAll
  <2>3. (messages' = messages - 1 /\ recvWait' = recvWait) \/ GiveUpOrBlock(t)
    BY <1>8 DEF TryReceive, WakeSender
  <2>4. messages' = messages - 1 => messages' = messages - 1
    BY <1>5
  <2> QED
    BY <2>1, <2>2, <2>3, <2>4
<1>9. CASE TryPeek(t)
  <2>1. CASE WakeReceiver /\ messages' = messages
    <3>1. recvWait' = recvWait \ First(recvWait, 1)
      BY <2>1 DEF WakeReceiver
    <3>2. messages' + Deferred(cTxLock) + Cardinality({t}) <= messages + 1
      <4>1. Cardinality({t}) = 1
        BY NobodyLeaves
      <4> QED
        BY <1>2, <1>5, <2>1, <4>1
    <3> QED
      BY <1>1, <1>2, <1>3, <3>1, <3>2, ReceiversWoken
  <2>2. CASE GiveUpOrBlock(t)
    <3>1. messages' = 0
      BY <1>9, <2>2 DEF GiveUpOrBlock, FullOrEmpty, TryPeek
    <3> QED
      BY <3>1, ReceiversServedAll
  <2> QED
    BY <1>9, <2>1, <2>2 DEF TryPeek
<1> QED
  BY <1>7, <1>8, <1>9

\* prvUnlockQueue replays what the lock has counted.
LEMMA ReceiversUnlock ==
  ASSUME Base, TypeOK', LockHeld, Received, [Next]_vars, NEW t \in Tasks, UnlockTx(t)
  PROVE  Received'
<1>1. /\ pc[t] = "unlockTx" /\ recvWait' = recvWait \ First(recvWait, cTxLock)
      /\ cTxLock' = queueUNLOCKED /\ messages' = messages
      /\ current = t /\ TaskStep(t) /\ \A u \in Tasks : ~PlaceOnEventList(u)
  BY DEF UnlockTx, At, TaskStep, PlaceOnEventList
<1>2. cTxLock \in Nat /\ messages \in Int /\ recvWait \in SUBSET Tasks
  <2>1. cTxLock # queueUNLOCKED
    BY <1>1 DEF LockHeld, LockedPcs
  <2> QED
    BY <2>1, Numbers DEF Base, TypeOK, QueueTypeOK
<1>3. Takers \union (recvWait \ recvWait') \subseteq Takers'
  BY <1>1, StayOn, OnlyRunningSteps
<1>4. CASE cTxLock = NumberOfTasks
  <2>1. recvWait' = {}
    BY <1>1, <1>2, <1>4, FirstAll DEF Base
  <2> QED
    BY <2>1 DEF Received, Balance
<1>5. CASE cTxLock # NumberOfTasks
  <2>1. messages' + Deferred(cTxLock) + Cardinality({}) <= messages + cTxLock
    BY <1>1, <1>2, NobodyLeaves DEF Deferred
  <2>2. (Takers \ {}) \union (recvWait \ recvWait') \subseteq Takers'
    BY <1>3
  <2> QED
    BY <1>1, <1>2, <1>5, <2>1, <2>2, ReceiversWoken
<1> QED
  BY <1>4, <1>5

\* The interrupt that adds one wakes a task, or leaves it to the lock.
LEMMA ReceiversInterrupt ==
  ASSUME Base, TypeOK', Received, [Next]_vars, SendFromISR, \A t \in Tasks : ~TaskStep(t)
  PROVE  Received'
<1>1. messages \in Int /\ messages' \in Int /\ cTxLock \in Int /\ cTxLock' \in Int
  BY Numbers DEF Base, TypeOK, QueueTypeOK
<1>2. messages' = messages + 1
  BY Numbers DEF SendFromISR, Base, TypeOK, QueueTypeOK
<1>3. Takers \union (recvWait \ recvWait') \subseteq Takers'
  BY StayOn DEF TaskStep
<1>4. CASE cTxLock = queueUNLOCKED /\ WakeReceiver /\ cTxLock' = cTxLock
  <2>1. recvWait' = recvWait \ First(recvWait, 1)
    BY <1>4 DEF WakeReceiver
  <2>2. (Takers \ {}) \union (recvWait \ recvWait') \subseteq Takers'
    BY <1>3
  <2>3. /\ cTxLock # NumberOfTasks
        /\ messages' + Deferred(cTxLock) + Cardinality({}) <= messages + 1
    BY <1>1, <1>2, <1>4, NobodyLeaves, Numbers DEF Deferred
  <2> QED
    BY <1>4, <2>1, <2>2, <2>3, ReceiversWoken
<1>5. CASE /\ cTxLock # queueUNLOCKED /\ recvWait' = recvWait
           /\ cTxLock' = IF cTxLock < NumberOfTasks THEN cTxLock + 1 ELSE cTxLock
  <2>1. cTxLock \in 0..NumberOfTasks
    BY <1>5, Numbers DEF Base, TypeOK, QueueTypeOK
  <2>2. Takers \in SUBSET Tasks /\ Takers' \in SUBSET Tasks /\ Takers \subseteq Takers'
    BY <1>3 DEF Takers, OnTheirWay
  <2>3. /\ Cardinality(Takers) \in Int /\ Cardinality(Takers') \in Int
        /\ Cardinality(Takers) <= Cardinality(Takers')
    BY <2>2, SetsLemma, FS_Subset
  <2>4. \/ cTxLock' = NumberOfTasks
        \/ /\ cTxLock # NumberOfTasks
           /\ messages' + Cardinality(Takers) + Deferred(cTxLock) <=
                messages + Cardinality(Takers') + Deferred(cTxLock')
    BY <1>1, <1>2, <1>5, <2>1, <2>3, Numbers DEF Deferred
  <2>5. Balance(messages', recvWait', Takers', cTxLock')
    BY <1>1, <1>5, <2>2, <2>4, BalanceKept DEF Received
  <2> QED
    BY <2>5 DEF Received
<1> QED
  BY <1>4, <1>5 DEF SendFromISR, WakeNobody

\* A task takes its place on the list only if nothing is there for it but what the
\* lock has counted.
LEMMA ReceiversPlace ==
  ASSUME Base, TypeOK', PlaceTakes, Received, [Next]_vars, NEW t \in Tasks, PlaceOnEventList(t)
  PROVE  Received'
<1>1. pc[t] = "place" /\ messages' = messages /\ cTxLock' = cTxLock /\ TaskStep(t)
  BY DEF PlaceOnEventList, At, TaskStep
<1>2. CASE op[t] # "send"
  <2>1. Enough(messages', cTxLock')
    BY <1>1, <1>2 DEF PlaceTakes
  <2>2. Takers' \in SUBSET Tasks /\ cTxLock' \in Int /\ messages' \in Int
    BY Numbers DEF Takers, OnTheirWay, TypeOK, QueueTypeOK
  <2>3. Cardinality(Takers') \in Nat /\ Deferred(cTxLock') \in Int
    BY <2>2, SetsLemma DEF Deferred
  <2> QED
    BY <2>1, <2>2, <2>3 DEF Enough, Received, Balance
<1>3. CASE op[t] = "send"
  <2>1. recvWait' = recvWait /\ sendWait' = sendWait \union {t}
    BY <1>3 DEF PlaceOnEventList
  <2>2. \A u \in Takers : u \in Tasks /\ u # t /\ u \notin recvWait' \union sendWait'
    BY <1>3, <2>1, TakersLemma DEF Takers, OnTheirWay
  <2>3. Takers \subseteq Takers'
    BY <1>1, <2>2, StayLemma
  <2>4. messages' \in Int /\ messages' <= messages
    BY <1>1, Numbers DEF Base, TypeOK, QueueTypeOK
  <2> QED
    BY <1>1, <2>1, <2>3, <2>4, ReceiversQuiet
<1> QED
  BY <1>2, <1>3

\* What is left: steps that give the receivers nothing to do.
LEMMA ReceiversRest ==
  ASSUME Base, TypeOK', Received, [Next]_vars,
         \A t \in Tasks : /\ ~PlaceOnEventList(t) /\ ~UnlockTx(t) /\ ~ResetQueue(t)
                          /\ ~TrySend(t) /\ ~TryReceive(t) /\ ~TryPeek(t),
         (\E t \in Tasks : TaskStep(t)) \/ ~SendFromISR
  PROVE  Received'
<1>1. \A t \in Tasks : TaskStep(t) => pc[t] # "try"
  BY DEF TaskStep, At, Call, SuspendAll, LockQueue, CheckForTimeOut, CheckQueue, DelayTask,
     UnlockTx, UnlockRx, ResumeAll, YieldWithinApi, DelayReturns, AfterTimeOut
<1>2. Takers \subseteq Takers'
  BY <1>1, StayOn
<1>3. recvWait' \subseteq recvWait
  BY ShrinkLemma DEF Base
<1>4. messages' <= messages /\ Kept(cTxLock, cTxLock')
  <2>1. messages \in Int /\ Length \in Int
    BY Numbers DEF Base, TypeOK, QueueTypeOK
  <2>2. ASSUME NEW t \in Tasks, TaskStep(t)
        PROVE  /\ messages' = messages
               /\ Kept(cTxLock, cTxLock')
    BY <2>2 DEF TaskStep, Call, SuspendAll, LockQueue, CheckForTimeOut, CheckQueue, DelayTask,
       UnlockTx, UnlockRx, ResumeAll, YieldWithinApi, DelayReturns, AfterTimeOut, queueVars, Kept
  <2>3. CASE ReceiveFromISR
    BY <2>1, <2>3 DEF ReceiveFromISR, Kept
  <2>4. CASE SwitchContext \/ UNCHANGED vars
    BY <2>1, <2>4 DEF SwitchContext, vars, queueVars, Kept
  <2>5. CASE \E E \in SUBSET MayExpire : Tick(E)
    <3>1. messages' = messages /\ cTxLock' = cTxLock
      BY <2>5 DEF Tick, queueVars
    <3> QED
      BY <2>1, <3>1 DEF Kept
  <2> QED
    BY <2>1, <2>2, <2>3, <2>4, <2>5 DEF Next
<1>5. /\ cTxLock = NumberOfTasks => cTxLock' = NumberOfTasks
      /\ Deferred(cTxLock') = Deferred(cTxLock)
  BY <1>4, Numbers DEF Deferred, Kept
<1> QED
  BY <1>2, <1>3, <1>4, <1>5, ReceiversQuiet

LEMMA SendersServedAll ==
  ASSUME Base, TypeOK', Room' = 0
  PROVE  Sent'
<1> USE DEF Room
<1>1. Givers' \in SUBSET Tasks /\ cRxLock' \in Int
  BY Numbers DEF Givers, OnTheirWay, TypeOK, QueueTypeOK
<1>2. Cardinality(Givers') >= 0 /\ Cardinality(Givers') \in Nat /\ Deferred(cRxLock') >= 0
      /\ Deferred(cRxLock') \in Int
  BY <1>1, SetsLemma DEF Deferred
<1>3. Room' <= Cardinality(Givers') + Deferred(cRxLock')
  BY <1>2
<1> QED
  BY <1>3 DEF Sent, Balance

\* First the steps of a task that looks at the queue.
LEMMA SendersTry ==
  ASSUME Base, TypeOK', Sent, [Next]_vars, NEW t \in Tasks,
         TryReceive(t) \/ TrySend(t) \/ TryPeek(t)
  PROVE  Sent'
<1> USE DEF Room
<1>1. /\ pc[t] = "try" /\ current = t /\ ~pendsv /\ TaskStep(t)
      /\ cRxLock' = cRxLock /\ \A u \in Tasks : ~PlaceOnEventList(u)
  BY DEF TryReceive, TrySend, TryPeek, At, TaskStep, PlaceOnEventList
<1>2. cRxLock = queueUNLOCKED /\ cRxLock # NumberOfTasks /\ Deferred(cRxLock) = 0
  <2>1. cRxLock = queueUNLOCKED
    BY <1>1, OutsideLemma DEF Base, SuspendedPcs, LockedPcs
  <2> QED
    BY <2>1, Numbers DEF Deferred
<1>3. t \notin sendWait /\ (Givers \ {t}) \union (sendWait \ sendWait') \subseteq Givers'
  <2>1. t \notin sendWait
    BY <1>1, RunningNotWaiting
  <2>2. (Givers \union (sendWait \ sendWait')) \ {t} \subseteq Givers'
    BY <1>1, StayOn
  <2> QED
    BY <2>1, <2>2
<1>4. sendWait' \subseteq sendWait
  BY <1>1, ShrinkLemma DEF Base
<1>5. Room \in Int /\ Room' \in Int /\ messages \in Int /\ messages' \in Int /\ Length \in Int
  BY Numbers DEF Base, TypeOK, QueueTypeOK
<1>6. sendWait \in SUBSET Tasks /\ sendWait \ First(sendWait, 0) = sendWait
  <2>1. sendWait \in SUBSET Tasks
    BY DEF Base, TypeOK, QueueTypeOK
  <2> QED
    BY <2>1, FirstNone DEF Base
<1>7. CASE TryReceive(t)
  <2>1. Givers \union (sendWait \ sendWait') \subseteq Givers'
    <3>1. t \notin Givers
      BY <1>7 DEF TryReceive, Givers, OnTheirWay
    <3> QED
      BY <1>3, <3>1
  <2>2. CASE WakeSender /\ Room' = Room + 1
    <3>1. sendWait' = sendWait \ First(sendWait, 1)
      BY <2>2 DEF WakeSender
    <3>2. (Givers \ {}) \union (sendWait \ sendWait') \subseteq Givers'
      BY <2>1
    <3>3. Room' + Deferred(cRxLock) + Cardinality({}) <= Room + 1
      <4>1. Room' = Room + 1 /\ Room' \in Int /\ Room \in Int
        BY <1>5, <2>2
      <4>2. Cardinality({}) = 0
        BY NobodyLeaves
      <4> QED
        BY <1>2, <4>1, <4>2
    <3> QED
      BY <1>1, <1>2, <3>1, <3>2, <3>3, SendersWoken
  <2>3. CASE GiveUpOrBlock(t)
    <3>1. Room' <= Room /\ sendWait' = sendWait
      BY <1>5, <2>3 DEF GiveUpOrBlock, WakeNobody
    <3> QED
      BY <1>1, <2>1, <3>1, SendersQuiet
  <2>4. (WakeSender /\ messages' = messages - 1) \/ GiveUpOrBlock(t)
    BY <1>7 DEF TryReceive
  <2>5. messages' = messages - 1 => Room' = Room + 1
    BY <1>5
  <2> QED
    BY <2>2, <2>3, <2>4, <2>5
<1>8. CASE TrySend(t)
  <2>1. CASE Room' = Room - 1 /\ sendWait' = sendWait
    <3>1. Room' + Deferred(cRxLock) + Cardinality({t}) <= Room + 0
      <4>1. Room' = Room - 1 /\ Room' \in Int /\ Room \in Int
        BY <1>5, <2>1
      <4>2. Cardinality({t}) = 1
        BY NobodyLeaves
      <4> QED
        BY <1>2, <4>1, <4>2
    <3> QED
      BY <1>1, <1>2, <1>3, <1>6, <2>1, <3>1, SendersWoken
  <2>2. CASE GiveUpOrBlock(t)
    <3>1. Room' = 0
      BY <1>5, <1>8, <2>2 DEF GiveUpOrBlock, FullOrEmpty, TrySend
    <3> QED
      BY <3>1, SendersServedAll
  <2>3. (messages' = messages + 1 /\ sendWait' = sendWait) \/ GiveUpOrBlock(t)
    BY <1>8 DEF TrySend, WakeReceiver
  <2>4. messages' = messages + 1 => Room' = Room - 1
    BY <1>5
  <2> QED
    BY <2>1, <2>2, <2>3, <2>4
<1>9. CASE TryPeek(t)
  <2>1. sendWait' = sendWait /\ messages' = messages
    BY <1>9 DEF TryPeek, WakeReceiver, GiveUpOrBlock, WakeNobody
  <2>2. Givers \subseteq Givers'
    <3>1. t \notin Givers
      BY <1>9 DEF TryPeek, Givers, OnTheirWay
    <3> QED
      BY <1>3, <3>1
  <2> QED
    BY <1>1, <1>5, <2>1, <2>2, SendersQuiet
<1> QED
  BY <1>7, <1>8, <1>9

\* prvUnlockQueue replays what the lock has counted.
LEMMA SendersUnlock ==
  ASSUME Base, TypeOK', LockHeld, Sent, [Next]_vars, NEW t \in Tasks, UnlockRx(t)
  PROVE  Sent'
<1> USE DEF Room
<1>1. /\ pc[t] = "unlockRx" /\ sendWait' = sendWait \ First(sendWait, cRxLock)
      /\ cRxLock' = queueUNLOCKED /\ messages' = messages
      /\ current = t /\ TaskStep(t) /\ \A u \in Tasks : ~PlaceOnEventList(u)
  BY DEF UnlockRx, At, TaskStep, PlaceOnEventList
<1>2. cRxLock \in Nat /\ Room \in Int /\ sendWait \in SUBSET Tasks
  <2>1. cRxLock # queueUNLOCKED
    BY <1>1 DEF LockHeld, LockedPcs
  <2> QED
    BY <2>1, Numbers DEF Base, TypeOK, QueueTypeOK
<1>3. Givers \union (sendWait \ sendWait') \subseteq Givers'
  BY <1>1, StayOn, OnlyRunningSteps
<1>4. CASE cRxLock = NumberOfTasks
  <2>1. sendWait' = {}
    BY <1>1, <1>2, <1>4, FirstAll DEF Base
  <2> QED
    BY <2>1 DEF Sent, Balance
<1>5. CASE cRxLock # NumberOfTasks
  <2>1. Room' + Deferred(cRxLock) + Cardinality({}) <= Room + cRxLock
    BY <1>1, <1>2, NobodyLeaves DEF Deferred
  <2>2. (Givers \ {}) \union (sendWait \ sendWait') \subseteq Givers'
    BY <1>3
  <2> QED
    BY <1>1, <1>2, <1>5, <2>1, <2>2, SendersWoken
<1> QED
  BY <1>4, <1>5

\* The interrupt that adds one wakes a task, or leaves it to the lock.
LEMMA SendersInterrupt ==
  ASSUME Base, TypeOK', Sent, [Next]_vars, ReceiveFromISR, \A t \in Tasks : ~TaskStep(t)
  PROVE  Sent'
<1> USE DEF Room
<1>1. Room \in Int /\ Room' \in Int /\ cRxLock \in Int /\ cRxLock' \in Int
  BY Numbers DEF Base, TypeOK, QueueTypeOK
<1>2. Room' = Room + 1
  BY Numbers DEF ReceiveFromISR, Base, TypeOK, QueueTypeOK
<1>3. Givers \union (sendWait \ sendWait') \subseteq Givers'
  BY StayOn DEF TaskStep
<1>4. CASE cRxLock = queueUNLOCKED /\ WakeSender /\ cRxLock' = cRxLock
  <2>1. sendWait' = sendWait \ First(sendWait, 1)
    BY <1>4 DEF WakeSender
  <2>2. (Givers \ {}) \union (sendWait \ sendWait') \subseteq Givers'
    BY <1>3
  <2>3. /\ cRxLock # NumberOfTasks
        /\ Room' + Deferred(cRxLock) + Cardinality({}) <= Room + 1
    BY <1>1, <1>2, <1>4, NobodyLeaves, Numbers DEF Deferred
  <2> QED
    BY <1>4, <2>1, <2>2, <2>3, SendersWoken
<1>5. CASE /\ cRxLock # queueUNLOCKED /\ sendWait' = sendWait
           /\ cRxLock' = IF cRxLock < NumberOfTasks THEN cRxLock + 1 ELSE cRxLock
  <2>1. cRxLock \in 0..NumberOfTasks
    BY <1>5, Numbers DEF Base, TypeOK, QueueTypeOK
  <2>2. Givers \in SUBSET Tasks /\ Givers' \in SUBSET Tasks /\ Givers \subseteq Givers'
    BY <1>3 DEF Givers, OnTheirWay
  <2>3. /\ Cardinality(Givers) \in Int /\ Cardinality(Givers') \in Int
        /\ Cardinality(Givers) <= Cardinality(Givers')
    BY <2>2, SetsLemma, FS_Subset
  <2>4. \/ cRxLock' = NumberOfTasks
        \/ /\ cRxLock # NumberOfTasks
           /\ Room' + Cardinality(Givers) + Deferred(cRxLock) <=
                Room + Cardinality(Givers') + Deferred(cRxLock')
    BY <1>1, <1>2, <1>5, <2>1, <2>3, Numbers DEF Deferred
  <2>5. Balance(Room', sendWait', Givers', cRxLock')
    BY <1>1, <1>5, <2>2, <2>4, BalanceKept DEF Sent
  <2> QED
    BY <2>5 DEF Sent
<1> QED
  BY <1>4, <1>5 DEF ReceiveFromISR, WakeNobody

\* A task takes its place on the list only if nothing is there for it but what the
\* lock has counted.
LEMMA SendersPlace ==
  ASSUME Base, TypeOK', PlaceTakes, Sent, [Next]_vars, NEW t \in Tasks, PlaceOnEventList(t)
  PROVE  Sent'
<1> USE DEF Room
<1>1. pc[t] = "place" /\ messages' = messages /\ cRxLock' = cRxLock /\ TaskStep(t)
  BY DEF PlaceOnEventList, At, TaskStep
<1>2. CASE op[t] = "send"
  <2>1. Enough(Room', cRxLock')
    BY <1>1, <1>2 DEF PlaceTakes
  <2>2. Givers' \in SUBSET Tasks /\ cRxLock' \in Int /\ Room' \in Int
    BY Numbers DEF Givers, OnTheirWay, TypeOK, QueueTypeOK
  <2>3. Cardinality(Givers') \in Nat /\ Deferred(cRxLock') \in Int
    BY <2>2, SetsLemma DEF Deferred
  <2> QED
    BY <2>1, <2>2, <2>3 DEF Enough, Sent, Balance
<1>3. CASE op[t] # "send"
  <2>1. sendWait' = sendWait /\ recvWait' = recvWait \union {t}
    BY <1>3 DEF PlaceOnEventList
  <2>2. \A u \in Givers : u \in Tasks /\ u # t /\ u \notin sendWait' \union recvWait'
    BY <1>3, <2>1, TakersLemma DEF Givers, OnTheirWay
  <2>3. Givers \subseteq Givers'
    BY <1>1, <2>2, StayLemma
  <2>4. Room' \in Int /\ Room' <= Room
    BY <1>1, Numbers DEF Base, TypeOK, QueueTypeOK
  <2> QED
    BY <1>1, <2>1, <2>3, <2>4, SendersQuiet
<1> QED
  BY <1>2, <1>3

\* What is left: steps that give the senders nothing to do.
LEMMA SendersRest ==
  ASSUME Base, TypeOK', Sent, [Next]_vars,
         \A t \in Tasks : /\ ~PlaceOnEventList(t) /\ ~UnlockRx(t) /\ ~ResetQueue(t)
                          /\ ~TrySend(t) /\ ~TryReceive(t) /\ ~TryPeek(t),
         (\E t \in Tasks : TaskStep(t)) \/ ~ReceiveFromISR
  PROVE  Sent'
<1> USE DEF Room
<1>1. \A t \in Tasks : TaskStep(t) => pc[t] # "try"
  BY DEF TaskStep, At, Call, SuspendAll, LockQueue, CheckForTimeOut, CheckQueue, DelayTask,
     UnlockTx, UnlockRx, ResumeAll, YieldWithinApi, DelayReturns, AfterTimeOut
<1>2. Givers \subseteq Givers'
  BY <1>1, StayOn
<1>3. sendWait' \subseteq sendWait
  BY ShrinkLemma DEF Base
<1>4. Room' <= Room /\ Kept(cRxLock, cRxLock')
  <2>1. messages \in Int /\ Length \in Int
    BY Numbers DEF Base, TypeOK, QueueTypeOK
  <2>2. ASSUME NEW t \in Tasks, TaskStep(t)
        PROVE  /\ messages' = messages
               /\ Kept(cRxLock, cRxLock')
    BY <2>2 DEF TaskStep, Call, SuspendAll, LockQueue, CheckForTimeOut, CheckQueue, DelayTask,
       UnlockTx, UnlockRx, ResumeAll, YieldWithinApi, DelayReturns, AfterTimeOut, queueVars, Kept
  <2>3. CASE SendFromISR
    BY <2>1, <2>3 DEF SendFromISR, Kept
  <2>4. CASE SwitchContext \/ UNCHANGED vars
    BY <2>1, <2>4 DEF SwitchContext, vars, queueVars, Kept
  <2>5. CASE \E E \in SUBSET MayExpire : Tick(E)
    <3>1. messages' = messages /\ cRxLock' = cRxLock
      BY <2>5 DEF Tick, queueVars
    <3> QED
      BY <2>1, <3>1 DEF Kept
  <2> QED
    BY <2>1, <2>2, <2>3, <2>4, <2>5 DEF Next
<1>5. /\ cRxLock = NumberOfTasks => cRxLock' = NumberOfTasks
      /\ Deferred(cRxLock') = Deferred(cRxLock)
  BY <1>4, Numbers DEF Deferred, Kept
<1> QED
  BY <1>2, <1>3, <1>4, <1>5, SendersQuiet

LEMMA ReceivedNext ==
  ASSUME Base, TypeOK', LockHeld, PlaceTakes, Received, [Next]_vars
  PROVE  Received'
<1>1. ASSUME NEW t \in Tasks, TrySend(t) \/ TryReceive(t) \/ TryPeek(t) PROVE Received'
  BY <1>1, ReceiversTry
<1>2. ASSUME NEW t \in Tasks, PlaceOnEventList(t) PROVE Received'
  BY <1>2, ReceiversPlace
<1>3. ASSUME NEW t \in Tasks, UnlockTx(t) PROVE Received'
  BY <1>3, ReceiversUnlock
<1>4. ASSUME NEW t \in Tasks, ResetQueue(t) PROVE Received'
  <2>1. messages' = 0
    BY <1>4 DEF ResetQueue
  <2> QED
    BY <2>1, ReceiversServedAll
<1>5. CASE SendFromISR /\ \A t \in Tasks : ~TaskStep(t)
  BY <1>5, ReceiversInterrupt
<1> QED
  BY <1>1, <1>2, <1>3, <1>4, <1>5, ReceiversRest

\* A reset frees all the slots and wakes one sender.
OneSlotOrNoReset == Length = 1 \/ \A t \in Tasks : <<"reset", "zero">> \notin Calls[t]

LEMMA SendersReset ==
  ASSUME Base, TypeOK', Sent, [Next]_vars, NEW t \in Tasks, ResetQueue(t), Length = 1
  PROVE  Sent'
<1>1. /\ messages' = 0 /\ cRxLock' = queueUNLOCKED /\ sendWait' = sendWait \ First(sendWait, 1)
      /\ pc[t] = "out" /\ current = t /\ TaskStep(t) /\ \A u \in Tasks : ~PlaceOnEventList(u)
  BY DEF ResetQueue, WakeSender, At, TaskStep, PlaceOnEventList
<1>2. Givers \union (sendWait \ sendWait') \subseteq Givers'
  BY <1>1, StayOn, OnlyRunningSteps
<1>3. sendWait \in SUBSET Tasks /\ InPriorityOrder(sendWait)
  BY DEF Base, TypeOK, QueueTypeOK, ListsByPriority
<1>4. sendWait' # {} => Cardinality(sendWait \ sendWait') >= 1
  BY <1>1, <1>3, FirstWoken DEF Base
<1>5. /\ Cardinality(sendWait \ sendWait') \in Int /\ Cardinality(Givers') \in Int
      /\ Cardinality(sendWait \ sendWait') <= Cardinality(Givers')
  <2>1. Givers' \in SUBSET Tasks /\ (sendWait \ sendWait') \in SUBSET Givers'
    BY <1>2 DEF Givers, OnTheirWay
  <2> QED
    BY <1>3, <2>1, SetsLemma, FS_Subset
<1>6. Deferred(cRxLock') = 0
  BY <1>1, Numbers DEF Deferred
<1>7. sendWait' # {} => Length - messages' <= Cardinality(Givers') + Deferred(cRxLock')
  BY <1>1, <1>4, <1>5, <1>6
<1> QED
  BY <1>7 DEF Sent, Balance, Room

LEMMA SentNext ==
  ASSUME OneSlotOrNoReset, Base, TypeOK', LockHeld, PlaceTakes, Sent, [Next]_vars
  PROVE  Sent'
<1>1. ASSUME NEW t \in Tasks, TrySend(t) \/ TryReceive(t) \/ TryPeek(t) PROVE Sent'
  BY <1>1, SendersTry
<1>2. ASSUME NEW t \in Tasks, PlaceOnEventList(t) PROVE Sent'
  BY <1>2, SendersPlace
<1>3. ASSUME NEW t \in Tasks, UnlockRx(t) PROVE Sent'
  BY <1>3, SendersUnlock
<1>4. ASSUME NEW t \in Tasks, ResetQueue(t) PROVE Sent'
  BY <1>4, SendersReset DEF OneSlotOrNoReset, ResetQueue
<1>5. CASE ReceiveFromISR /\ \A t \in Tasks : ~TaskStep(t)
  BY <1>5, SendersInterrupt
<1> QED
  BY <1>1, <1>2, <1>3, <1>4, <1>5, SendersRest

\* What holds of a call from its first look at the queue to its place on a list.
Calling == OpsFit /\ LockHeld /\ PlaceTakes

LEMMA CallingInvariant == Spec => []Calling
<1>1. Init => Calling
  BY DEF Init, Calling, OpsFit, QueuePcs, LockHeld, PlaceTakes, LockedPcs
<1>2. TypeOK /\ SuspendedSectionExclusive /\ Places /\ ListsByPriority /\ Calling /\ [Next]_vars
        => Calling'
  BY OpsFitNext, LockHeldNext, PlaceTakesNext DEF Base, Calling
<1> QED
  BY <1>1, <1>2, SectionCorrect, PlacesInvariant, ListsCorrect, PTL DEF Spec

\* No message is left beside a waiting receiver: for as many messages as the queue
\* holds there are receivers on their way to it, or wakeups that the queue lock has
\* counted.  (xQueueReceive, xQueuePeek, xQueueGenericSend, xQueueGenericSendFromISR,
\* prvUnlockQueue)
THEOREM MessagesTaken == Spec => []EveryMessageHasATaker
<1>1. Init => Received
  BY DEF Init, Received, Balance
<1>2. TypeOK /\ SuspendedSectionExclusive /\ Places /\ ListsByPriority /\ Calling
      /\ Received /\ [Next]_vars => Received'
  BY ReceivedNext, TypeNext DEF Base, Calling
<1>3. Received => EveryMessageHasATaker
  BY DEF Received, Balance, Takers, EveryMessageHasATaker
<1> QED
  BY <1>1, <1>2, <1>3, SectionCorrect, PlacesInvariant, ListsCorrect, CallingInvariant, PTL
     DEF Spec

\* No slot is left free beside a waiting sender.  xQueueReset breaks this when it frees
\* more than one, so the queue has one slot or is not reset.  (xQueueGenericSend,
\* xQueueReceive, xQueueReceiveFromISR, prvUnlockQueue)
THEOREM SlotsTaken ==
  ASSUME OneSlotOrNoReset
  PROVE  Spec => []EverySlotHasATaker
<1>1. Init => Sent
  BY DEF Init, Sent, Balance, Room
<1>2. TypeOK /\ SuspendedSectionExclusive /\ Places /\ ListsByPriority /\ Calling
      /\ Sent /\ [Next]_vars => Sent'
  BY SentNext, TypeNext DEF Base, Calling
<1>3. Sent => EverySlotHasATaker
  BY DEF Sent, Balance, Room, Givers, EverySlotHasATaker
<1> QED
  BY <1>1, <1>2, <1>3, SectionCorrect, PlacesInvariant, ListsCorrect, CallingInvariant, PTL
     DEF Spec

=============================================================================
