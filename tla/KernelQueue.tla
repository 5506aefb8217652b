---------------------------- MODULE KernelQueue ----------------------------
(***************************************************************************)
(* The blocking protocol of a kernel queue (src/kernel/queue.c) on the     *)
(* part of the scheduler it stands on (src/kernel/tasks.c): the retry      *)
(* loops of xQueueGenericSend, xQueueReceive and xQueuePeek, the ISR       *)
(* versions of send and receive, the queue lock that keeps interrupts off  *)
(* the event lists, vTaskSuspendAll/xTaskResumeAll, the tick interrupt,    *)
(* PendSV, and vTaskDelay.                                                 *)
(*                                                                         *)
(* Granularity: a critical section (taskENTER_CRITICAL or an ISR mask) is  *)
(* one step; between two of them an interrupt may arrive and, unless the   *)
(* scheduler is suspended, another task may be switched in.                *)
(*                                                                         *)
(* Data: the queue is only a message count here (QueueRing models what the *)
(* slots hold); a ready list is a set, so the choice among ready tasks of  *)
(* one priority is free; an event list is the set of its tasks and, for    *)
(* each of them, the tasks ahead of it; a finite wait may expire at any    *)
(* tick.                                                                   *)
(***************************************************************************)
EXTENDS Integers, FiniteSets

CONSTANTS
  Tasks,          \* the application tasks that use the queue
  Idle,           \* the idle task, always ready, priority 0
  Prio,           \* [Tasks -> priority]
  Length,         \* uxLength, the number of slots
  NumberOfTasks,  \* what uxTaskGetNumberOfTasks() returns
  Calls,          \* [Tasks -> the <<operation, xTicksToWait>> each may call]
  IsrSends,       \* whether an interrupt handler sends to the queue
  IsrReceives     \* whether an interrupt handler receives from it

TaskOps == {"send", "recv", "peek", "delay", "reset"}
OpSet == TaskOps \union {"none"}
WaitSet == {"zero", "finite", "max"}      \* 0, 1 .. portMAX_DELAY-1, portMAX_DELAY

ASSUME TasksAssumption == IsFiniteSet(Tasks) /\ Idle \notin Tasks
ASSUME PrioAssumption == Prio \in [Tasks -> Nat \ {0}]
ASSUME LengthAssumption == Length \in Nat \ {0}
ASSUME NumberAssumption == NumberOfTasks \in Nat /\ NumberOfTasks > Cardinality(Tasks)
ASSUME CallsAssumption ==
  /\ Calls \in [Tasks -> SUBSET (TaskOps \X WaitSet)]
  /\ \A t \in Tasks, c \in TaskOps \X WaitSet :
       c \in Calls[t] /\ c[1] = "delay" => c[2] = "finite"
ASSUME IsrAssumption == IsrSends \in BOOLEAN /\ IsrReceives \in BOOLEAN

VARIABLES
  messages,       \* uxMessagesWaiting
  cTxLock,        \* queueUNLOCKED, or the posts made while locked
  cRxLock,        \* queueUNLOCKED, or the takes made while locked
  recvWait,       \* the tasks on xTasksWaitingToReceive
  sendWait,       \* the tasks on xTasksWaitingToSend
  ahead,          \* of each task, the tasks ahead of it on its event list
  current,        \* pxCurrentTCB
  ready,          \* the tasks in pxReadyTasksLists
  timed,          \* the tasks in the delayed lists
  pendingReady,   \* xPendingReadyList
  suspended,      \* uxSchedulerSuspended
  yieldPending,   \* xYieldPending
  pendsv,         \* a PendSV exception is pending
  pendedTicks,    \* xPendedTicks > 0
  pc,             \* where each task is in its call
  op,             \* the call it makes
  wait,           \* its xTicksToWait
  expired,        \* the tasks whose finite wait has run out
  outcome         \* which branch of the suspended section was taken

queueVars == <<messages, cTxLock, cRxLock, recvWait, sendWait, ahead>>
schedVars == <<current, ready, timed, pendingReady, suspended, yieldPending,
               pendsv, pendedTicks>>
taskVars == <<pc, op, wait, expired, outcome>>
vars == <<queueVars, schedVars, taskVars>>

queueUNLOCKED == -1
queueLOCKED_UNMODIFIED == 0

AllTasks == Tasks \union {Idle}
PrioOf(t) == IF t = Idle THEN 0 ELSE Prio[t]

LockedPcs == {"timeout", "check", "place", "unlockTx", "unlockRx"}
SuspendedPcs == LockedPcs \union {"lock", "delay", "resume"}
PcSet == SuspendedPcs \union {"out", "try", "suspend", "yield", "delayed", "recheck"}

QueueTypeOK ==
  /\ messages \in 0..Length
  /\ cTxLock \in queueUNLOCKED..NumberOfTasks
  /\ cRxLock \in queueUNLOCKED..NumberOfTasks
  /\ recvWait \in SUBSET Tasks
  /\ sendWait \in SUBSET Tasks
  /\ ahead \in [Tasks -> SUBSET Tasks]

SchedTypeOK ==
  /\ current \in AllTasks
  /\ ready \in SUBSET AllTasks
  /\ timed \in SUBSET Tasks
  /\ pendingReady \in SUBSET Tasks
  /\ suspended \in {0, 1}
  /\ yieldPending \in BOOLEAN
  /\ pendsv \in BOOLEAN
  /\ pendedTicks \in BOOLEAN

TaskTypeOK ==
  /\ pc \in [Tasks -> PcSet]
  /\ op \in [Tasks -> OpSet]
  /\ wait \in [Tasks -> WaitSet]
  /\ expired \in SUBSET Tasks
  /\ outcome \in [Tasks -> {"block", "retry", "fail"}]

TypeOK == QueueTypeOK /\ SchedTypeOK /\ TaskTypeOK

Highest(S) == {t \in S : \A u \in S : PrioOf(u) <= PrioOf(t)}

Init ==
  /\ messages = 0
  /\ cTxLock = queueUNLOCKED
  /\ cRxLock = queueUNLOCKED
  /\ recvWait = {}
  /\ sendWait = {}
  /\ ahead = [t \in Tasks |-> {}]
  /\ current \in Highest(AllTasks)
  /\ ready = AllTasks
  /\ timed = {}
  /\ pendingReady = {}
  /\ suspended = 0
  /\ yieldPending = FALSE
  /\ pendsv = FALSE
  /\ pendedTicks = FALSE
  /\ pc = [t \in Tasks |-> "out"]
  /\ op = [t \in Tasks |-> "none"]
  /\ wait = [t \in Tasks |-> "zero"]
  /\ expired = {}
  /\ outcome = [t \in Tasks |-> "block"]

-----------------------------------------------------------------------------
(* List and scheduler helpers *)

\* Mutant: listINSERT_END where vListInsert is called.
InsertAtEnd(list, t) ==
  ahead' = [ahead EXCEPT ![t] = list]

\* vListInsert: by priority, behind the tasks of the same priority.
InsertByPriority(list, t) ==
  ahead' = [u \in Tasks |->
              CASE u = t                              -> {v \in list : Prio[v] >= Prio[t]}
                [] u \in list /\ Prio[u] < Prio[t]    -> ahead[u] \union {t}
                [] OTHER                              -> ahead[u]]

\* uxListRemove, for the event items of the tasks of S.
RemoveItems(S) ==
  ahead' = [u \in Tasks |-> IF u \in S THEN {} ELSE ahead[u] \ S]

\* The first k tasks of an event list.
First(list, k) == {t \in list : Cardinality(ahead[t]) < k}

Outranks(S) == \E u \in S : PrioOf(u) > PrioOf(current)

\* Mutant: a task woken while the scheduler is suspended is not kept on
\* xPendingReadyList.
UnblockForgetsPending(S) ==
  /\ IF suspended = 0
       THEN ready' = ready \union S /\ timed' = timed \ S
       ELSE UNCHANGED <<ready, timed>>
  /\ yieldPending' = (yieldPending \/ Outranks(S))
  /\ UNCHANGED pendingReady

\* xTaskRemoveFromEventList, for each task of S.
Unblock(S) ==
  /\ IF suspended = 0
       THEN /\ ready' = ready \union S
            /\ timed' = timed \ S
            /\ UNCHANGED pendingReady
       ELSE /\ pendingReady' = pendingReady \union S
            /\ UNCHANGED <<ready, timed>>
  /\ yieldPending' = (yieldPending \/ Outranks(S))

\* Mutant: the wakeup of a receiver without queueYIELD_IF_USING_PREEMPTION.
WakeReceiverNoYield ==
  LET S == First(recvWait, 1)
  IN  /\ recvWait' = recvWait \ S /\ RemoveItems(S)
      /\ Unblock(S)
      /\ UNCHANGED <<sendWait, pendsv>>

\* The wakeup of a critical section: the head of the list, if there is one,
\* and a yield if it outranks the caller.
WakeReceiver ==
  LET S == First(recvWait, 1)
  IN  /\ recvWait' = recvWait \ S /\ RemoveItems(S)
      /\ Unblock(S)
      /\ pendsv' = (pendsv \/ Outranks(S))
      /\ UNCHANGED sendWait

WakeSender ==
  LET S == First(sendWait, 1)
  IN  /\ sendWait' = sendWait \ S /\ RemoveItems(S)
      /\ Unblock(S)
      /\ pendsv' = (pendsv \/ Outranks(S))
      /\ UNCHANGED recvWait

WakeNobody ==
  UNCHANGED <<recvWait, sendWait, ahead, ready, timed, pendingReady, yieldPending, pendsv>>

\* A task executes an instruction only when it is switched in and no
\* exception is waiting to be taken.
At(t, label) == current = t /\ ~pendsv /\ pc[t] = label
Goto(t, label) ==
  /\ pc' = [pc EXCEPT ![t] = label]
  /\ UNCHANGED <<op, wait, expired, outcome>>

\* The call returns, and its local variables are gone.
Return(t) ==
  /\ pc' = [pc EXCEPT ![t] = "out"]
  /\ op' = [op EXCEPT ![t] = "none"]
  /\ wait' = [wait EXCEPT ![t] = "zero"]
  /\ expired' = expired \ {t}
  /\ outcome' = [outcome EXCEPT ![t] = "block"]

Branch(t, label, o) ==
  /\ pc' = [pc EXCEPT ![t] = label]
  /\ outcome' = [outcome EXCEPT ![t] = o]

FullOrEmpty(t) == messages = (IF op[t] = "send" THEN Length ELSE 0)

\* The queue can do nothing for this call: it returns at once if it has no
\* ticks to wait, and goes on to block if it has.
GiveUpOrBlock(t) ==
  /\ FullOrEmpty(t)
  /\ IF wait[t] = "zero" THEN Return(t) ELSE Goto(t, "suspend")
  /\ WakeNobody
  /\ UNCHANGED messages

-----------------------------------------------------------------------------
(* The calls *)

\* Entering xQueueGenericSend, xQueueReceive, xQueuePeek or vTaskDelay.
Call(t, o, w) ==
  /\ At(t, "out")
  /\ <<o, w>> \in Calls[t] /\ o # "reset"
  /\ pc' = [pc EXCEPT ![t] = IF o = "delay" THEN "suspend" ELSE "try"]
  /\ op' = [op EXCEPT ![t] = o]
  /\ wait' = [wait EXCEPT ![t] = w]
  /\ UNCHANGED <<queueVars, schedVars, expired, outcome>>

\* First critical section of the loop of xQueueGenericSend.
TrySend(t) ==
  /\ At(t, "try") /\ op[t] = "send"
  /\ \/ /\ messages < Length
        /\ messages' = messages + 1
        /\ WakeReceiver
        /\ Return(t)
     \/ GiveUpOrBlock(t)
  /\ UNCHANGED <<cTxLock, cRxLock, current, suspended, pendedTicks>>

\* First critical section of the loop of xQueueReceive: the message leaves
\* the queue and a sender is woken.
TryReceive(t) ==
  /\ At(t, "try") /\ op[t] = "recv"
  /\ \/ /\ messages > 0
        /\ messages' = messages - 1
        /\ WakeSender
        /\ Return(t)
     \/ GiveUpOrBlock(t)
  /\ UNCHANGED <<cTxLock, cRxLock, current, suspended, pendedTicks>>

\* Mutant: a peek wakes no other receiver.
TryPeekKeepsWakeup(t) ==
  /\ At(t, "try") /\ op[t] = "peek"
  /\ \/ /\ messages > 0
        /\ WakeNobody
        /\ Return(t)
        /\ UNCHANGED messages
     \/ GiveUpOrBlock(t)
  /\ UNCHANGED <<cTxLock, cRxLock, current, suspended, pendedTicks>>

\* First critical section of the loop of xQueuePeek: the message stays, and
\* another receiver may have it.
TryPeek(t) ==
  /\ At(t, "try") /\ op[t] = "peek"
  /\ \/ /\ messages > 0
        /\ WakeReceiver
        /\ Return(t)
        /\ UNCHANGED messages
     \/ GiveUpOrBlock(t)
  /\ UNCHANGED <<cTxLock, cRxLock, current, suspended, pendedTicks>>

\* xQueueReset, which is one critical section: it wakes one sender, however
\* many slots it frees.
ResetQueue(t) ==
  /\ At(t, "out")
  /\ <<"reset", "zero">> \in Calls[t]
  /\ messages' = 0
  /\ cRxLock' = queueUNLOCKED
  /\ cTxLock' = queueUNLOCKED
  /\ WakeSender
  /\ UNCHANGED <<current, suspended, pendedTicks, taskVars>>

\* vTaskSuspendAll, from the queue calls and from vTaskDelay.
SuspendAll(t) ==
  /\ At(t, "suspend")
  /\ suspended' = suspended + 1
  /\ Goto(t, IF op[t] = "delay" THEN "delay" ELSE "lock")
  /\ UNCHANGED <<queueVars, current, ready, timed, pendingReady, yieldPending,
                 pendsv, pendedTicks>>

\* prvLockQueue.
LockQueue(t) ==
  /\ At(t, "lock")
  /\ cRxLock' = IF cRxLock = queueUNLOCKED THEN queueLOCKED_UNMODIFIED ELSE cRxLock
  /\ cTxLock' = IF cTxLock = queueUNLOCKED THEN queueLOCKED_UNMODIFIED ELSE cTxLock
  /\ Goto(t, "timeout")
  /\ UNCHANGED <<messages, recvWait, sendWait, ahead, schedVars>>

\* xTaskCheckForTimeOut: an expired wait leaves no ticks to wait.
CheckForTimeOut(t) ==
  /\ At(t, "timeout")
  /\ IF wait[t] # "max" /\ t \in expired
       THEN /\ wait' = [wait EXCEPT ![t] = "zero"]
            /\ expired' = expired \ {t}
            /\ Branch(t, "unlockTx", "fail")
            /\ UNCHANGED op
       ELSE Goto(t, "check")
  /\ UNCHANGED <<queueVars, schedVars>>

\* Mutant: blocks on what the critical section saw before the queue was locked.
CheckQueueSkipped(t) ==
  /\ At(t, "check")
  /\ Branch(t, "place", "block")
  /\ UNCHANGED <<queueVars, schedVars, op, wait, expired>>

\* prvIsQueueFull / prvIsQueueEmpty, before blocking.
CheckQueue(t) ==
  /\ At(t, "check")
  /\ IF FullOrEmpty(t)
       THEN Branch(t, "place", "block")
       ELSE Branch(t, "unlockTx", "retry")
  /\ UNCHANGED <<queueVars, schedVars, op, wait, expired>>

\* prvAddCurrentTaskToDelayedList: off its ready list, and onto a delayed list
\* unless it waits for ever.
LeaveReady(t) ==
  /\ ready' = ready \ {t}
  /\ timed' = IF wait[t] = "max" THEN timed ELSE timed \union {t}

\* vTaskPlaceOnEventList.
PlaceOnEventList(t) ==
  /\ At(t, "place")
  /\ IF op[t] = "send"
       THEN /\ InsertByPriority(sendWait, t)
            /\ sendWait' = sendWait \union {t}
            /\ UNCHANGED recvWait
       ELSE /\ InsertByPriority(recvWait, t)
            /\ recvWait' = recvWait \union {t}
            /\ UNCHANGED sendWait
  /\ LeaveReady(t)
  /\ Goto(t, "unlockTx")
  /\ UNCHANGED <<messages, cTxLock, cRxLock, current, pendingReady, suspended,
                 yieldPending, pendsv, pendedTicks>>

\* The body of vTaskDelay, between vTaskSuspendAll and xTaskResumeAll.
DelayTask(t) ==
  /\ At(t, "delay")
  /\ LeaveReady(t)
  /\ Goto(t, "resume")
  /\ UNCHANGED <<queueVars, current, pendingReady, suspended, yieldPending,
                 pendsv, pendedTicks>>

\* prvUnlockQueue, first critical section: one receiver for each post an ISR
\* made while the queue was locked.
UnlockTx(t) ==
  /\ At(t, "unlockTx")
  /\ LET S == First(recvWait, cTxLock)
     IN  recvWait' = recvWait \ S /\ RemoveItems(S) /\ Unblock(S)
  /\ cTxLock' = queueUNLOCKED
  /\ Goto(t, "unlockRx")
  /\ UNCHANGED <<messages, cRxLock, sendWait, current, suspended, pendsv,
                 pendedTicks>>

\* Mutant: prvUnlockQueue drops the lock without replaying the counted takes.
UnlockRxNoReplay(t) ==
  /\ At(t, "unlockRx")
  /\ cRxLock' = queueUNLOCKED
  /\ Goto(t, "resume")
  /\ UNCHANGED <<messages, cTxLock, recvWait, sendWait, ahead, schedVars>>

\* prvUnlockQueue, second critical section.
UnlockRx(t) ==
  /\ At(t, "unlockRx")
  /\ LET S == First(sendWait, cRxLock)
     IN  sendWait' = sendWait \ S /\ RemoveItems(S) /\ Unblock(S)
  /\ cRxLock' = queueUNLOCKED
  /\ Goto(t, "resume")
  /\ UNCHANGED <<messages, cTxLock, recvWait, current, suspended, pendsv,
                 pendedTicks>>

\* The waits that may run out at a tick: those with a finite tick count.
MayExpire == {t \in Tasks : wait[t] = "finite"}

\* Mutant: a task whose wait runs out stays on its event list.
IncrementTickKeepsEventItem(r, d, E) ==
  LET woken == d \intersect (expired \union E)
  IN  /\ expired' = expired \union E
      /\ ready' = r \union woken
      /\ timed' = d \ woken
      /\ UNCHANGED <<recvWait, sendWait, ahead>>

\* xTaskIncrementTick with the scheduler running, from a state in which the
\* ready and delayed tasks are r and d: the waits of E run out, and every
\* delayed task whose wait has run out leaves its event list and is ready.
IncrementTick(r, d, E) ==
  LET woken == d \intersect (expired \union E)
  IN  /\ expired' = expired \union E
      /\ ready' = r \union woken
      /\ timed' = d \ woken
      /\ recvWait' = recvWait \ woken
      /\ sendWait' = sendWait \ woken
      /\ RemoveItems(woken)

AfterYield(t) == IF op[t] = "delay" THEN "delayed" ELSE "try"

\* xTaskResumeAll, and what each caller does with its result.  E is what the
\* ticks held back while the scheduler was suspended let expire.
ResumeAll(t, E) ==
  LET r == ready \union pendingReady
      d == timed \ pendingReady
      ticked == IF pendedTicks THEN d \intersect (expired \union E) ELSE {}
      yields == \/ yieldPending
                \/ \E u \in pendingReady : PrioOf(u) >= PrioOf(current)
                \/ Outranks(ticked)
  IN  /\ At(t, "resume")
      /\ suspended' = suspended - 1
      /\ pendingReady' = {}
      /\ IF pendedTicks
           THEN IncrementTick(r, d, E)
           ELSE /\ E = {}
                /\ ready' = r /\ timed' = d
                /\ UNCHANGED <<expired, recvWait, sendWait, ahead>>
      /\ pendedTicks' = FALSE
      /\ yieldPending' = yields
      /\ pendsv' = (pendsv \/ yields)
      /\ pc' = [pc EXCEPT ![t] =
           CASE outcome[t] = "block" /\ ~yields -> "yield"
             [] outcome[t] = "block" /\ yields  -> AfterYield(t)
             [] outcome[t] = "retry"            -> "try"
             [] outcome[t] = "fail"             -> "recheck"]
      /\ UNCHANGED <<messages, cTxLock, cRxLock, current, op, wait, outcome>>

\* portYIELD_WITHIN_API after an xTaskResumeAll that did not yield.
YieldWithinApi(t) ==
  /\ At(t, "yield")
  /\ pendsv' = TRUE
  /\ Goto(t, AfterYield(t))
  /\ UNCHANGED <<queueVars, current, ready, timed, pendingReady, suspended,
                 yieldPending, pendedTicks>>

\* vTaskDelay returns when the task has been switched in again.
DelayReturns(t) ==
  /\ At(t, "delayed")
  /\ Return(t)
  /\ UNCHANGED <<queueVars, schedVars>>

\* After a timeout xQueueGenericSend returns errQUEUE_FULL; the receivers look
\* once more before they return errQUEUE_EMPTY.
AfterTimeOut(t) ==
  /\ At(t, "recheck")
  /\ IF op[t] = "send" \/ FullOrEmpty(t) THEN Return(t) ELSE Goto(t, "try")
  /\ UNCHANGED <<queueVars, schedVars>>

-----------------------------------------------------------------------------
(* Interrupts *)

\* Mutants: the interrupt ignores the queue lock; it does not test for room.
SendFromISRIgnoresLock ==
  /\ IsrSends
  /\ messages < Length
  /\ messages' = messages + 1
  /\ WakeReceiver
  /\ UNCHANGED <<cTxLock, cRxLock, current, suspended, pendedTicks, taskVars>>

SendFromISRNoRoomTest ==
  /\ IsrSends
  /\ messages' = messages + 1
  /\ cTxLock = queueUNLOCKED
  /\ WakeReceiver
  /\ UNCHANGED <<cTxLock, cRxLock, current, suspended, pendedTicks, taskVars>>

\* xQueueGenericSendFromISR; the interrupt ends with portYIELD_FROM_ISR.
SendFromISR ==
  /\ IsrSends
  /\ messages < Length
  /\ messages' = messages + 1
  /\ \/ /\ cTxLock = queueUNLOCKED
        /\ WakeReceiver
        /\ UNCHANGED cTxLock
     \/ /\ cTxLock # queueUNLOCKED
        /\ cTxLock' = IF cTxLock < NumberOfTasks THEN cTxLock + 1 ELSE cTxLock
        /\ WakeNobody
  /\ UNCHANGED <<cRxLock, current, suspended, pendedTicks, taskVars>>

\* xQueueReceiveFromISR.
ReceiveFromISR ==
  /\ IsrReceives
  /\ messages > 0
  /\ messages' = messages - 1
  /\ \/ /\ cRxLock = queueUNLOCKED
        /\ WakeSender
        /\ UNCHANGED cRxLock
     \/ /\ cRxLock # queueUNLOCKED
        /\ cRxLock' = IF cRxLock < NumberOfTasks THEN cRxLock + 1 ELSE cRxLock
        /\ WakeNobody
  /\ UNCHANGED <<cTxLock, current, suspended, pendedTicks, taskVars>>

\* The SysTick interrupt: xTaskIncrementTick, and PendSV if it asks for it.
Tick(E) ==
  \/ /\ suspended = 0
     /\ IncrementTick(ready, timed, E)
     /\ pendsv' = (pendsv \/ yieldPending \/ Outranks(timed \intersect (expired \union E)))
     /\ UNCHANGED <<messages, cTxLock, cRxLock, current, pendingReady, suspended,
                    yieldPending, pendedTicks, pc, op, wait, outcome>>
  \/ /\ suspended > 0 /\ E = {}
     /\ pendedTicks' = TRUE
     /\ UNCHANGED <<queueVars, current, ready, timed, pendingReady, suspended,
                    yieldPending, pendsv, taskVars>>

\* Mutant: vTaskSwitchContext does not look at uxSchedulerSuspended.
SwitchContextAlways ==
  /\ pendsv
  /\ pendsv' = FALSE
  /\ yieldPending' = FALSE
  /\ current' \in Highest(ready)
  /\ UNCHANGED <<queueVars, ready, timed, pendingReady, suspended, pendedTicks,
                 taskVars>>

\* The PendSV handler: vTaskSwitchContext.
SwitchContext ==
  /\ pendsv
  /\ pendsv' = FALSE
  /\ IF suspended > 0
       THEN yieldPending' = TRUE /\ UNCHANGED current
       ELSE yieldPending' = FALSE /\ current' \in Highest(ready)
  /\ UNCHANGED <<queueVars, ready, timed, pendingReady, suspended, pendedTicks,
                 taskVars>>

-----------------------------------------------------------------------------

TaskStep(t) ==
  \/ \E o \in TaskOps, w \in WaitSet : Call(t, o, w)
  \/ ResetQueue(t)
  \/ TrySend(t)
  \/ TryReceive(t)
  \/ TryPeek(t)
  \/ SuspendAll(t)
  \/ LockQueue(t)
  \/ CheckForTimeOut(t)
  \/ CheckQueue(t)
  \/ PlaceOnEventList(t)
  \/ DelayTask(t)
  \/ UnlockTx(t)
  \/ UnlockRx(t)
  \/ \E E \in SUBSET MayExpire : ResumeAll(t, E)
  \/ YieldWithinApi(t)
  \/ DelayReturns(t)
  \/ AfterTimeOut(t)

Next ==
  \/ \E t \in Tasks : TaskStep(t)
  \/ SendFromISR
  \/ ReceiveFromISR
  \/ \E E \in SUBSET MayExpire : Tick(E)
  \/ SwitchContext

Spec == Init /\ [][Next]_vars

\* The processor keeps executing: an exception that is pending is taken, and
\* the task that is switched in executes its next instruction; the tasks of
\* this system call the queue in endless loops.  Nothing is assumed of
\* interrupts.
Executes == SwitchContext \/ \E t \in Tasks : TaskStep(t)
FairSpec == Spec /\ WF_vars(Executes)

-----------------------------------------------------------------------------
(* Correctness *)

\* The tasks inside a call of one of the kinds in O that are on no event list
\* and will, unless they find their operation possible, look at the queue
\* again in a critical section before they can block.
OnTheirWay(O) ==
  {t \in Tasks :
     /\ op[t] \in O
     /\ t \notin recvWait \union sendWait
     /\ \/ pc[t] = "try"
        \/ pc[t] \in {"unlockTx", "unlockRx", "resume"} /\ outcome[t] \in {"block", "retry"}
        \/ pc[t] = "yield"}

Deferred(lock) == IF lock > 0 THEN lock ELSE 0

\* No lost wakeup, receivers: while tasks wait to receive, every message in
\* the queue has a taker, a receiver on its way to the queue or a wakeup that
\* the queue lock defers.  (xQueueReceive, xQueuePeek, xQueueGenericSend,
\* xQueueGenericSendFromISR, prvUnlockQueue)
EveryMessageHasATaker ==
  recvWait # {} =>
    \/ messages <= Cardinality(OnTheirWay({"recv", "peek"})) + Deferred(cTxLock)
    \/ cTxLock = NumberOfTasks

\* No lost wakeup, senders: while tasks wait to send, every free slot has a
\* sender on its way or a deferred wakeup.
EverySlotHasATaker ==
  sendWait # {} =>
    \/ Length - messages <= Cardinality(OnTheirWay({"send"})) + Deferred(cRxLock)
    \/ cRxLock = NumberOfTasks

\* The running task is never left in place while a ready task outranks it,
\* nor while it is itself blocked, once the scheduler runs and no switch is
\* pending; the one exception is the instruction before portYIELD_WITHIN_API.
HighestPriorityRuns ==
  suspended = 0 /\ ~pendsv /\ (current = Idle \/ pc[current] # "yield") =>
    current \in Highest(ready)

\* A task is in one place: a ready task is on no event list and on no delayed
\* list, a task on the pending-ready list is on no event list, and a task waits
\* to receive or to send but not both.
OnePlace ==
  /\ ready \intersect (timed \union pendingReady \union recvWait \union sendWait) = {}
  /\ pendingReady \intersect (recvWait \union sendWait) = {}
  /\ recvWait \intersect sendWait = {}

\* A blocked task can be woken: it is on an event list, on a delayed list or
\* pending ready; none is left in the suspended list with nothing to wake it.
BlockedCanBeWoken ==
  \A t \in Tasks \ ready :
    t \in timed \union pendingReady \union recvWait \union sendWait

\* An event list is a line in priority order, whatever wakeups and timeouts
\* took out of its middle: of two tasks one is ahead of the other, never the
\* one of lower priority, and nothing is ahead of a task that is on no list.
InPriorityOrder(list) ==
  \A t \in list :
    /\ ahead[t] \subseteq list \ {t}
    /\ \A u \in ahead[t] : Prio[u] >= Prio[t] /\ ahead[u] \subseteq ahead[t]
    /\ \A u \in list \ {t} : u \in ahead[t] <=> t \notin ahead[u]
ListsByPriority ==
  /\ InPriorityOrder(recvWait)
  /\ InPriorityOrder(sendWait)
  /\ \A t \in Tasks \ (recvWait \union sendWait) : ahead[t] = {}

\* The suspended section is exclusive: the scheduler is suspended exactly
\* while one task is inside, that task is the running one, and the queue is
\* locked only from its prvLockQueue to its prvUnlockQueue.
SuspendedSectionExclusive ==
  /\ \A t \in Tasks : pc[t] \in SuspendedPcs => current = t
  /\ suspended = 1 <=> \E t \in Tasks : pc[t] \in SuspendedPcs
  /\ cRxLock # queueUNLOCKED => \E t \in Tasks : pc[t] \in LockedPcs
  /\ cTxLock # queueUNLOCKED => \E t \in Tasks : pc[t] \in LockedPcs \ {"unlockRx"}
  /\ suspended = 0 => pendingReady = {}

\* While the queue is locked no interrupt touches its event lists: only the
\* task that holds the lock changes them.
LockedListsLeftAlone ==
  [][ (cTxLock # queueUNLOCKED /\ recvWait' # recvWait) \/
      (cRxLock # queueUNLOCKED /\ sendWait' # sendWait)
      => \E t \in Tasks : pc[t] \in LockedPcs /\ pc'[t] # pc[t] ]_vars

\* A receiver of the highest priority does not stay blocked beside a message:
\* the wakeup through the event list, the queue lock, the pending-ready list
\* and PendSV arrives in the end, unless another takes the message first.
ReceiversServed ==
  \A t \in Tasks :
    t \in Highest(Tasks) /\ op[t] = "recv" /\ messages > 0 ~> pc[t] = "out" \/ messages = 0
=============================================================================
