---------------------------- MODULE KernelTick ----------------------------
(***************************************************************************)
(* Time in the kernel (src/kernel/tasks.c): the tick count that wraps, the *)
(* two delayed lists that change places when it does, the time of the next *)
(* wakeup, ticks held back while the scheduler is suspended, vTaskDelay,   *)
(* and the timeout of a call that blocks again and again until its time is *)
(* up (vTaskInternalSetTimeOutState, xTaskCheckForTimeOut).                *)
(*                                                                         *)
(* Granularity: a critical section is one step; the ticks that             *)
(* xTaskResumeAll makes up for are steps of their own between which        *)
(* nothing else can happen.  Which of the tasks that are awake runs is     *)
(* left open: KernelQueue is about that.                                   *)
(*                                                                         *)
(* Data: a delayed list, which vListInsert keeps sorted, is the set of its *)
(* tasks with their wake times.                                            *)
(***************************************************************************)
EXTENDS Integers, FiniteSets

CONSTANTS
  Tasks,            \* the tasks
  NoTask,           \* none of them
  Wrap,             \* the values of TickType_t, 2^32 in the code
  WrapOverflows,    \* the values of xNumOfOverflows, 2^32 in the code
  MaxPended         \* bound: ticks held back while the scheduler is suspended

ASSUME TasksAssumption == IsFiniteSet(Tasks) /\ NoTask \notin Tasks
ASSUME WrapAssumption == Wrap \in Nat /\ Wrap > 1
ASSUME OverflowAssumption == WrapOverflows \in Nat /\ WrapOverflows > 1
ASSUME MaxPendedAssumption == MaxPended \in Nat

portMAX_DELAY == Wrap - 1
Time == 0..portMAX_DELAY

\* Sums and differences of TickType_t.
Plus(a, b) == IF a + b < Wrap THEN a + b ELSE a + b - Wrap
OneMore(n) == IF n + 1 < WrapOverflows THEN n + 1 ELSE 0
Minus(a, b) == IF a < b THEN a + Wrap - b ELSE a - b

VARIABLES
  xTickCount,
  xNumOfOverflows,
  xNextTaskUnblockTime,
  delayed,          \* the tasks in pxDelayedTaskList
  overflow,         \* the tasks in pxOverflowDelayedTaskList
  wake,             \* the wake time of each task in a delayed list, else 0
  waiting,          \* the tasks on an event list
  pendingReady,     \* xPendingReadyList
  section,          \* the task that has suspended the scheduler
  resuming,         \* it is in the critical section of xTaskResumeAll
  xPendedTicks,
  pc,               \* where each task is in its call
  ticks,            \* its xTicksToWait
  entered,          \* xTimeOnEntering of its TimeOut_t
  overflowed,       \* xOverflowCount of its TimeOut_t
  due               \* ticks until its call is due; not in the code

clockVars == <<xTickCount, xNumOfOverflows, xNextTaskUnblockTime>>
listVars == <<delayed, overflow, wake, waiting, pendingReady>>
schedVars == <<section, resuming, xPendedTicks>>
callVars == <<pc, ticks, entered, overflowed, due>>
vars == <<clockVars, listVars, schedVars, callVars>>

\* A task in a blocking call, and one in vTaskDelay.
WaitPcs == {"try", "suspend", "check", "place", "failed"}
PcSet == WaitPcs \union {"out", "delay"}

TypeOK ==
  /\ xTickCount \in Time
  /\ xNumOfOverflows \in 0..WrapOverflows - 1
  /\ xNextTaskUnblockTime \in Time
  /\ delayed \in SUBSET Tasks /\ overflow \in SUBSET Tasks
  /\ wake \in [Tasks -> Time]
  /\ waiting \in SUBSET Tasks /\ pendingReady \in SUBSET Tasks
  /\ section \in Tasks \union {NoTask}
  /\ resuming \in BOOLEAN
  /\ xPendedTicks \in 0..MaxPended
  /\ pc \in [Tasks -> PcSet]
  /\ ticks \in [Tasks -> Time]
  /\ entered \in [Tasks -> Time]
  /\ overflowed \in [Tasks -> 0..WrapOverflows - 1]
  /\ due \in [Tasks -> Int]

Init ==
  /\ xTickCount = 0
  /\ xNumOfOverflows = 0
  /\ xNextTaskUnblockTime = portMAX_DELAY
  /\ delayed = {} /\ overflow = {}
  /\ wake = [t \in Tasks |-> 0]
  /\ waiting = {} /\ pendingReady = {}
  /\ section = NoTask
  /\ resuming = FALSE
  /\ xPendedTicks = 0
  /\ pc = [t \in Tasks |-> "out"]
  /\ ticks = [t \in Tasks |-> 0]
  /\ entered = [t \in Tasks |-> 0]
  /\ overflowed = [t \in Tasks |-> 0]
  /\ due = [t \in Tasks |-> 0]

-----------------------------------------------------------------------------
(* Helpers *)

\* A task that is on no delayed list and on no event list, and may run.
Awake(t) ==
  /\ t \notin delayed \union overflow \union waiting \union pendingReady
  /\ section \in {t, NoTask} /\ ~resuming

\* A task in a call whose time is running.
Timed(t) == pc[t] \in WaitPcs /\ ticks[t] \notin {0, portMAX_DELAY}

At(t, label) == Awake(t) /\ pc[t] = label

Goto(t, label) ==
  /\ pc' = [pc EXCEPT ![t] = label]
  /\ UNCHANGED <<ticks, entered, overflowed, due>>

\* The call returns, and its local variables are gone.
Return(t) ==
  /\ pc' = [pc EXCEPT ![t] = "out"]
  /\ ticks' = [ticks EXCEPT ![t] = 0]
  /\ entered' = [entered EXCEPT ![t] = 0]
  /\ overflowed' = [overflowed EXCEPT ![t] = 0]
  /\ due' = [due EXCEPT ![t] = 0]

\* The earliest wake time of a delayed list, which is that of its head.
FirstWake(list) ==
  IF list = {} THEN portMAX_DELAY
  ELSE CHOOSE x \in {wake[t] : t \in list} : \A t \in list : x <= wake[t]

\* Mutant: a wake time beyond the wrap goes to the list in use.
AddToOneList(t, n) ==
  LET xTimeToWake == Plus(xTickCount, n)
  IN  /\ wake' = [wake EXCEPT ![t] = xTimeToWake]
      /\ delayed' = delayed \union {t}
      /\ xNextTaskUnblockTime' = IF xTimeToWake < xNextTaskUnblockTime
                                   THEN xTimeToWake ELSE xNextTaskUnblockTime
      /\ UNCHANGED overflow

\* prvAddCurrentTaskToDelayedList, for n ticks.
AddToDelayedList(t, n) ==
  LET xTimeToWake == Plus(xTickCount, n)
  IN  /\ wake' = [wake EXCEPT ![t] = xTimeToWake]
      /\ IF xTimeToWake < xTickCount
           THEN /\ overflow' = overflow \union {t}
                /\ UNCHANGED <<delayed, xNextTaskUnblockTime>>
           ELSE /\ delayed' = delayed \union {t}
                /\ xNextTaskUnblockTime' = IF xTimeToWake < xNextTaskUnblockTime
                                             THEN xTimeToWake ELSE xNextTaskUnblockTime
                /\ UNCHANGED overflow

-----------------------------------------------------------------------------
(* The calls *)

\* vTaskSuspendAll, from vTaskDelay with n ticks to delay.
Delay(t, n) ==
  /\ At(t, "out") /\ section = NoTask
  /\ section' = t
  /\ pc' = [pc EXCEPT ![t] = "delay"]
  /\ ticks' = [ticks EXCEPT ![t] = n]
  /\ UNCHANGED <<clockVars, listVars, resuming, xPendedTicks, entered, overflowed, due>>

\* The suspended section of vTaskDelay.  Even portMAX_DELAY is a number of ticks.
DelayTask(t) ==
  /\ At(t, "delay")
  /\ AddToDelayedList(t, ticks[t])
  /\ resuming' = TRUE
  /\ Return(t)
  /\ UNCHANGED <<xTickCount, xNumOfOverflows, waiting, pendingReady, section, xPendedTicks>>

\* A call that cannot be served and has n ticks to wait: the critical section
\* that calls vTaskInternalSetTimeOutState.
Wait(t, n) ==
  /\ At(t, "out") /\ section = NoTask
  /\ pc' = [pc EXCEPT ![t] = "suspend"]
  /\ ticks' = [ticks EXCEPT ![t] = n]
  /\ entered' = [entered EXCEPT ![t] = xTickCount]
  /\ overflowed' = [overflowed EXCEPT ![t] = xNumOfOverflows]
  /\ due' = [due EXCEPT ![t] = n]
  /\ UNCHANGED <<clockVars, listVars, schedVars>>

\* The next round of the loop: the call is served, or has to wait again.
TryAgain(t) ==
  /\ At(t, "try") /\ section = NoTask
  /\ \/ Return(t)
     \/ ticks[t] > 0 /\ Goto(t, "suspend")
  /\ UNCHANGED <<clockVars, listVars, schedVars>>

SuspendAll(t) ==
  /\ At(t, "suspend") /\ section = NoTask
  /\ section' = t
  /\ Goto(t, "check")
  /\ UNCHANGED <<clockVars, listVars, resuming, xPendedTicks>>

\* Mutant: the number of overflows is not looked at.
ElapsedOnly(t, xElapsedTime) == xElapsedTime >= ticks[t]

\* The test of xTaskCheckForTimeOut, in the order of the code.
TimeIsUp(t, xElapsedTime) ==
  \/ xNumOfOverflows # overflowed[t] /\ xTickCount >= entered[t]
  \/ xElapsedTime >= ticks[t]

\* xTaskCheckForTimeOut: no timeout for a task that waits for ever, a timeout,
\* or the ticks that are left.
CheckForTimeOut(t) ==
  LET xElapsedTime == Minus(xTickCount, entered[t])
  IN  /\ At(t, "check")
      /\ \/ /\ ticks[t] = portMAX_DELAY
            /\ pc' = [pc EXCEPT ![t] = "place"]
            /\ UNCHANGED <<ticks, entered, overflowed>>
         \/ /\ ticks[t] # portMAX_DELAY /\ TimeIsUp(t, xElapsedTime)
            /\ pc' = [pc EXCEPT ![t] = "failed"]
            /\ ticks' = [ticks EXCEPT ![t] = 0]
            /\ UNCHANGED <<entered, overflowed>>
         \/ /\ ticks[t] # portMAX_DELAY /\ ~TimeIsUp(t, xElapsedTime)
            /\ pc' = [pc EXCEPT ![t] = "place"]
            /\ ticks' = [ticks EXCEPT ![t] = @ - xElapsedTime]
            /\ entered' = [entered EXCEPT ![t] = xTickCount]
            /\ overflowed' = [overflowed EXCEPT ![t] = xNumOfOverflows]
      /\ UNCHANGED <<clockVars, listVars, schedVars, due>>

\* vTaskPlaceOnEventList; a task that waits for ever is on no delayed list.
PlaceOnEventList(t) ==
  /\ At(t, "place")
  /\ waiting' = waiting \union {t}
  /\ IF ticks[t] = portMAX_DELAY
       THEN UNCHANGED <<delayed, overflow, wake, xNextTaskUnblockTime>>
       ELSE AddToDelayedList(t, ticks[t])
  /\ Goto(t, "try")
  /\ resuming' = TRUE
  /\ UNCHANGED <<xTickCount, xNumOfOverflows, pendingReady, section, xPendedTicks>>

\* After a timeout, or when what the call waits for has come in the meantime:
\* xTaskResumeAll, and another look.
LookAgain(t) ==
  /\ At(t, "failed") \/ At(t, "place")
  /\ Goto(t, "try")
  /\ resuming' = TRUE
  /\ UNCHANGED <<clockVars, listVars, section, xPendedTicks>>

-----------------------------------------------------------------------------
(* Events, ticks and xTaskResumeAll *)

\* xTaskRemoveFromEventList.  xNextTaskUnblockTime stays, even if it was the
\* time of this task.
Event(t) ==
  /\ t \in waiting /\ ~resuming
  /\ waiting' = waiting \ {t}
  /\ IF section = NoTask
       THEN /\ delayed' = delayed \ {t} /\ overflow' = overflow \ {t}
            /\ wake' = [wake EXCEPT ![t] = 0]
            /\ UNCHANGED pendingReady
       ELSE /\ pendingReady' = pendingReady \union {t}
            /\ UNCHANGED <<delayed, overflow, wake>>
  /\ UNCHANGED <<clockVars, schedVars, callVars>>

\* Mutant: the next wakeup is not looked up again when the lists change places.
IncrementTickStale ==
  LET now == Plus(xTickCount, 1)
      list == IF now = 0 THEN overflow ELSE delayed
      other == IF now = 0 THEN delayed ELSE overflow
      woken == IF now >= xNextTaskUnblockTime THEN {t \in list : wake[t] <= now} ELSE {}
  IN  /\ xTickCount' = now
      /\ xNumOfOverflows' = IF now = 0 THEN OneMore(xNumOfOverflows)
                                       ELSE xNumOfOverflows
      /\ delayed' = list \ woken /\ overflow' = other
      /\ wake' = [t \in Tasks |-> IF t \in woken THEN 0 ELSE wake[t]]
      /\ waiting' = waiting \ woken
      /\ xNextTaskUnblockTime' = IF now >= xNextTaskUnblockTime THEN FirstWake(list \ woken)
                                                               ELSE xNextTaskUnblockTime
      /\ due' = [t \in Tasks |-> IF Timed(t) THEN due[t] - 1 ELSE due[t]]
      /\ UNCHANGED <<pendingReady, pc, ticks, entered, overflowed>>

\* xTaskIncrementTick with the scheduler running: taskSWITCH_DELAYED_LISTS when
\* the count wraps, and the tasks at the head of the list whose time has come
\* leave their lists, if the time of the next wakeup says that there are any.
IncrementTick ==
  LET now == Plus(xTickCount, 1)
      list == IF now = 0 THEN overflow ELSE delayed
      other == IF now = 0 THEN delayed ELSE overflow
      next == IF now = 0 THEN FirstWake(overflow) ELSE xNextTaskUnblockTime
      woken == IF now >= next THEN {t \in list : wake[t] <= now} ELSE {}
  IN  /\ xTickCount' = now
      /\ xNumOfOverflows' = IF now = 0 THEN OneMore(xNumOfOverflows)
                                       ELSE xNumOfOverflows
      /\ delayed' = list \ woken /\ overflow' = other
      /\ wake' = [t \in Tasks |-> IF t \in woken THEN 0 ELSE wake[t]]
      /\ waiting' = waiting \ woken
      /\ xNextTaskUnblockTime' = IF now >= next THEN FirstWake(list \ woken) ELSE next
      /\ due' = [t \in Tasks |-> IF Timed(t) THEN due[t] - 1 ELSE due[t]]
      /\ UNCHANGED <<pendingReady, pc, ticks, entered, overflowed>>

\* The ticks since a task looked at its timeout.
Ticks(t) == IF overflowed[t] = xNumOfOverflows THEN xTickCount - entered[t]
            ELSE xTickCount + Wrap - entered[t]

\* Bound: it does so again before the tick count has gone round once.
LooksInTime == \A t \in Tasks : Timed(t) => Ticks(t) + xPendedTicks < Wrap

\* The SysTick interrupt; it is held back while the scheduler is suspended.
Tick ==
  /\ ~resuming
  /\ LooksInTime
  /\ \/ /\ section = NoTask
        /\ IncrementTick
        /\ UNCHANGED schedVars
     \/ /\ section # NoTask
        /\ xPendedTicks < MaxPended
        /\ xPendedTicks' = xPendedTicks + 1
        /\ UNCHANGED <<clockVars, listVars, section, resuming, callVars>>

\* xTaskResumeAll, first part: the tasks that events have woken become ready.
ReadyPending ==
  /\ resuming /\ pendingReady # {}
  /\ pendingReady' = {}
  /\ delayed' = delayed \ pendingReady
  /\ overflow' = overflow \ pendingReady
  /\ wake' = [t \in Tasks |-> IF t \in pendingReady THEN 0 ELSE wake[t]]
  /\ xNextTaskUnblockTime' = FirstWake(delayed \ pendingReady)
  /\ UNCHANGED <<xTickCount, xNumOfOverflows, waiting, schedVars, callVars>>

\* Second part: one call of xTaskIncrementTick for each tick held back.
MakeUpTick ==
  /\ resuming /\ pendingReady = {}
  /\ xPendedTicks > 0
  /\ IncrementTick
  /\ xPendedTicks' = xPendedTicks - 1
  /\ UNCHANGED <<section, resuming>>

ResumeDone ==
  /\ resuming /\ pendingReady = {} /\ xPendedTicks = 0
  /\ resuming' = FALSE
  /\ section' = NoTask
  /\ UNCHANGED <<clockVars, listVars, xPendedTicks, callVars>>

-----------------------------------------------------------------------------

TaskStep(t) ==
  \/ \E n \in 1..portMAX_DELAY : Delay(t, n) \/ Wait(t, n)
  \/ DelayTask(t)
  \/ TryAgain(t)
  \/ SuspendAll(t)
  \/ CheckForTimeOut(t)
  \/ PlaceOnEventList(t)
  \/ LookAgain(t)

Next ==
  \/ \E t \in Tasks : TaskStep(t) \/ Event(t)
  \/ Tick
  \/ ReadyPending
  \/ MakeUpTick
  \/ ResumeDone

Spec == Init /\ [][Next]_vars

-----------------------------------------------------------------------------
(* Correctness *)

\* The ticks until a task is woken, as the code's data say it.
Left(t) ==
  CASE t \in pendingReady -> 0
    [] t \in delayed \ pendingReady -> wake[t] - xTickCount
    [] t \in overflow \ pendingReady -> wake[t] + Wrap - xTickCount
    [] OTHER -> 0

lefts == [t \in Tasks |-> Left(t)]

\* Every sleep ends at its tick, across the wrap of the count, the change of
\* the lists and the ticks made up for, or earlier if an event ends it.
\* (prvAddCurrentTaskToDelayedList, xTaskIncrementTick, xTaskResumeAll)
A == INSTANCE Alarm WITH Longest <- portMAX_DELAY, left <- lefts
ImplementsAlarm == A!Spec

\* The time of the next wakeup is never later than the first wake time in the
\* list in use; and that list holds times from now on, the other one times that
\* come after the wrap.
NextWakeupNotMissed ==
  /\ \A t \in delayed : xNextTaskUnblockTime <= wake[t]
  /\ \A t \in delayed : xTickCount < wake[t]
  /\ \A t \in overflow : wake[t] < xTickCount

\* A call fails exactly when the time it was given is over, however often it
\* was woken in between; and one that blocks again does so for the rest.
TimeoutsExact ==
  \A t \in Tasks :
    /\ pc[t] = "failed" => due[t] <= 0
    /\ pc[t] = "place" /\ ticks[t] # portMAX_DELAY => ticks[t] = due[t] /\ due[t] > 0
=============================================================================
