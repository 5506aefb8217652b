---------------------------- MODULE KernelMutex ----------------------------
(***************************************************************************)
(* Mutexes and priority inheritance: the loop of xQueueSemaphoreTake and   *)
(* xSemaphoreGive on a mutex (src/kernel/queue.c), the functions of        *)
(* src/kernel/tasks.c that raise and lower the priority of the holder, and *)
(* the scheduler's choice of the task to run.  The mutexes of the system   *)
(* are xSDBusy (src/ff/diskio.c), taken for ten ticks, and those of        *)
(* TinyUSB, taken without a limit.                                         *)
(*                                                                         *)
(* Granularity: a critical section is one step.  No interrupt handler uses *)
(* a mutex, and a tick that comes while the scheduler is suspended is held *)
(* back until xTaskResumeAll, where it does what a tick just after it      *)
(* does; so the part of a take between vTaskSuspendAll and xTaskResumeAll, *)
(* and the whole of vTaskDelay, is one step too.                           *)
(*                                                                         *)
(* Data: a mutex is available when it has no holder (uxMessagesWaiting and *)
(* xMutexHolder change together).  The value of a task's event list item   *)
(* is its priority: every assignment of the one is one of the other.  The  *)
(* ready lists are the set of ready tasks, each in the list of its         *)
(* priority; a finite wait may run out at any tick.                        *)
(***************************************************************************)
EXTENDS Integers, FiniteSets

CONSTANTS
  Tasks,          \* the tasks that use the mutexes
  Idle,           \* the idle task, always ready, priority 0
  NoTask,         \* NULL as the holder of a mutex
  Mutexes,        \* the mutexes, numbered in the order in which a task nests them
  Base,           \* [Tasks -> priority], uxBasePriority
  Uses,           \* [Tasks -> the mutexes it takes]
  Waits,          \* [Tasks -> the kinds of xTicksToWait it takes them with]
  Nests           \* whether a task that holds a mutex may take another

WaitSet == {"zero", "finite", "max"}      \* 0, 1 .. portMAX_DELAY-1, portMAX_DELAY
NoMutex == 0

ASSUME TasksAssumption == IsFiniteSet(Tasks) /\ Idle \notin Tasks /\ NoTask \notin Tasks
ASSUME MutexesAssumption == IsFiniteSet(Mutexes) /\ Mutexes \subseteq Nat \ {NoMutex}
ASSUME BaseAssumption == Base \in [Tasks -> Nat \ {0}]
ASSUME UsesAssumption == Uses \in [Tasks -> SUBSET Mutexes]
ASSUME WaitsAssumption == Waits \in [Tasks -> SUBSET WaitSet] /\ Nests \in BOOLEAN

VARIABLES
  holder,         \* xMutexHolder of each mutex
  waiting,        \* the tasks on xTasksWaitingToReceive of each mutex
  ahead,          \* of each task, the tasks ahead of it in its line
  prio,           \* uxPriority of each task
  held,           \* uxMutexesHeld of each task
  current,        \* pxCurrentTCB
  ready,          \* the tasks in pxReadyTasksLists
  timed,          \* the tasks in the delayed lists
  pendsv,         \* a PendSV exception is pending
  pc,             \* where each task is in xQueueSemaphoreTake
  want,           \* the mutex it takes
  wait,           \* its xTicksToWait
  expired,        \* the tasks whose finite wait has run out
  inherited       \* xInheritanceOccurred

mutexVars == <<holder, waiting, ahead, prio, held>>
schedVars == <<current, ready, timed, pendsv>>
takeVars == <<pc, want, wait, expired, inherited>>
vars == <<mutexVars, schedVars, takeVars>>

AllTasks == Tasks \union {Idle}
PrioOf(t) == IF t = Idle THEN 0 ELSE prio[t]
Highest(S) == {t \in S : \A u \in S : PrioOf(u) <= PrioOf(t)}

TypeOK ==
  /\ holder \in [Mutexes -> Tasks \union {NoTask}]
  /\ waiting \in [Mutexes -> SUBSET Tasks]
  /\ ahead \in [Tasks -> SUBSET Tasks]
  /\ prio \in [Tasks -> Nat]
  /\ held \in [Tasks -> Nat]
  /\ current \in AllTasks
  /\ ready \in SUBSET AllTasks
  /\ timed \in SUBSET Tasks
  /\ pendsv \in BOOLEAN
  /\ pc \in [Tasks -> {"out", "take", "block", "recheck", "disinherit"}]
  /\ want \in [Tasks -> Mutexes \union {NoMutex}]
  /\ wait \in [Tasks -> WaitSet]
  /\ expired \in SUBSET Tasks
  /\ inherited \in [Tasks -> BOOLEAN]

Init ==
  /\ holder = [m \in Mutexes |-> NoTask]
  /\ waiting = [m \in Mutexes |-> {}]
  /\ ahead = [t \in Tasks |-> {}]
  /\ prio = Base
  /\ held = [t \in Tasks |-> 0]
  /\ ready = AllTasks
  /\ current \in Highest(AllTasks)
  /\ timed = {}
  /\ pendsv = FALSE
  /\ pc = [t \in Tasks |-> "out"]
  /\ want = [t \in Tasks |-> NoMutex]
  /\ wait = [t \in Tasks |-> "zero"]
  /\ expired = {}
  /\ inherited = [t \in Tasks |-> FALSE]

-----------------------------------------------------------------------------
(* Helpers *)

\* A task executes an instruction only when it is switched in and no exception
\* is waiting to be taken.
At(t, label) == current = t /\ ~pendsv /\ pc[t] = label

Goto(t, label) ==
  /\ pc' = [pc EXCEPT ![t] = label]
  /\ UNCHANGED <<want, wait, expired, inherited>>

\* The call returns, and its local variables are gone.
Return(t) ==
  /\ pc' = [pc EXCEPT ![t] = "out"]
  /\ want' = [want EXCEPT ![t] = NoMutex]
  /\ wait' = [wait EXCEPT ![t] = "zero"]
  /\ expired' = expired \ {t}
  /\ inherited' = [inherited EXCEPT ![t] = FALSE]

\* vListInsert, by the value of the event list item: behind the tasks of the
\* same or a higher priority, as far as the line goes without a lower one.
InsertByPriority(line, t) ==
  LET before == {v \in line : \A u \in ahead[v] \union {v} : prio[u] >= prio[t]}
  IN  ahead' = [u \in Tasks |->
                  CASE u = t               -> before
                    [] u \in line \ before -> ahead[u] \union {t}
                    [] OTHER               -> ahead[u]]

\* uxListRemove, for the event items of the tasks of S.
RemoveItems(S) ==
  /\ waiting' = [m \in Mutexes |-> waiting[m] \ S]
  /\ ahead' = [u \in Tasks |-> IF u \in S THEN {} ELSE ahead[u] \ S]

\* The head of the line of m, if there is one.
Head(m) == {t \in waiting[m] : ahead[t] = {}}

-----------------------------------------------------------------------------
(* Taking a mutex *)

\* First critical section of the loop of xQueueSemaphoreTake, on mutex m with
\* w ticks to wait.
TryTake(t, m, w) ==
  \/ /\ holder[m] = NoTask
     /\ holder' = [holder EXCEPT ![m] = t]
     /\ held' = [held EXCEPT ![t] = held[t] + 1]
     /\ Return(t)
     /\ UNCHANGED <<waiting, ahead, prio>>
  \/ /\ holder[m] # NoTask
     /\ IF w = "zero"
          THEN Return(t)
          ELSE /\ pc' = [pc EXCEPT ![t] = "block"]
               /\ want' = [want EXCEPT ![t] = m]
               /\ wait' = [wait EXCEPT ![t] = w]
               /\ UNCHANGED <<expired, inherited>>
     /\ UNCHANGED mutexVars

\* Entering xQueueSemaphoreTake.  No task takes a mutex it holds, and those
\* that nest them do so in one order.
Take(t, m, w) ==
  /\ At(t, "out")
  /\ m \in Uses[t] /\ w \in Waits[t]
  /\ \A k \in Mutexes : holder[k] = t => Nests /\ k < m
  /\ TryTake(t, m, w)
  /\ UNCHANGED schedVars

TakeAgain(t) ==
  /\ At(t, "take")
  /\ TryTake(t, want[t], wait[t])
  /\ UNCHANGED schedVars

\* The suspended section, when xTaskCheckForTimeOut says that the wait is over.
TimedOut(t) ==
  /\ At(t, "block")
  /\ wait[t] = "finite" /\ t \in expired
  /\ pc' = [pc EXCEPT ![t] = "recheck"]
  /\ wait' = [wait EXCEPT ![t] = "zero"]
  /\ expired' = expired \ {t}
  /\ UNCHANGED <<mutexVars, schedVars, want, inherited>>

\* The suspended section, when the mutex has been given in the meantime.
Retry(t) ==
  /\ At(t, "block")
  /\ t \notin expired
  /\ holder[want[t]] = NoTask
  /\ Goto(t, "take")
  /\ UNCHANGED <<mutexVars, schedVars>>

\* Mutant: the holder does not inherit.
InheritNothing(t, h) == UNCHANGED <<prio, inherited>>

\* xTaskPriorityInherit: t is about to wait for a mutex that h holds.
Inherit(t, h) ==
  /\ prio' = [prio EXCEPT ![h] = IF @ < prio[t] THEN prio[t] ELSE @]
  /\ inherited' = [inherited EXCEPT ![t] = prio[h] < prio[t] \/ Base[h] < prio[t]]

\* The suspended section, when the task blocks: the holder inherits its
\* priority, and it goes on the event list and, unless it waits for ever, on a
\* delayed list.
Block(t) ==
  LET m == want[t]
  IN  /\ At(t, "block")
      /\ t \notin expired
      /\ holder[m] # NoTask
      /\ Inherit(t, holder[m])
      /\ waiting' = [waiting EXCEPT ![m] = @ \union {t}]
      /\ InsertByPriority(waiting[m], t)
      /\ ready' = ready \ {t}
      /\ timed' = IF wait[t] = "max" THEN timed ELSE timed \union {t}
      /\ pendsv' = TRUE
      /\ pc' = [pc EXCEPT ![t] = "take"]
      /\ UNCHANGED <<holder, held, current, want, wait, expired>>

\* After a timeout, prvIsQueueEmpty: a mutex that has been given is tried once
\* more, without waiting.
Recheck(t) ==
  /\ At(t, "recheck")
  /\ IF holder[want[t]] = NoTask
       THEN Goto(t, "take")
       ELSE IF inherited[t] THEN Goto(t, "disinherit") ELSE Return(t)
  /\ UNCHANGED <<mutexVars, schedVars>>

\* Mutant: the holder falls back to its base priority, whoever else waits.
DisinheritToBase(h, m) ==
  IF held[h] = 1 THEN prio' = [prio EXCEPT ![h] = Base[h]] ELSE UNCHANGED prio

\* vTaskPriorityDisinheritAfterTimeout and prvGetDisinheritPriorityAfterTimeout:
\* a holder h of no other mutex falls to the priority of the head of the line,
\* or to its own if that is higher.
DisinheritAfterTimeout(h, m) ==
  LET priorities == {Base[h]} \union {prio[w] : w \in Head(m)}
  IN  IF held[h] = 1
        THEN \E p \in priorities :
               /\ \A q \in priorities : q <= p
               /\ prio' = [prio EXCEPT ![h] = p]
        ELSE UNCHANGED prio

\* The critical section in which a task that gives up waiting takes back what
\* the holder inherited.  The mutex may have been given since prvIsQueueEmpty.
Disinherit(t) ==
  LET m == want[t]
  IN  /\ At(t, "disinherit")
      /\ IF holder[m] = NoTask
           THEN UNCHANGED prio
           ELSE DisinheritAfterTimeout(holder[m], m)
      /\ Return(t)
      /\ UNCHANGED <<holder, waiting, ahead, held, schedVars>>

-----------------------------------------------------------------------------
(* Giving a mutex, delaying, and the kernel *)

\* Mutant: the count is tested before it is decremented.
LowersNever(t) == prio[t] # Base[t] /\ held[t] = 0

\* xTaskPriorityDisinherit: whether giving a mutex takes the task back to its
\* base priority.
Lowers(t) == prio[t] # Base[t] /\ held[t] = 1

\* xSemaphoreGive, the critical section of xQueueGenericSend: the head of the
\* line is woken.  A woken task that does not outrank the caller causes no
\* yield, even if the caller has just lost its priority.
Give(t, m) ==
  LET p == IF Lowers(t) THEN Base[t] ELSE prio[t]
      S == Head(m)
  IN  /\ At(t, "out")
      /\ holder[m] = t
      /\ holder' = [holder EXCEPT ![m] = NoTask]
      /\ held' = [held EXCEPT ![t] = held[t] - 1]
      /\ prio' = [prio EXCEPT ![t] = p]
      /\ RemoveItems(S)
      /\ ready' = ready \union S
      /\ timed' = timed \ S
      /\ pendsv' = IF S = {} THEN Lowers(t) ELSE \E w \in S : prio[w] > p
      /\ UNCHANGED <<current, takeVars>>

\* vTaskDelay.  A task does not delay while it holds a mutex.
Delay(t) ==
  /\ At(t, "out")
  /\ \A m \in Mutexes : holder[m] # t
  /\ ready' = ready \ {t}
  /\ timed' = timed \union {t}
  /\ pendsv' = TRUE
  /\ UNCHANGED <<mutexVars, current, takeVars>>

\* The waits that may run out at a tick.
MayExpire == {t \in Tasks : wait[t] = "finite"} \union timed

\* xTaskIncrementTick: the waits of E run out, and every delayed task whose
\* wait is over leaves its event list and is ready.
Tick(E) ==
  LET woken == timed \intersect (expired \union E)
  IN  /\ expired' = expired \union {t \in E : wait[t] = "finite"}
      /\ ready' = ready \union woken
      /\ timed' = timed \ woken
      /\ RemoveItems(woken)
      /\ pendsv' = (pendsv \/ \E u \in woken : PrioOf(u) > PrioOf(current))
      /\ UNCHANGED <<holder, prio, held, current, pc, want, wait, inherited>>

\* The PendSV handler: vTaskSwitchContext.
SwitchContext ==
  /\ pendsv
  /\ pendsv' = FALSE
  /\ current' \in Highest(ready)
  /\ UNCHANGED <<mutexVars, ready, timed, takeVars>>

-----------------------------------------------------------------------------

TaskStep(t) ==
  \/ \E m \in Mutexes, w \in WaitSet : Take(t, m, w)
  \/ TakeAgain(t)
  \/ TimedOut(t)
  \/ Retry(t)
  \/ Block(t)
  \/ Recheck(t)
  \/ Disinherit(t)
  \/ \E m \in Mutexes : Give(t, m)
  \/ Delay(t)

Executes == SwitchContext \/ \E t \in Tasks : TaskStep(t)

Next ==
  \/ \E t \in Tasks : TaskStep(t)
  \/ \E E \in SUBSET MayExpire : Tick(E)
  \/ SwitchContext

Spec == Init /\ [][Next]_vars

\* The processor keeps executing the task that is switched in, and a task that
\* holds a mutex gives it back some time.  Nothing is assumed of the tick.
FairSpec ==
  /\ Spec
  /\ WF_vars(Executes)
  /\ \A t \in Tasks : \A m \in Uses[t] : SF_vars(Give(t, m))

-----------------------------------------------------------------------------
(* Correctness *)

\* A raised priority has a cause: a task that holds no mutex runs at its own
\* priority, one that holds some never below it, and uxMutexesHeld counts what
\* it holds.
PriorityHasACause ==
  \A t \in Tasks :
    /\ held[t] = Cardinality({m \in Mutexes : holder[m] = t})
    /\ prio[t] >= Base[t]
    /\ held[t] = 0 => prio[t] = Base[t]

\* The line of mutex m is in order of priority, as vTaskPlaceOnEventList makes
\* it.  A task that holds a mutex itself may change its priority in the line,
\* which is not sorted again.
InOrder(m) == \A t \in waiting[m] : \A u \in ahead[t] : prio[u] >= prio[t]

Outranked(m) == \E t \in waiting[m] : prio[t] > prio[holder[m]]

\* Priority inheritance: while a task holds a mutex with an ordered line it does
\* not come to be outranked by a task of the line, whoever blocks, times out or
\* gives another mutex, unless a task in the line is itself raised.
\* (xTaskPriorityInherit, vTaskPriorityDisinheritAfterTimeout,
\* xTaskPriorityDisinherit)
HolderKeepsUp ==
  [][ \A m \in Mutexes :
        /\ holder[m] # NoTask /\ holder'[m] = holder[m]
        /\ InOrder(m)
        /\ \A t \in waiting[m] : prio'[t] = prio[t]
        => (Outranked(m)' => Outranked(m)) ]_vars

\* No ready task outranks the running one, once no switch is pending.  Does not
\* hold: Give lowers the running task and does not yield if it wakes a task.
HighestPriorityRuns == ~pendsv => current \in Highest(ready)

\* The tasks that h cannot go on without: h, the holder of the mutex it waits for, and so
\* on; the least set with h that holds the holder when it holds a task of the line.
Blockers(h) ==
  {g \in Tasks : \A C \in SUBSET Tasks :
     h \in C /\ (\A m \in Mutexes : waiting[m] \intersect C # {} => holder[m] \in C \union {NoTask})
       => g \in C}

\* Task t waits for a task that has not got its priority, because that is not the holder
\* of the mutex: xTaskPriorityInherit raises the holder alone, not those it waits for.
HeldBack(t) ==
  \E m \in Mutexes :
    /\ t \in waiting[m] /\ holder[m] # NoTask
    /\ \E g \in Blockers(holder[m]) \ {holder[m]} : prio[g] < prio[t]

\* A task of the highest priority is not left in the line of a mutex, unless the holder
\* itself waits in a line, for a mutex whose holder stays without that priority.
WaitersWoken ==
  \A t \in Tasks : (\A u \in Tasks : Base[u] <= Base[t]) =>
    \/ (\E m \in Mutexes : t \in waiting[m]) ~> t \in ready
    \/ <>[]HeldBack(t)
=============================================================================
