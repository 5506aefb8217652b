------------------------- MODULE KernelMutexProofs -------------------------
(***************************************************************************)
(* Proofs about KernelMutex, for every set of tasks and mutexes, every     *)
(* priority assignment and every way of waiting and nesting.               *)
(***************************************************************************)
EXTENDS KernelMutex, FiniteSetTheorems, WellFoundedInduction, TLAPS

HeldBy(t) == {m \in Mutexes : holder[m] = t}

\* A task in a call has a mutex it wants.
CallsHaveMutex == \A t \in Tasks : pc[t] # "out" => want[t] \in Mutexes

LEMMA NumbersLemma ==
  /\ NoMutex \notin Mutexes /\ NoTask \notin Tasks /\ Idle \notin Tasks
  /\ Base \in [Tasks -> Nat] /\ \A t \in Tasks : Waits[t] \subseteq WaitSet
BY MutexesAssumption, TasksAssumption, BaseAssumption, WaitsAssumption DEF NoMutex

LEMMA RunningLemma ==
  ASSUME NEW t \in Tasks, NEW label, At(t, label)
  PROVE  current = t /\ ~pendsv /\ pc[t] = label
BY DEF At

-----------------------------------------------------------------------------
(* The type invariant *)

LEMMA TypeInit == Init => TypeOK /\ CallsHaveMutex
<1> SUFFICES ASSUME Init PROVE TypeOK /\ CallsHaveMutex
  OBVIOUS
<1>1. current \in AllTasks
  BY DEF Init, Highest
<1>2. prio \in [Tasks -> Nat]
  BY NumbersLemma DEF Init
<1> QED
  BY <1>1, <1>2 DEF Init, TypeOK, CallsHaveMutex, WaitSet

LEMMA ReturnType ==
  ASSUME TypeOK, CallsHaveMutex, NEW t \in Tasks, Return(t)
  PROVE  /\ pc' \in [Tasks -> {"out", "take", "block", "recheck", "disinherit"}]
         /\ want' \in [Tasks -> Mutexes \union {NoMutex}]
         /\ wait' \in [Tasks -> WaitSet]
         /\ expired' \in SUBSET Tasks
         /\ inherited' \in [Tasks -> BOOLEAN]
         /\ CallsHaveMutex'
BY DEF TypeOK, CallsHaveMutex, Return, WaitSet

LEMMA GotoType ==
  ASSUME TypeOK, CallsHaveMutex, NEW t \in Tasks, pc[t] # "out",
         NEW label \in {"take", "block", "recheck", "disinherit"}, Goto(t, label)
  PROVE  /\ pc' \in [Tasks -> {"out", "take", "block", "recheck", "disinherit"}]
         /\ CallsHaveMutex'
         /\ UNCHANGED <<want, wait, expired, inherited>>
BY DEF TypeOK, CallsHaveMutex, Goto

LEMMA RemoveItemsType ==
  ASSUME TypeOK, NEW S, RemoveItems(S)
  PROVE  waiting' \in [Mutexes -> SUBSET Tasks] /\ ahead' \in [Tasks -> SUBSET Tasks]
BY DEF TypeOK, RemoveItems

LEMMA TryTakeType ==
  ASSUME TypeOK, CallsHaveMutex, UNCHANGED schedVars,
         NEW t \in Tasks, NEW m \in Mutexes, NEW w \in WaitSet, TryTake(t, m, w)
  PROVE  TypeOK' /\ CallsHaveMutex'
<1>1. CASE holder[m] = NoTask
  <2>1. /\ holder' = [holder EXCEPT ![m] = t]
        /\ held' = [held EXCEPT ![t] = held[t] + 1]
        /\ Return(t)
        /\ UNCHANGED <<waiting, ahead, prio>>
    BY <1>1 DEF TryTake
  <2> QED
    BY <2>1, ReturnType DEF TypeOK, schedVars
<1>2. CASE holder[m] # NoTask /\ w = "zero"
  <2>1. Return(t) /\ UNCHANGED mutexVars
    BY <1>2 DEF TryTake
  <2> QED
    BY <2>1, ReturnType DEF TypeOK, schedVars, mutexVars
<1>3. CASE holder[m] # NoTask /\ w # "zero"
  BY <1>3 DEF TryTake, TypeOK, CallsHaveMutex, schedVars, mutexVars
<1> QED
  BY <1>1, <1>2, <1>3

LEMMA DisinheritType ==
  ASSUME TypeOK, NEW m \in Mutexes, NEW h \in Tasks, DisinheritAfterTimeout(h, m)
  PROVE  /\ prio' \in [Tasks -> Nat]
         /\ \A u \in Tasks \ {h} : prio'[u] = prio[u]
         /\ held[h] # 1 => UNCHANGED prio
         /\ prio[h] >= Base[h] => prio'[h] >= Base[h]
<1>1. CASE held[h] = 1
  <2> DEFINE P == {Base[h]} \union {prio[w] : w \in Head(m)}
  <2>1. PICK p \in P : (\A q \in P : q <= p) /\ prio' = [prio EXCEPT ![h] = p]
    BY <1>1 DEF DisinheritAfterTimeout
  <2>2. Head(m) \subseteq Tasks
    BY DEF Head, TypeOK
  <2>3. p \in Nat /\ Base[h] \in Nat
    <3>1. Base[h] \in Nat
      BY NumbersLemma
    <3>2. \A w \in Head(m) : prio[w] \in Nat
      BY <2>2 DEF TypeOK
    <3> QED
      BY <2>1, <3>1, <3>2
  <2>4. p >= Base[h]
    BY <2>1, <2>3
  <2> QED
    BY <1>1, <2>1, <2>3, <2>4 DEF TypeOK
<1>2. CASE held[h] # 1
  BY <1>2 DEF DisinheritAfterTimeout, TypeOK
<1> QED
  BY <1>1, <1>2

\* uxMutexesHeld of the holder of a mutex is not zero, and one that holds two
\* mutexes does not have the count of one.
LEMMA HolderLemma ==
  ASSUME TypeOK, PriorityHasACause, NEW m \in Mutexes, NEW t \in Tasks, holder[m] = t
  PROVE  /\ held[t] # 0
         /\ \A k \in Mutexes : holder[k] = t /\ k # m => held[t] # 1
<1>1. IsFiniteSet(HeldBy(t))
  BY MutexesAssumption, FS_Subset DEF HeldBy
<1>2. held[t] = Cardinality(HeldBy(t))
  BY DEF PriorityHasACause, HeldBy
<1>3. m \in HeldBy(t)
  BY DEF HeldBy
<1>4. held[t] # 0
  BY <1>1, <1>2, <1>3, FS_EmptySet
<1>5. ASSUME NEW k \in Mutexes, holder[k] = t, k # m PROVE held[t] # 1
  <2>1. k \in HeldBy(t)
    BY <1>5 DEF HeldBy
  <2> QED
    BY <1>1, <1>2, <1>3, <1>5, <2>1, FS_Singleton
<1> QED
  BY <1>4, <1>5

LEMMA TypeNext ==
  TypeOK /\ CallsHaveMutex /\ PriorityHasACause /\ [Next]_vars => TypeOK' /\ CallsHaveMutex'
<1> SUFFICES ASSUME TypeOK, CallsHaveMutex, PriorityHasACause, [Next]_vars
             PROVE  TypeOK' /\ CallsHaveMutex'
  OBVIOUS
<1>1. ASSUME NEW t \in Tasks, NEW m \in Mutexes, NEW w \in WaitSet, Take(t, m, w)
      PROVE  TypeOK' /\ CallsHaveMutex'
  BY <1>1, TryTakeType DEF Take
<1>2. ASSUME NEW t \in Tasks, TakeAgain(t) PROVE TypeOK' /\ CallsHaveMutex'
  <2>1. want[t] \in Mutexes /\ wait[t] \in WaitSet
    BY <1>2 DEF TakeAgain, At, CallsHaveMutex, TypeOK
  <2> QED
    BY <1>2, <2>1, TryTakeType DEF TakeAgain
<1>3. ASSUME NEW t \in Tasks, TimedOut(t) PROVE TypeOK' /\ CallsHaveMutex'
  BY <1>3 DEF TimedOut, At, TypeOK, CallsHaveMutex, mutexVars, schedVars, WaitSet
<1>4. ASSUME NEW t \in Tasks, Retry(t) PROVE TypeOK' /\ CallsHaveMutex'
  BY <1>4, GotoType DEF Retry, At, TypeOK, mutexVars, schedVars
<1>5. ASSUME NEW t \in Tasks, Block(t) PROVE TypeOK' /\ CallsHaveMutex'
  <2> DEFINE m == want[t]
             h == holder[m]
  <2>1. m \in Mutexes /\ h \in Tasks
    BY <1>5 DEF Block, At, CallsHaveMutex, TypeOK
  <2>2. prio' \in [Tasks -> Nat] /\ inherited' \in [Tasks -> BOOLEAN]
    BY <1>5, <2>1, NumbersLemma DEF Block, Inherit, TypeOK
  <2>3. waiting' \in [Mutexes -> SUBSET Tasks] /\ ahead' \in [Tasks -> SUBSET Tasks]
    BY <1>5, <2>1 DEF Block, InsertByPriority, TypeOK
  <2>4. timed' \in SUBSET Tasks /\ ready' \in SUBSET AllTasks /\ pendsv' \in BOOLEAN
    BY <1>5 DEF Block, TypeOK
  <2>5. pc' = [pc EXCEPT ![t] = "take"] /\ pc[t] = "block"
        /\ UNCHANGED <<holder, held, current, want, wait, expired>>
    BY <1>5 DEF Block, At
  <2> QED
    BY <2>2, <2>3, <2>4, <2>5 DEF TypeOK, CallsHaveMutex
<1>6. ASSUME NEW t \in Tasks, Recheck(t) PROVE TypeOK' /\ CallsHaveMutex'
  <2>1. pc[t] = "recheck" /\ UNCHANGED mutexVars /\ UNCHANGED schedVars
    BY <1>6 DEF Recheck, At
  <2>2. Goto(t, "take") \/ Goto(t, "disinherit") \/ Return(t)
    BY <1>6 DEF Recheck
  <2>3. CASE Return(t)
    BY <2>1, <2>3, ReturnType DEF TypeOK, mutexVars, schedVars
  <2>4. ASSUME NEW label \in {"take", "disinherit"}, Goto(t, label)
        PROVE TypeOK' /\ CallsHaveMutex'
    BY <2>1, <2>4, GotoType DEF TypeOK, mutexVars, schedVars
  <2> QED
    BY <2>2, <2>3, <2>4
<1>7. ASSUME NEW t \in Tasks, Disinherit(t) PROVE TypeOK' /\ CallsHaveMutex'
  <2>1. want[t] \in Mutexes
    BY <1>7 DEF Disinherit, At, CallsHaveMutex
  <2>2. prio' \in [Tasks -> Nat]
    <3>1. CASE holder[want[t]] = NoTask
      BY <1>7, <3>1 DEF Disinherit, TypeOK
    <3>2. CASE holder[want[t]] # NoTask
      BY <1>7, <2>1, <3>2, DisinheritType DEF Disinherit, TypeOK
    <3> QED
      BY <3>1, <3>2
  <2> QED
    BY <1>7, <2>2, ReturnType DEF Disinherit, TypeOK, schedVars
<1>8. ASSUME NEW t \in Tasks, NEW m \in Mutexes, Give(t, m)
      PROVE  TypeOK' /\ CallsHaveMutex'
  <2>1. waiting' \in [Mutexes -> SUBSET Tasks] /\ ahead' \in [Tasks -> SUBSET Tasks]
    BY <1>8, RemoveItemsType DEF Give
  <2>2. holder' \in [Mutexes -> Tasks \union {NoTask}]
    BY <1>8 DEF Give, TypeOK
  <2>3. prio' \in [Tasks -> Nat] /\ pendsv' \in BOOLEAN
    BY <1>8, NumbersLemma DEF Give, TypeOK, Lowers
  <2>4. held' \in [Tasks -> Nat]
    <3>1. held[t] \in Nat /\ held[t] # 0
      BY <1>8, HolderLemma DEF Give, TypeOK
    <3> QED
      BY <1>8, <3>1 DEF Give, TypeOK
  <2>5. ready' \in SUBSET AllTasks /\ timed' \in SUBSET Tasks
    BY <1>8 DEF Give, TypeOK, Head, AllTasks
  <2> QED
    BY <1>8, <2>1, <2>2, <2>3, <2>4, <2>5 DEF Give, TypeOK, CallsHaveMutex, takeVars
<1>9. ASSUME NEW t \in Tasks, Delay(t) PROVE TypeOK' /\ CallsHaveMutex'
  BY <1>9 DEF Delay, TypeOK, CallsHaveMutex, mutexVars, takeVars
<1>10. ASSUME NEW E \in SUBSET MayExpire, Tick(E) PROVE TypeOK' /\ CallsHaveMutex'
  <2>1. waiting' \in [Mutexes -> SUBSET Tasks] /\ ahead' \in [Tasks -> SUBSET Tasks]
    BY <1>10, RemoveItemsType DEF Tick
  <2>2. ready' \in SUBSET AllTasks /\ timed' \in SUBSET Tasks /\ expired' \in SUBSET Tasks
    BY <1>10 DEF Tick, TypeOK, AllTasks, MayExpire
  <2>3. pendsv' \in BOOLEAN
    BY <1>10 DEF Tick, TypeOK
  <2> QED
    BY <1>10, <2>1, <2>2, <2>3 DEF Tick, TypeOK, CallsHaveMutex
<1>11. CASE SwitchContext
  BY <1>11 DEF SwitchContext, Highest, TypeOK, CallsHaveMutex, mutexVars, takeVars
<1>12. CASE UNCHANGED vars
  BY <1>12 DEF vars, mutexVars, schedVars, takeVars, TypeOK, CallsHaveMutex
<1> QED
  BY <1>1, <1>2, <1>3, <1>4, <1>5, <1>6, <1>7, <1>8, <1>9, <1>10, <1>11, <1>12
     DEF Next, TaskStep
-----------------------------------------------------------------------------
(* A raised priority has a cause *)

LEMMA CauseInit == Init => PriorityHasACause
<1> SUFFICES ASSUME Init, NEW t \in Tasks
             PROVE  /\ held[t] = Cardinality({m \in Mutexes : holder[m] = t})
                    /\ prio[t] >= Base[t]
                    /\ held[t] = 0 => prio[t] = Base[t]
  BY DEF PriorityHasACause
<1>1. {m \in Mutexes : holder[m] = t} = {}
  BY NumbersLemma DEF Init
<1>2. held[t] = 0 /\ prio[t] = Base[t] /\ Base[t] \in Nat
  BY NumbersLemma DEF Init
<1> QED
  BY <1>1, <1>2, FS_EmptySet

\* What each step does to the priorities and the counts.
LEMMA CauseUnchanged ==
  ASSUME PriorityHasACause, UNCHANGED <<holder, held, prio>>
  PROVE  PriorityHasACause'
BY DEF PriorityHasACause

LEMMA CauseTryTake ==
  ASSUME TypeOK, PriorityHasACause, NEW t \in Tasks, NEW m \in Mutexes,
         NEW w \in WaitSet, TryTake(t, m, w)
  PROVE  PriorityHasACause'
<1>1. CASE holder[m] = NoTask
  <2>1. /\ holder' = [holder EXCEPT ![m] = t]
        /\ held' = [held EXCEPT ![t] = held[t] + 1]
        /\ UNCHANGED prio
    BY <1>1 DEF TryTake
  <2>2. ASSUME NEW u \in Tasks PROVE held'[u] = Cardinality(HeldBy(u)')
    <3>1. IsFiniteSet(HeldBy(u)) /\ held[u] = Cardinality(HeldBy(u))
      BY MutexesAssumption, FS_Subset DEF HeldBy, PriorityHasACause
    <3>2. m \notin HeldBy(u)
      BY <1>1, NumbersLemma DEF HeldBy
    <3>3. CASE u = t
      <4>1. HeldBy(u)' = HeldBy(u) \union {m}
        BY <2>1, <3>3 DEF HeldBy, TypeOK
      <4>2. held'[u] = held[u] + 1
        BY <2>1, <3>3 DEF TypeOK
      <4>3. Cardinality(HeldBy(u) \union {m}) = Cardinality(HeldBy(u)) + 1
        BY <3>1, <3>2, FS_AddElement
      <4> QED
        BY <3>1, <4>1, <4>2, <4>3
    <3>4. CASE u # t
      <4>1. HeldBy(u)' = HeldBy(u)
        BY <1>1, <2>1, <3>4, NumbersLemma DEF HeldBy, TypeOK
      <4> QED
        BY <2>1, <3>1, <3>4, <4>1 DEF TypeOK
    <3> QED
      BY <3>3, <3>4
  <2>3. ASSUME NEW u \in Tasks
        PROVE  prio'[u] >= Base[u] /\ (held'[u] = 0 => prio'[u] = Base[u])
    <3>1. prio[u] >= Base[u] /\ (held[u] = 0 => prio[u] = Base[u]) /\ held[u] \in Nat
      BY DEF PriorityHasACause, TypeOK
    <3>2. prio'[u] = prio[u] /\ held'[u] = IF u = t THEN held[u] + 1 ELSE held[u]
      BY <2>1 DEF TypeOK
    <3> QED
      BY <3>1, <3>2
  <2> QED
    BY <2>2, <2>3 DEF PriorityHasACause, HeldBy
<1>2. CASE holder[m] # NoTask
  BY <1>2, CauseUnchanged DEF TryTake, mutexVars
<1> QED
  BY <1>1, <1>2

LEMMA CauseGive ==
  ASSUME TypeOK, PriorityHasACause, NEW t \in Tasks, NEW m \in Mutexes, Give(t, m)
  PROVE  PriorityHasACause'
<1> DEFINE p == IF Lowers(t) THEN Base[t] ELSE prio[t]
<1>1. /\ holder[m] = t
      /\ holder' = [holder EXCEPT ![m] = NoTask]
      /\ held' = [held EXCEPT ![t] = held[t] - 1]
      /\ prio' = [prio EXCEPT ![t] = p]
  BY DEF Give
<1>2. ASSUME NEW u \in Tasks PROVE held'[u] = Cardinality(HeldBy(u)')
  <2>1. IsFiniteSet(HeldBy(u)) /\ held[u] = Cardinality(HeldBy(u))
    BY MutexesAssumption, FS_Subset DEF HeldBy, PriorityHasACause
  <2>2. CASE u = t
    <3>1. HeldBy(u)' = HeldBy(u) \ {m} /\ m \in HeldBy(u)
      BY <1>1, <2>2, NumbersLemma DEF HeldBy, TypeOK
    <3>2. held'[u] = held[u] - 1
      BY <1>1, <2>2 DEF TypeOK
    <3>3. Cardinality(HeldBy(u) \ {m}) = Cardinality(HeldBy(u)) - 1
      BY <2>1, <3>1, FS_RemoveElement
    <3> QED
      BY <2>1, <3>1, <3>2, <3>3
  <2>3. CASE u # t
    <3>1. HeldBy(u)' = HeldBy(u)
      BY <1>1, <2>3, NumbersLemma DEF HeldBy, TypeOK
    <3> QED
      BY <1>1, <2>1, <2>3, <3>1 DEF TypeOK
  <2> QED
    BY <2>2, <2>3
<1>3. ASSUME NEW u \in Tasks
      PROVE  prio'[u] >= Base[u] /\ (held'[u] = 0 => prio'[u] = Base[u])
  <2>1. held[u] \in Nat /\ prio[u] \in Nat /\ Base[u] \in Nat /\ prio[u] >= Base[u]
        /\ (held[u] = 0 => prio[u] = Base[u])
    BY NumbersLemma DEF TypeOK, PriorityHasACause
  <2>2. CASE u = t
    BY <1>1, <2>1, <2>2 DEF TypeOK, Lowers
  <2>3. CASE u # t
    BY <1>1, <2>1, <2>3 DEF TypeOK
  <2> QED
    BY <2>2, <2>3
<1> QED
  BY <1>2, <1>3 DEF PriorityHasACause, HeldBy

\* Only the priority of one holder changes, and not below its own.
LEMMA CauseRaise ==
  ASSUME TypeOK, PriorityHasACause, UNCHANGED <<holder, held>>,
         NEW m \in Mutexes, NEW h \in Tasks, holder[m] = h,
         \A u \in Tasks \ {h} : prio'[u] = prio[u], prio'[h] >= Base[h]
  PROVE  PriorityHasACause'
<1>1. held[h] # 0
  BY HolderLemma
<1> QED
  BY <1>1 DEF PriorityHasACause

LEMMA CauseNext ==
  TypeOK /\ CallsHaveMutex /\ PriorityHasACause /\ [Next]_vars => PriorityHasACause'
<1> SUFFICES ASSUME TypeOK, CallsHaveMutex, PriorityHasACause, [Next]_vars
             PROVE  PriorityHasACause'
  OBVIOUS
<1>1. ASSUME NEW t \in Tasks, NEW m \in Mutexes, NEW w \in WaitSet, Take(t, m, w)
      PROVE  PriorityHasACause'
  BY <1>1, CauseTryTake DEF Take
<1>2. ASSUME NEW t \in Tasks, TakeAgain(t) PROVE PriorityHasACause'
  <2>1. want[t] \in Mutexes /\ wait[t] \in WaitSet
    BY <1>2 DEF TakeAgain, At, CallsHaveMutex, TypeOK
  <2> QED
    BY <1>2, <2>1, CauseTryTake DEF TakeAgain
<1>3. ASSUME NEW t \in Tasks, Block(t) PROVE PriorityHasACause'
  <2> DEFINE m == want[t]
             h == holder[m]
  <2>1. m \in Mutexes /\ h \in Tasks
    BY <1>3 DEF Block, At, CallsHaveMutex, TypeOK
  <2>2. prio' = [prio EXCEPT ![h] = IF @ < prio[t] THEN prio[t] ELSE @]
        /\ UNCHANGED <<holder, held>>
    BY <1>3 DEF Block, Inherit
  <2>3. prio[h] >= Base[h] /\ Base[h] \in Nat /\ prio[h] \in Nat /\ prio[t] \in Nat
    BY <2>1, NumbersLemma DEF PriorityHasACause, TypeOK
  <2>4. prio'[h] >= Base[h] /\ \A u \in Tasks \ {h} : prio'[u] = prio[u]
    BY <2>1, <2>2, <2>3 DEF TypeOK
  <2> QED
    BY <2>1, <2>2, <2>4, CauseRaise
<1>4. ASSUME NEW t \in Tasks, Disinherit(t) PROVE PriorityHasACause'
  <2>1. want[t] \in Mutexes /\ UNCHANGED <<holder, held>>
    BY <1>4 DEF Disinherit, At, CallsHaveMutex
  <2>2. CASE holder[want[t]] = NoTask
    BY <1>4, <2>1, <2>2, CauseUnchanged DEF Disinherit
  <2>3. CASE holder[want[t]] # NoTask
    <3>1. holder[want[t]] \in Tasks
      BY <2>1, <2>3 DEF TypeOK
    <3>2. DisinheritAfterTimeout(holder[want[t]], want[t])
      BY <1>4, <2>3 DEF Disinherit
    <3> QED
      BY <2>1, <3>1, <3>2, DisinheritType, CauseRaise DEF PriorityHasACause
  <2> QED
    BY <2>2, <2>3
<1>5. ASSUME NEW t \in Tasks, NEW m \in Mutexes, Give(t, m) PROVE PriorityHasACause'
  BY <1>5, CauseGive
<1>6. ASSUME NEW t \in Tasks, TimedOut(t) \/ Retry(t) \/ Recheck(t) \/ Delay(t)
      PROVE  PriorityHasACause'
  BY <1>6, CauseUnchanged DEF TimedOut, Retry, Recheck, Delay, mutexVars
<1>7. ASSUME NEW E \in SUBSET MayExpire, Tick(E) PROVE PriorityHasACause'
  BY <1>7, CauseUnchanged DEF Tick
<1>8. CASE SwitchContext
  BY <1>8, CauseUnchanged DEF SwitchContext, mutexVars
<1>9. CASE UNCHANGED vars
  BY <1>9, CauseUnchanged DEF vars, mutexVars
<1> QED
  BY <1>1, <1>2, <1>3, <1>4, <1>5, <1>6, <1>7, <1>8, <1>9 DEF Next, TaskStep

\* For every set of tasks and mutexes: a task without a mutex runs at its own
\* priority, one with a mutex never below it, and uxMutexesHeld is right.
THEOREM PrioritiesCorrect == Spec => [](TypeOK /\ CallsHaveMutex /\ PriorityHasACause)
<1>1. Init => TypeOK /\ CallsHaveMutex /\ PriorityHasACause
  BY TypeInit, CauseInit
<1>2. TypeOK /\ CallsHaveMutex /\ PriorityHasACause /\ [Next]_vars
        => (TypeOK /\ CallsHaveMutex /\ PriorityHasACause)'
  BY TypeNext, CauseNext
<1> QED
  BY <1>1, <1>2, PTL DEF Spec
-----------------------------------------------------------------------------
(* The lines of the mutexes, and that the holder keeps up with them *)

\* Who stands in the line of m, and where.
Standing(m) ==
  \A t \in waiting[m] :
    /\ pc[t] = "take" /\ want[t] = m /\ t \notin ready
    /\ ahead[t] \subseteq waiting[m] \ {t}
    /\ \A u \in ahead[t] : ahead[u] \subseteq ahead[t]
    /\ \A u \in waiting[m] \ {t} : u \in ahead[t] \/ t \in ahead[u]

Lines ==
  /\ \A m \in Mutexes : Standing(m)
  /\ ~pendsv => current \in ready

LEMMA LinesInit == Init => Lines
BY DEF Init, Lines, Standing, Highest

\* The running task stands in no line.
LEMMA RunningNotInLine ==
  ASSUME Lines, NEW t \in Tasks, NEW label, At(t, label), NEW m \in Mutexes
  PROVE  t \notin waiting[m]
BY DEF Lines, Standing, At

\* A step of the running task that leaves the lines alone keeps them.
LEMMA LinesLeftAlone ==
  ASSUME TypeOK, Lines, NEW t \in Tasks, NEW label, At(t, label),
         UNCHANGED <<waiting, ahead, current>>,
         ready' \subseteq ready, pendsv' = FALSE => ready' = ready,
         \A u \in Tasks \ {t} : pc'[u] = pc[u] /\ want'[u] = want[u]
  PROVE  Lines'
<1>1. ASSUME NEW m \in Mutexes PROVE Standing(m)'
  <2>1. t \notin waiting[m] /\ waiting[m] \subseteq Tasks
    BY RunningNotInLine DEF TypeOK
  <2> QED
    BY <2>1 DEF Lines, Standing
<1>2. ~pendsv' => current' \in ready'
  BY DEF Lines, At, TypeOK
<1> QED
  BY <1>1, <1>2 DEF Lines

LEMMA LinesRemove ==
  ASSUME TypeOK, Lines, NEW S \in SUBSET Tasks, RemoveItems(S),
         ready' \subseteq ready \union S, UNCHANGED <<pc, want>>
  PROVE  \A m \in Mutexes : Standing(m)'
<1> SUFFICES ASSUME NEW m \in Mutexes, NEW t \in waiting'[m]
             PROVE  /\ pc'[t] = "take" /\ want'[t] = m /\ t \notin ready'
                    /\ ahead'[t] \subseteq waiting'[m] \ {t}
                    /\ \A u \in ahead'[t] : ahead'[u] \subseteq ahead'[t]
                    /\ \A u \in waiting'[m] \ {t} : u \in ahead'[t] \/ t \in ahead'[u]
  BY DEF Standing
<1>1. waiting'[m] = waiting[m] \ S /\ waiting[m] \subseteq Tasks
  BY DEF RemoveItems, TypeOK
<1>2. \A u \in waiting'[m] : ahead'[u] = ahead[u] \ S
  BY <1>1 DEF RemoveItems
<1>3. Standing(m)
  BY DEF Lines
<1>4. pc'[t] = "take" /\ want'[t] = m /\ t \notin ready'
  BY <1>1, <1>3 DEF Standing
<1>5. ahead'[t] \subseteq waiting'[m] \ {t}
  BY <1>1, <1>2, <1>3 DEF Standing
<1>6. \A u \in ahead'[t] : ahead'[u] \subseteq ahead'[t]
  BY <1>1, <1>2, <1>3, <1>5 DEF Standing
<1>7. \A u \in waiting'[m] \ {t} : u \in ahead'[t] \/ t \in ahead'[u]
  BY <1>1, <1>2, <1>3 DEF Standing
<1> QED
  BY <1>4, <1>5, <1>6, <1>7

LEMMA LinesBlock ==
  ASSUME TypeOK, Lines, NEW t \in Tasks, NEW m \in Mutexes, want[t] = m, Block(t)
  PROVE  Lines'
<1> DEFINE line == waiting[m]
           before == {v \in line : \A u \in ahead[v] \union {v} : prio[u] >= prio[t]}
<1>1. At(t, "block") /\ line \subseteq Tasks
  BY DEF Block, TypeOK
<1>2. /\ waiting' = [waiting EXCEPT ![m] = line \union {t}]
      /\ ahead' = [u \in Tasks |-> CASE u = t               -> before
                                     [] u \in line \ before -> ahead[u] \union {t}
                                     [] OTHER               -> ahead[u]]
      /\ pc' = [pc EXCEPT ![t] = "take"]
      /\ ready' = ready \ {t} /\ pendsv' = TRUE /\ UNCHANGED want
  BY DEF Block, InsertByPriority
<1>3. ASSUME NEW k \in Mutexes PROVE t \notin waiting[k] /\ waiting[k] \subseteq Tasks
  BY <1>1, RunningNotInLine DEF TypeOK
<1>4. ASSUME NEW k \in Mutexes, k # m PROVE Standing(k)'
  <2>1. Standing(k) /\ waiting'[k] = waiting[k]
    BY <1>2, <1>4 DEF Lines, TypeOK
  <2>2. \A u \in waiting[k] : u \notin line /\ u # t
    BY <1>1, <1>3, <1>4 DEF Lines, Standing
  <2>3. \A u \in waiting[k] : ahead'[u] = ahead[u]
    BY <1>2, <1>3, <2>2
  <2>4. \A u \in waiting[k] : pc'[u] = pc[u]
    BY <1>2, <1>3, <2>2 DEF TypeOK
  <2>5. \A u \in waiting[k] : pc'[u] = "take" /\ want'[u] = k /\ u \notin ready'
    BY <1>2, <2>1, <2>4 DEF Standing
  <2>6. \A u \in waiting[k] : ahead'[u] \subseteq waiting[k] \ {u}
    BY <2>1, <2>3 DEF Standing
  <2>7. \A u \in waiting[k] : \A v \in ahead'[u] : ahead'[v] \subseteq ahead'[u]
    BY <2>1, <2>3, <2>6 DEF Standing
  <2>8. \A u \in waiting[k] : \A v \in waiting[k] \ {u} : v \in ahead'[u] \/ u \in ahead'[v]
    BY <2>1, <2>3 DEF Standing
  <2> QED
    BY <2>1, <2>5, <2>6, <2>7, <2>8 DEF Standing
<1>5. Standing(m)'
  <2>1. Standing(m) /\ waiting'[m] = line \union {t} /\ t \notin line
    BY <1>1, <1>2, <1>3 DEF Lines, TypeOK
  <2>2. ahead'[t] = before /\ before \subseteq line
    BY <1>2, <2>1
  <2>3. \A u \in before : ahead'[u] = ahead[u] /\ ahead[u] \subseteq before
    BY <1>1, <1>2, <2>1 DEF Standing
  <2>4. \A u \in line \ before : ahead'[u] = ahead[u] \union {t}
    BY <1>1, <1>2, <2>1
  <2>5. \A u \in line \ before : before \subseteq ahead[u]
    <3> SUFFICES ASSUME NEW u \in line \ before, NEW v \in before PROVE v \in ahead[u]
      OBVIOUS
    <3>1. u # v /\ (v \in ahead[u] \/ u \in ahead[v])
      BY <2>1 DEF Standing
    <3> QED
      BY <2>3, <3>1
  <2>6. ASSUME NEW v \in waiting'[m] PROVE pc'[v] = "take" /\ want'[v] = m /\ v \notin ready'
    BY <1>1, <1>2, <2>1 DEF Standing, TypeOK
  <2>7. ASSUME NEW v \in waiting'[m] PROVE ahead'[v] \subseteq waiting'[m] \ {v}
    BY <2>1, <2>2, <2>3, <2>4 DEF Standing
  <2>8. ASSUME NEW v \in waiting'[m], NEW u \in ahead'[v] PROVE ahead'[u] \subseteq ahead'[v]
    <3>1. CASE v = t
      BY <2>2, <2>3, <3>1
    <3>2. CASE v \in before
      BY <2>1, <2>3, <3>2 DEF Standing
    <3>3. CASE v \in line \ before /\ u = t
      BY <2>2, <2>4, <2>5, <3>3
    <3>4. CASE v \in line \ before /\ u # t
      <4>1. u \in line /\ ahead[u] \subseteq ahead[v]
        BY <2>1, <2>4, <3>4, <2>8 DEF Standing
      <4>2. ahead'[u] \subseteq ahead[u] \union {t}
        BY <2>3, <2>4, <4>1
      <4> QED
        BY <2>4, <3>4, <4>1, <4>2
    <3> QED
      BY <2>1, <3>1, <3>2, <3>3, <3>4
  <2>9. ASSUME NEW v \in waiting'[m], NEW u \in waiting'[m] \ {v}
        PROVE  u \in ahead'[v] \/ v \in ahead'[u]
    <3>1. \A w \in line : ahead[w] \subseteq ahead'[w]
      BY <2>3, <2>4
    <3>2. CASE u \in line /\ v \in line
      BY <2>1, <3>1, <3>2 DEF Standing
    <3>3. CASE u = t \/ v = t
      BY <2>1, <2>2, <2>4, <3>3
    <3> QED
      BY <2>1, <3>2, <3>3
  <2> QED
    BY <2>6, <2>7, <2>8, <2>9 DEF Standing
<1> QED
  BY <1>2, <1>4, <1>5 DEF Lines

LEMMA TryTakeLeavesLines ==
  ASSUME TypeOK, NEW t \in Tasks, NEW m, NEW w, TryTake(t, m, w)
  PROVE  /\ UNCHANGED <<waiting, ahead, prio>>
         /\ \A u \in Tasks \ {t} : pc'[u] = pc[u] /\ want'[u] = want[u]
         /\ \A k \in Mutexes : holder[k] # NoTask => holder'[k] = holder[k]
BY DEF TryTake, Return, TypeOK, mutexVars

LEMMA LinesNext == TypeOK /\ CallsHaveMutex /\ Lines /\ [Next]_vars => Lines'
<1> SUFFICES ASSUME TypeOK, CallsHaveMutex, Lines, [Next]_vars PROVE Lines'
  OBVIOUS
<1>1. ASSUME NEW t \in Tasks, NEW m \in Mutexes, NEW w \in WaitSet, Take(t, m, w)
      PROVE  Lines'
  BY <1>1, TryTakeLeavesLines, LinesLeftAlone DEF Take, schedVars
<1>2. ASSUME NEW t \in Tasks, TakeAgain(t) PROVE Lines'
  BY <1>2, TryTakeLeavesLines, LinesLeftAlone DEF TakeAgain, schedVars
<1>3. ASSUME NEW t \in Tasks, TimedOut(t) PROVE Lines'
  <2>1. \A u \in Tasks \ {t} : pc'[u] = pc[u] /\ want'[u] = want[u]
    BY <1>3 DEF TimedOut, TypeOK
  <2> QED
    BY <1>3, <2>1, LinesLeftAlone DEF TimedOut, mutexVars, schedVars
<1>4. ASSUME NEW t \in Tasks, Retry(t) PROVE Lines'
  <2>1. \A u \in Tasks \ {t} : pc'[u] = pc[u] /\ want'[u] = want[u]
    BY <1>4 DEF Retry, Goto, TypeOK
  <2> QED
    BY <1>4, <2>1, LinesLeftAlone DEF Retry, mutexVars, schedVars
<1>5. ASSUME NEW t \in Tasks, Block(t) PROVE Lines'
  <2>1. want[t] \in Mutexes
    BY <1>5 DEF Block, At, CallsHaveMutex
  <2> QED
    BY <1>5, <2>1, LinesBlock
<1>6. ASSUME NEW t \in Tasks, Recheck(t) PROVE Lines'
  <2>1. \A u \in Tasks \ {t} : pc'[u] = pc[u] /\ want'[u] = want[u]
    BY <1>6 DEF Recheck, Goto, Return, TypeOK
  <2> QED
    BY <1>6, <2>1, LinesLeftAlone DEF Recheck, mutexVars, schedVars
<1>7. ASSUME NEW t \in Tasks, Disinherit(t) PROVE Lines'
  <2>1. \A u \in Tasks \ {t} : pc'[u] = pc[u] /\ want'[u] = want[u]
    BY <1>7 DEF Disinherit, Return, TypeOK
  <2> QED
    BY <1>7, <2>1, LinesLeftAlone DEF Disinherit, schedVars
<1>8. ASSUME NEW t \in Tasks, NEW m \in Mutexes, Give(t, m) PROVE Lines'
  <2>1. Head(m) \in SUBSET Tasks
    BY DEF Head, TypeOK
  <2>2. \A k \in Mutexes : Standing(k)'
    BY <1>8, <2>1, LinesRemove DEF Give, takeVars
  <2>3. current' \in ready'
    BY <1>8 DEF Give, Lines, At
  <2> QED
    BY <2>2, <2>3 DEF Lines
<1>9. ASSUME NEW t \in Tasks, Delay(t) PROVE Lines'
  <2>1. ready' \subseteq ready /\ pendsv' = TRUE
    BY <1>9 DEF Delay
  <2> QED
    BY <1>9, <2>1, LinesLeftAlone DEF Delay, mutexVars, takeVars
<1>10. ASSUME NEW E \in SUBSET MayExpire, Tick(E) PROVE Lines'
  <2> DEFINE woken == timed \intersect (expired \union E)
  <2>1. \A k \in Mutexes : Standing(k)'
    <3>1. woken \in SUBSET Tasks
      BY DEF TypeOK
    <3>2. RemoveItems(woken) /\ ready' = ready \union woken /\ UNCHANGED <<pc, want>>
      BY <1>10 DEF Tick
    <3> QED
      BY <3>1, <3>2, LinesRemove
  <2>2. ~pendsv' => current' \in ready'
    BY <1>10 DEF Tick, Lines, TypeOK
  <2> QED
    BY <2>1, <2>2 DEF Lines
<1>11. CASE SwitchContext
  BY <1>11 DEF SwitchContext, Highest, Lines, Standing, mutexVars, takeVars
<1>12. CASE UNCHANGED vars
  BY <1>12 DEF vars, mutexVars, schedVars, takeVars, Lines, Standing
<1> QED
  BY <1>1, <1>2, <1>3, <1>4, <1>5, <1>6, <1>7, <1>8, <1>9, <1>10, <1>11, <1>12
     DEF Next, TaskStep

\* A line that is not empty has a head, and the head is ahead of everyone.
LEMMA HeadLemma ==
  ASSUME TypeOK, NEW m \in Mutexes, Standing(m), waiting[m] # {}
  PROVE  \E h \in Head(m) : \A t \in waiting[m] \ {h} : h \in ahead[t]
<1> DEFINE T == {ahead[t] : t \in waiting[m]}
<1>1. waiting[m] \subseteq Tasks
  BY DEF TypeOK
<1>2. T \subseteq FiniteSubsetsOf(Tasks) /\ T # {}
  BY <1>1, TasksAssumption, FS_Subset DEF FiniteSubsetsOf, TypeOK
<1>3. PICK x \in T : \A y \in T : ~ (<<y, x>> \in StrictSubsetOrdering(Tasks))
  BY <1>2, FS_StrictSubsetOrderingWellFounded, WFMin
<1>4. PICK h \in waiting[m] : x = ahead[h]
  BY <1>3
<1>5. ahead[h] = {}
  <2> SUFFICES ASSUME NEW u \in ahead[h] PROVE FALSE
    OBVIOUS
  <2>1. u \in waiting[m] /\ u \notin ahead[u] /\ ahead[u] \subseteq ahead[h]
    BY DEF Standing
  <2>2. ahead[u] \in SUBSET Tasks /\ ahead[h] \in SUBSET Tasks /\ ahead[u] # ahead[h]
    BY <1>1, <2>1 DEF TypeOK
  <2>3. <<ahead[u], ahead[h]>> \in StrictSubsetOrdering(Tasks)
    BY <2>1, <2>2 DEF StrictSubsetOrdering
  <2> QED
    BY <1>3, <1>4, <2>1, <2>3
<1> QED
  BY <1>5 DEF Standing, Head

\* After a timeout the holder of m does not fall below the tasks of an ordered
\* line.
LEMMA DisinheritKeepsUp ==
  ASSUME TypeOK, NEW m \in Mutexes, NEW h \in Tasks, Standing(m), InOrder(m),
         held[h] = 1, DisinheritAfterTimeout(h, m), NEW t \in waiting[m]
  PROVE  prio'[h] >= prio[t]
<1> DEFINE P == {Base[h]} \union {prio[w] : w \in Head(m)}
<1>1. PICK p \in P : (\A q \in P : q <= p) /\ prio' = [prio EXCEPT ![h] = p]
  BY DEF DisinheritAfterTimeout
<1>2. PICK w \in Head(m) : \A u \in waiting[m] \ {w} : w \in ahead[u]
  BY HeadLemma
<1>3. prio'[h] = p /\ prio[w] \in Nat /\ prio[t] \in Nat /\ p \in Nat
  <2>1. Head(m) \subseteq Tasks /\ Base[h] \in Nat /\ t \in Tasks
    BY NumbersLemma DEF Head, TypeOK
  <2>2. \A u \in Head(m) : prio[u] \in Nat
    BY <2>1 DEF TypeOK
  <2> QED
    BY <1>1, <2>1, <2>2 DEF TypeOK
<1>4. prio[w] <= p
  BY <1>1
<1>5. prio[w] >= prio[t]
  BY <1>2, <1>3 DEF InOrder
<1> QED
  BY <1>3, <1>4, <1>5

\* One mutex through one step: m and its holder h.
LEMMA KeepsUpStep ==
  ASSUME TypeOK, CallsHaveMutex, PriorityHasACause, Lines, [Next]_vars,
         NEW m \in Mutexes, NEW h \in Tasks, holder[m] = h, holder'[m] = h, InOrder(m),
         \A t \in waiting[m] : prio'[t] = prio[t],
         NEW t \in waiting'[m], prio'[t] > prio'[h]
  PROVE  Outranked(m)
<1>1. prio[h] \in Nat /\ Standing(m) /\ waiting[m] \subseteq Tasks
      /\ \A u \in Tasks : prio[u] \in Nat
  BY DEF TypeOK, Lines
\* It is enough that the line has not grown and the holder has not fallen.
<1>2. ASSUME waiting'[m] \subseteq waiting[m], prio'[h] >= prio[h], prio'[h] \in Nat
      PROVE  Outranked(m)
  <2>1. t \in waiting[m] /\ prio[t] > prio'[h] /\ prio[t] \in Nat
    BY <1>1, <1>2
  <2>2. prio[t] > prio[h]
    BY <1>1, <1>2, <2>1
  <2> QED
    BY <2>1, <2>2 DEF Outranked
<1>3. ASSUME UNCHANGED <<waiting, prio>> PROVE Outranked(m)
  BY <1>1, <1>2, <1>3
<1>4. ASSUME NEW u \in Tasks, NEW k \in Mutexes, NEW w \in WaitSet, Take(u, k, w)
      PROVE  Outranked(m)
  BY <1>3, <1>4, TryTakeLeavesLines DEF Take
<1>5. ASSUME NEW u \in Tasks, TakeAgain(u) PROVE Outranked(m)
  BY <1>3, <1>5, TryTakeLeavesLines DEF TakeAgain
<1>6. ASSUME NEW u \in Tasks, Block(u) PROVE Outranked(m)
  <2>1. want[u] \in Mutexes /\ holder[want[u]] \in Tasks
    BY <1>6 DEF Block, At, CallsHaveMutex, TypeOK
  <2>2. prio' = [prio EXCEPT ![holder[want[u]]] = IF @ < prio[u] THEN prio[u] ELSE @]
        /\ waiting' = [waiting EXCEPT ![want[u]] = @ \union {u}]
    BY <1>6 DEF Block, Inherit
  <2>3. prio'[h] >= prio[h] /\ prio'[h] \in Nat
    BY <1>1, <2>1, <2>2 DEF TypeOK
  <2>4. CASE want[u] # m \/ t # u
    <3>1. t \in waiting[m]
      BY <2>1, <2>2, <2>4 DEF TypeOK
    <3>2. prio[t] > prio'[h] /\ prio[t] \in Nat
      BY <1>1, <3>1
    <3>3. prio[t] > prio[h]
      BY <1>1, <2>3, <3>2
    <3> QED
      BY <3>1, <3>3 DEF Outranked
  <2>5. CASE want[u] = m /\ t = u
    <3>1. prio'[h] >= prio[u]
      BY <1>1, <2>2, <2>5 DEF TypeOK
    <3>2. prio'[u] = prio[u] \/ u = h
      BY <2>2, <2>5 DEF TypeOK
    <3> QED
      BY <1>1, <2>3, <2>5, <3>1, <3>2
  <2> QED
    BY <2>4, <2>5
<1>7. ASSUME NEW u \in Tasks, Disinherit(u) PROVE Outranked(m)
  <2>1. want[u] \in Mutexes /\ UNCHANGED waiting
    BY <1>7 DEF Disinherit, At, CallsHaveMutex
  <2>2. CASE holder[want[u]] = NoTask
    BY <1>3, <1>7, <2>1, <2>2 DEF Disinherit
  <2>3. CASE holder[want[u]] # NoTask
    <3> DEFINE g == holder[want[u]]
    <3>1. g \in Tasks /\ DisinheritAfterTimeout(g, want[u])
      BY <1>7, <2>1, <2>3 DEF Disinherit, TypeOK
    <3>2. CASE held[g] # 1
      BY <1>3, <2>1, <3>1, <3>2, DisinheritType
    <3>3. CASE g # h
      <4>1. prio'[h] = prio[h]
        BY <2>1, <3>1, <3>3, DisinheritType
      <4> QED
        BY <1>1, <1>2, <2>1, <4>1
    <3>4. CASE g = h /\ held[g] = 1
      <4>1. want[u] = m
        BY <2>1, <3>4, HolderLemma
      <4>2. prio'[h] >= prio[t] /\ prio'[t] = prio[t]
        BY <1>1, <2>1, <3>1, <3>4, <4>1, DisinheritKeepsUp
      <4>3. prio'[h] \in Nat /\ prio[t] \in Nat
        BY <1>1, <2>1, <3>1, DisinheritType
      <4> QED
        BY <4>2, <4>3
    <3> QED
      BY <3>2, <3>3, <3>4
  <2> QED
    BY <2>2, <2>3
<1>8. ASSUME NEW u \in Tasks, NEW k \in Mutexes, Give(u, k) PROVE Outranked(m)
  <2>1. waiting'[m] \subseteq waiting[m]
    BY <1>8 DEF Give, RemoveItems
  <2>2. holder[k] = u /\ holder' = [holder EXCEPT ![k] = NoTask]
        /\ prio' = [prio EXCEPT ![u] = IF Lowers(u) THEN Base[u] ELSE prio[u]]
    BY <1>8 DEF Give
  <2>3. k # m
    BY <2>2, NumbersLemma DEF TypeOK
  <2>4. u = h => ~Lowers(u)
    BY <2>2, <2>3, HolderLemma DEF Lowers
  <2>5. prio'[h] = prio[h]
    BY <2>2, <2>4 DEF TypeOK
  <2> QED
    BY <1>1, <1>2, <2>1, <2>5
<1>9. ASSUME NEW u \in Tasks, TimedOut(u) \/ Retry(u) \/ Recheck(u) \/ Delay(u)
      PROVE  Outranked(m)
  BY <1>3, <1>9 DEF TimedOut, Retry, Recheck, Delay, mutexVars
<1>10. ASSUME NEW E \in SUBSET MayExpire, Tick(E) PROVE Outranked(m)
  <2>1. waiting'[m] \subseteq waiting[m] /\ UNCHANGED prio
    BY <1>10 DEF Tick, RemoveItems
  <2> QED
    BY <1>1, <1>2, <2>1
<1>11. CASE SwitchContext
  BY <1>3, <1>11 DEF SwitchContext, mutexVars
<1>12. CASE UNCHANGED vars
  BY <1>3, <1>12 DEF vars, mutexVars
<1> QED
  BY <1>4, <1>5, <1>6, <1>7, <1>8, <1>9, <1>10, <1>11, <1>12 DEF Next, TaskStep

\* For every set of tasks and mutexes, nested or not: while a task holds a mutex
\* it does not come to be outranked by its ordered line.
THEOREM HolderKeepsUpCorrect == Spec => HolderKeepsUp
<1> DEFINE IInv == TypeOK /\ CallsHaveMutex /\ PriorityHasACause /\ Lines
           Step == \A m \in Mutexes :
                     /\ holder[m] # NoTask /\ holder'[m] = holder[m]
                     /\ InOrder(m)
                     /\ \A t \in waiting[m] : prio'[t] = prio[t]
                     => (Outranked(m)' => Outranked(m))
<1>1. Init => IInv
  BY TypeInit, CauseInit, LinesInit
<1>2. IInv /\ [Next]_vars => IInv'
  BY TypeNext, CauseNext, LinesNext
<1>3. IInv /\ [Next]_vars => [Step]_vars
  <2> SUFFICES ASSUME IInv, [Next]_vars, NEW m \in Mutexes,
                      holder[m] # NoTask, holder'[m] = holder[m], InOrder(m),
                      \A t \in waiting[m] : prio'[t] = prio[t], Outranked(m)'
               PROVE  Outranked(m)
    OBVIOUS
  <2>1. holder[m] \in Tasks
    BY DEF TypeOK
  <2>2. PICK t \in waiting'[m] : prio'[t] > prio'[holder[m]]
    BY DEF Outranked
  <2> QED
    BY <2>1, <2>2, KeepsUpStep
<1> QED
  BY <1>1, <1>2, <1>3, PTL DEF Spec, HolderKeepsUp
=============================================================================
