-------------------------- MODULE KernelTickProofs --------------------------
(***************************************************************************)
(* Proofs about KernelTick, for every number of tasks and every width of   *)
(* the tick count and of the count of its overflows.                       *)
(***************************************************************************)
EXTENDS KernelTick, WellFoundedInduction, TLAPS

\* A task inside a suspended section holds the scheduler; the events and the
\* ticks that are held back are those of a suspended scheduler.
Sections ==
  /\ \A t \in Tasks : pc[t] \in {"delay", "check", "place", "failed"} => section = t /\ ~resuming
  /\ resuming => section # NoTask
  /\ section = NoTask => pendingReady = {} /\ xPendedTicks = 0
  /\ \A t \in Tasks : pc[t] \in {"delay", "suspend", "check"} => ticks[t] > 0
  /\ \A t \in Tasks : pc[t] = "failed" => ticks[t] = 0

Lists == delayed \intersect overflow = {} /\ NextWakeupNotMissed

\* What is left of a call's time is what it had left when it last looked, less
\* the ticks since then; and it looks in time.
Times ==
  \A t \in Tasks : Timed(t) =>
    /\ due[t] = ticks[t] - Ticks(t)
    /\ Ticks(t) >= 0 /\ Ticks(t) + xPendedTicks <= Wrap

LEMMA NumbersLemma ==
  /\ Wrap \in Nat /\ Wrap > 1 /\ WrapOverflows \in Nat /\ WrapOverflows > 1
  /\ MaxPended \in Nat /\ NoTask \notin Tasks
  /\ portMAX_DELAY = Wrap - 1 /\ Time = 0..Wrap - 1
BY WrapAssumption, OverflowAssumption, MaxPendedAssumption, TasksAssumption
   DEF portMAX_DELAY, Time

LEMMA PlusLemma ==
  ASSUME NEW a \in Time, NEW b \in Time
  PROVE  Plus(a, b) \in Time /\ Minus(a, b) \in Time
BY NumbersLemma DEF Plus, Minus

LEMMA OneMoreLemma ==
  ASSUME NEW n \in 0..WrapOverflows - 1
  PROVE  OneMore(n) \in 0..WrapOverflows - 1 /\ OneMore(n) # n
BY NumbersLemma DEF OneMore

LEMMA LessLemma ==
  ASSUME NEW x \in Nat, NEW y \in Nat, y < x
  PROVE  <<y, x>> \in OpToRel(<, Nat)
BY SMT DEF OpToRel

\* The earliest wake time exists, and is no later than any other.
LEMMA FirstWakeLemma ==
  ASSUME TypeOK, NEW list \in SUBSET Tasks
  PROVE  FirstWake(list) \in Time /\ \A t \in list : FirstWake(list) <= wake[t]
<1>1. CASE list = {}
  BY <1>1, NumbersLemma DEF FirstWake
<1>2. CASE list # {}
  <2> DEFINE W == {wake[t] : t \in list}
  <2>1. W # {} /\ W \subseteq Time
    BY <1>2 DEF TypeOK
  <2>2. W \subseteq Nat
    BY <2>1, NumbersLemma
  <2>3. PICK x \in W : \A y \in W : ~(<<y, x>> \in OpToRel(<, Nat))
    BY <2>1, <2>2, NatLessThanWellFounded, WFMin
  <2>4. ASSUME NEW y \in W PROVE x <= y
    <3>1. ~(y < x)
      BY <2>2, <2>3, LessLemma, Zenon
    <3> QED
      BY <2>2, <3>1
  <2>5. \A t \in list : wake[t] \in W
    OBVIOUS
  <2>6. \E y \in W : \A t \in list : y <= wake[t]
    BY <2>4, <2>5
  <2>7. FirstWake(list) = CHOOSE y \in W : \A t \in list : y <= wake[t]
    BY <1>2 DEF FirstWake
  <2> QED
    BY <2>1, <2>6, <2>7
<1> QED
  BY <1>1, <1>2

\* A task that goes to sleep leaves the lists in order.
LEMMA AddLemma ==
  ASSUME TypeOK, Lists, NEW t \in Tasks, NEW n \in 1..portMAX_DELAY,
         t \notin delayed \union overflow, AddToDelayedList(t, n), UNCHANGED xTickCount
  PROVE  /\ wake' \in [Tasks -> Time] /\ xNextTaskUnblockTime' \in Time
         /\ delayed' \in SUBSET Tasks /\ overflow' \in SUBSET Tasks
         /\ Lists'
<1> DEFINE w == Plus(xTickCount, n)
<1>1. n \in Time /\ w \in Time /\ xTickCount \in Time
  <2>1. n \in Time /\ xTickCount \in Time
    BY NumbersLemma DEF TypeOK
  <2> QED
    BY <2>1, PlusLemma
<1>2. wake' = [wake EXCEPT ![t] = w]
  BY DEF AddToDelayedList
<1>3. \A u \in delayed \union overflow : wake'[u] = wake[u]
  BY <1>2 DEF TypeOK
<1>4. wake'[t] = w
  BY <1>2 DEF TypeOK
<1>5. CASE w < xTickCount
  <2>1. overflow' = overflow \union {t} /\ UNCHANGED <<delayed, xNextTaskUnblockTime>>
    BY <1>5 DEF AddToDelayedList
  <2> QED
    BY <1>1, <1>2, <1>3, <1>4, <1>5, <2>1 DEF TypeOK, Lists, NextWakeupNotMissed
<1>6. CASE ~(w < xTickCount)
  <2>1. /\ delayed' = delayed \union {t} /\ UNCHANGED overflow
        /\ xNextTaskUnblockTime' = IF w < xNextTaskUnblockTime THEN w ELSE xNextTaskUnblockTime
    BY <1>6 DEF AddToDelayedList
  <2>2. w > xTickCount
    BY <1>1, <1>6, NumbersLemma DEF Plus
  <2>3. xNextTaskUnblockTime' \in Time /\ xNextTaskUnblockTime' <= w
        /\ xNextTaskUnblockTime' <= xNextTaskUnblockTime
    BY <1>1, <2>1, NumbersLemma DEF TypeOK
  <2>4. \A u \in delayed : wake[u] \in Time /\ xNextTaskUnblockTime <= wake[u] /\ wake[u] > xTickCount
    BY DEF TypeOK, Lists, NextWakeupNotMissed
  <2>5. \A u \in delayed' : xNextTaskUnblockTime' <= wake'[u] /\ xTickCount' < wake'[u]
    <3> SUFFICES ASSUME NEW u \in delayed'
                 PROVE  xNextTaskUnblockTime' <= wake'[u] /\ xTickCount' < wake'[u]
      OBVIOUS
    <3>1. CASE u = t
      BY <1>4, <2>2, <2>3, <3>1
    <3>2. CASE u \in delayed
      BY <1>1, <1>3, <2>3, <2>4, <3>2, NumbersLemma DEF TypeOK
    <3> QED
      BY <2>1, <3>1, <3>2
  <2>6. \A u \in overflow' : wake'[u] < xTickCount'
    BY <1>3, <2>1 DEF Lists, NextWakeupNotMissed
  <2> QED
    BY <1>1, <1>2, <2>1, <2>3, <2>5, <2>6 DEF TypeOK, Lists, NextWakeupNotMissed
<1> QED
  BY <1>5, <1>6

-----------------------------------------------------------------------------
(* One tick *)

\* What is left of a sleep, when no event waits for the scheduler.
LEMMA LeftLemma ==
  ASSUME TypeOK, Lists, pendingReady = {}, NEW t \in Tasks
  PROVE  /\ t \in delayed => Left(t) = wake[t] - xTickCount /\ Left(t) > 0
         /\ t \in overflow => Left(t) = wake[t] + Wrap - xTickCount /\ Left(t) > 0
         /\ t \notin delayed \union overflow => Left(t) = 0
<1>1. wake[t] \in 0..Wrap - 1 /\ xTickCount \in 0..Wrap - 1 /\ Wrap \in Nat
  BY NumbersLemma DEF TypeOK
<1>2. t \in delayed => t \notin overflow /\ xTickCount < wake[t]
  BY DEF Lists, NextWakeupNotMissed
<1>3. Left(t) = IF t \in delayed THEN wake[t] - xTickCount
                ELSE IF t \in overflow THEN wake[t] + Wrap - xTickCount ELSE 0
  BY <1>2 DEF Left
<1> QED
  BY <1>1, <1>2, <1>3

LEMMA IncrementTickLemma ==
  ASSUME TypeOK, Lists, pendingReady = {}, IncrementTick
  PROVE  /\ xTickCount' \in Time /\ xNumOfOverflows' \in 0..WrapOverflows - 1
         /\ xNextTaskUnblockTime' \in Time /\ wake' \in [Tasks -> Time]
         /\ delayed' \in SUBSET Tasks /\ overflow' \in SUBSET Tasks
         /\ waiting' \in SUBSET Tasks
         /\ Lists'
         /\ \A t \in Tasks : Left(t)' = IF Left(t) > 0 THEN Left(t) - 1 ELSE 0
<1> DEFINE now == Plus(xTickCount, 1)
           list == IF now = 0 THEN overflow ELSE delayed
           other == IF now = 0 THEN delayed ELSE overflow
           next == IF now = 0 THEN FirstWake(overflow) ELSE xNextTaskUnblockTime
           woken == IF now >= next THEN {t \in list : wake[t] <= now} ELSE {}
<1>1. xTickCount \in Time /\ now \in Time /\ now = (IF xTickCount = Wrap - 1 THEN 0 ELSE xTickCount + 1)
  BY NumbersLemma DEF TypeOK, Plus
<1>2. /\ xTickCount' = now
      /\ xNumOfOverflows' = IF now = 0 THEN OneMore(xNumOfOverflows) ELSE xNumOfOverflows
      /\ delayed' = list \ woken /\ overflow' = other
      /\ wake' = [t \in Tasks |-> IF t \in woken THEN 0 ELSE wake[t]]
      /\ waiting' = waiting \ woken
      /\ xNextTaskUnblockTime' = IF now >= next THEN FirstWake(list \ woken) ELSE next
      /\ pendingReady' = {}
  BY DEF IncrementTick
<1>3. /\ list \in SUBSET Tasks /\ other \in SUBSET Tasks /\ list \intersect other = {}
      /\ waiting \in SUBSET Tasks /\ \A t \in Tasks : wake[t] \in Time /\ wake[t] \in Int
      /\ next \in Time /\ next \in Int /\ now \in Int /\ xTickCount \in Nat /\ Wrap \in Int
  BY <1>1, FirstWakeLemma, NumbersLemma DEF TypeOK, Lists
<1>4. \A t \in list : next <= wake[t]
  BY FirstWakeLemma DEF TypeOK, Lists, NextWakeupNotMissed
<1>5. now = 0 => delayed = {}
  BY <1>1, <1>3, NumbersLemma DEF Lists, NextWakeupNotMissed, TypeOK
<1>6. \A t \in other : now # 0 /\ wake[t] < xTickCount /\ wake[t] < now
  BY <1>1, <1>3, <1>5 DEF Lists, NextWakeupNotMissed
<1>7. \A t \in list : now # 0 => xTickCount < wake[t] /\ now <= wake[t]
  BY <1>1, <1>3 DEF Lists, NextWakeupNotMissed
<1>8. \A t \in list : now = 0 => now <= wake[t]
  BY <1>3, NumbersLemma
<1>9. woken = {t \in list : wake[t] = now}
  BY <1>3, <1>4, <1>7, <1>8
<1> HIDE DEF now, list, other, next, woken
<1>10. /\ FirstWake(list \ woken) \in Time
       /\ \A t \in list \ woken : FirstWake(list \ woken) <= wake[t]
  BY <1>3, FirstWakeLemma
<1>11. 0 \in Time
  BY NumbersLemma
<1>12. /\ xTickCount' \in Time /\ xNumOfOverflows' \in 0..WrapOverflows - 1
       /\ xNextTaskUnblockTime' \in Time /\ wake' \in [Tasks -> Time]
       /\ delayed' \in SUBSET Tasks /\ overflow' \in SUBSET Tasks
       /\ waiting' \in SUBSET Tasks
  BY <1>1, <1>2, <1>3, <1>10, <1>11, OneMoreLemma DEF TypeOK
<1>13. \A t \in Tasks : t \notin woken => wake'[t] = wake[t]
  BY <1>2
<1>14. \A t \in delayed' : xNextTaskUnblockTime' <= wake'[t] /\ xTickCount' < wake'[t]
  <2> SUFFICES ASSUME NEW t \in delayed'
               PROVE  xNextTaskUnblockTime' <= wake'[t] /\ xTickCount' < wake'[t]
    OBVIOUS
  <2>1. t \in list /\ t \notin woken /\ t \in Tasks
    BY <1>2, <1>3
  <2>2. wake'[t] = wake[t] /\ now < wake[t]
    BY <1>3, <1>7, <1>8, <1>9, <1>13, <2>1
  <2> QED
    BY <1>2, <1>4, <1>10, <2>1, <2>2
<1>15. \A t \in overflow' : wake'[t] < xTickCount'
  BY <1>2, <1>3, <1>6, <1>9, <1>13
<1>16. Lists'
  BY <1>2, <1>3, <1>14, <1>15 DEF Lists, NextWakeupNotMissed
<1>17. ASSUME NEW t \in Tasks PROVE Left(t)' = IF Left(t) > 0 THEN Left(t) - 1 ELSE 0
  <2>1. Left(t)' = IF t \in delayed' THEN wake'[t] - xTickCount'
                   ELSE IF t \in overflow' THEN wake'[t] + Wrap - xTickCount' ELSE 0
    BY <1>2, <1>16 DEF Left, Lists
  <2>2. CASE t \in woken
    <3>1. t \in list /\ wake[t] = now /\ t \notin delayed' /\ t \notin overflow'
      BY <1>2, <1>3, <1>9, <2>2
    <3>2. Left(t) = 1
      <4>1. CASE now = 0
        <5>1. t \in overflow /\ xTickCount = Wrap - 1
          BY <1>1, <1>3, <3>1, <4>1 DEF list
        <5> QED
          BY <1>3, <3>1, <4>1, <5>1, LeftLemma
      <4>2. CASE now # 0
        <5>1. t \in delayed /\ now = xTickCount + 1
          BY <1>1, <3>1, <4>2 DEF list
        <5> QED
          BY <1>3, <3>1, <5>1, LeftLemma
      <4> QED
        BY <4>1, <4>2
    <3> QED
      BY <2>1, <3>1, <3>2
  <2>3. CASE t \in list \ woken
    <3>1. t \in delayed' /\ wake'[t] = wake[t] /\ xTickCount' = now
      BY <1>2, <1>13, <2>3
    <3>2. CASE now = 0
      <4>1. t \in overflow /\ xTickCount = Wrap - 1
        BY <1>1, <1>3, <2>3, <3>2 DEF list
      <4> QED
        BY <1>3, <2>1, <3>1, <3>2, <4>1, LeftLemma
    <3>3. CASE now # 0
      <4>1. t \in delayed /\ now = xTickCount + 1
        BY <1>1, <2>3, <3>3 DEF list
      <4> QED
        BY <1>3, <2>1, <3>1, <4>1, LeftLemma
    <3> QED
      BY <3>2, <3>3
  <2>4. CASE t \in other
    <3>1. now # 0 /\ t \in overflow /\ now = xTickCount + 1
      BY <1>1, <1>6, <2>4 DEF other
    <3>2. t \in overflow' /\ t \notin delayed' /\ wake'[t] = wake[t] /\ xTickCount' = now
      BY <1>2, <1>3, <1>9, <1>13, <2>4
    <3> QED
      BY <1>3, <2>1, <3>1, <3>2, LeftLemma
  <2>5. CASE t \notin list \union other
    <3>1. t \notin delayed \union overflow
      BY <2>5 DEF list, other
    <3>2. t \notin delayed' \union overflow'
      BY <1>2, <2>5
    <3> QED
      BY <2>1, <3>1, <3>2, LeftLemma
  <2> QED
    BY <2>2, <2>3, <2>4, <2>5
<1> QED
  BY <1>12, <1>16, <1>17

-----------------------------------------------------------------------------
(* The inductive invariant *)

IInv == TypeOK /\ Sections /\ Lists /\ Times /\ TimeoutsExact

callTypes ==
  /\ pc \in [Tasks -> PcSet] /\ ticks \in [Tasks -> Time] /\ entered \in [Tasks -> Time]
  /\ overflowed \in [Tasks -> 0..WrapOverflows - 1] /\ due \in [Tasks -> Int]

LEMMA InitLemma == Init => IInv
<1> SUFFICES ASSUME Init PROVE IInv
  OBVIOUS
<1>1. TypeOK
  <2>1. 0 \in Time /\ portMAX_DELAY \in Time /\ 0 \in 0..WrapOverflows - 1 /\ 0 \in 0..MaxPended
    BY NumbersLemma
  <2>2. pc \in [Tasks -> PcSet] /\ due \in [Tasks -> Int]
    BY DEF Init, PcSet
  <2>3. /\ wake \in [Tasks -> Time] /\ ticks \in [Tasks -> Time] /\ entered \in [Tasks -> Time]
        /\ overflowed \in [Tasks -> 0..WrapOverflows - 1]
    BY <2>1 DEF Init
  <2>4. /\ xTickCount \in Time /\ xNumOfOverflows \in 0..WrapOverflows - 1
        /\ xNextTaskUnblockTime \in Time /\ xPendedTicks \in 0..MaxPended
    BY <2>1 DEF Init
  <2> QED
    BY <2>2, <2>3, <2>4 DEF Init, TypeOK
<1>2. Sections /\ Lists /\ Times /\ TimeoutsExact
  BY DEF Init, Sections, Lists, NextWakeupNotMissed, Times, Timed, WaitPcs, TimeoutsExact
<1> QED
  BY <1>1, <1>2 DEF IInv

LEMMA GotoLemma ==
  ASSUME TypeOK, Times, NEW t \in Tasks, pc[t] \in WaitPcs, NEW label \in WaitPcs,
         Goto(t, label), UNCHANGED <<xTickCount, xNumOfOverflows, xPendedTicks>>
  PROVE  callTypes' /\ Times' /\ pc'[t] = label /\ \A u \in Tasks \ {t} : pc'[u] = pc[u]
<1>1. callTypes' /\ pc'[t] = label /\ \A u \in Tasks \ {t} : pc'[u] = pc[u]
  BY DEF TypeOK, Goto, callTypes, PcSet
<1>2. Times'
  BY <1>1 DEF TypeOK, Goto, Times, Timed, Ticks
<1> QED
  BY <1>1, <1>2

LEMMA ReturnLemma ==
  ASSUME TypeOK, Times, TimeoutsExact, Sections, NEW t \in Tasks,
         Return(t), UNCHANGED <<xTickCount, xNumOfOverflows, xPendedTicks>>
  PROVE  callTypes' /\ Times' /\ TimeoutsExact'
         /\ pc'[t] = "out" /\ \A u \in Tasks \ {t} : pc'[u] = pc[u] /\ ticks'[u] = ticks[u]
<1>1. callTypes' /\ pc'[t] = "out" /\ \A u \in Tasks \ {t} : pc'[u] = pc[u] /\ ticks'[u] = ticks[u]
  BY NumbersLemma DEF TypeOK, Return, callTypes, PcSet
<1>2. \A u \in Tasks \ {t} : entered'[u] = entered[u] /\ overflowed'[u] = overflowed[u] /\ due'[u] = due[u]
  BY DEF TypeOK, Return
<1>3. Times'
  BY <1>1, <1>2 DEF Times, Timed, Ticks, WaitPcs
<1>4. TimeoutsExact'
  BY <1>1, <1>2 DEF TimeoutsExact
<1> QED
  BY <1>1, <1>3, <1>4

\* A tick takes one from what is left of every call whose time is running.
LEMMA TimesTickLemma ==
  ASSUME TypeOK, Sections, Times, TimeoutsExact, IncrementTick,
         \A t \in Tasks : Timed(t) => Ticks(t) < Wrap,
         \A t \in Tasks : pc[t] # "failed" /\ pc[t] # "place"
  PROVE  /\ callTypes' /\ TimeoutsExact'
         /\ \A t \in Tasks :
              Timed(t)' => /\ Timed(t)
                           /\ due'[t] = ticks'[t] - Ticks(t)'
                           /\ Ticks(t)' = Ticks(t) + 1
<1>1. /\ xTickCount' = Plus(xTickCount, 1)
      /\ xNumOfOverflows' = IF xTickCount' = 0 THEN OneMore(xNumOfOverflows) ELSE xNumOfOverflows
      /\ due' = [t \in Tasks |-> IF Timed(t) THEN due[t] - 1 ELSE due[t]]
      /\ UNCHANGED <<pc, ticks, entered, overflowed>>
  BY DEF IncrementTick
<1>2. callTypes'
  BY <1>1 DEF TypeOK, callTypes
<1>3. TimeoutsExact'
  BY <1>1 DEF TimeoutsExact
<1>4. ASSUME NEW t \in Tasks, Timed(t)'
      PROVE  Timed(t) /\ due'[t] = ticks'[t] - Ticks(t)' /\ Ticks(t)' = Ticks(t) + 1
  <2>1. Timed(t)
    BY <1>1, <1>4 DEF Timed
  <2>2. Ticks(t) >= 0 /\ Ticks(t) < Wrap /\ due[t] = ticks[t] - Ticks(t)
    BY <2>1 DEF Times
  <2>3. /\ xTickCount \in 0..Wrap - 1 /\ entered[t] \in 0..Wrap - 1 /\ ticks[t] \in Nat
        /\ xNumOfOverflows \in Nat /\ overflowed[t] \in Nat /\ Wrap \in Nat
        /\ OneMore(xNumOfOverflows) # xNumOfOverflows /\ due[t] \in Int
    BY NumbersLemma, OneMoreLemma DEF TypeOK
  <2>4. Ticks(t)' = IF overflowed[t] = xNumOfOverflows' THEN xTickCount' - entered[t]
                    ELSE xTickCount' + Wrap - entered[t]
    BY <1>1 DEF Ticks
  <2>5. xTickCount' = IF xTickCount + 1 < Wrap THEN xTickCount + 1 ELSE 0
    BY <1>1, <2>3 DEF Plus
  <2>6. CASE xTickCount + 1 < Wrap
    <3>1. xTickCount' = xTickCount + 1 /\ xNumOfOverflows' = xNumOfOverflows
      BY <1>1, <2>3, <2>5, <2>6
    <3>2. Ticks(t)' = Ticks(t) + 1
      BY <2>3, <2>4, <3>1 DEF Ticks
    <3> QED
      BY <1>1, <2>1, <2>2, <2>3, <3>1, <3>2 DEF Ticks
  <2>7. CASE ~(xTickCount + 1 < Wrap)
    <3>1. xTickCount = Wrap - 1 /\ xTickCount' = 0 /\ xNumOfOverflows' = OneMore(xNumOfOverflows)
      BY <1>1, <2>3, <2>5, <2>7
    <3>2. overflowed[t] = xNumOfOverflows
      BY <2>2, <2>3, <3>1 DEF Ticks
    <3>3. Ticks(t) = Wrap - 1 - entered[t] /\ Ticks(t)' = Wrap - entered[t]
      BY <2>3, <2>4, <3>1, <3>2 DEF Ticks
    <3> QED
      BY <1>1, <2>1, <2>2, <2>3, <3>3
  <2> QED
    BY <2>6, <2>7
<1> QED
  BY <1>2, <1>3, <1>4

-----------------------------------------------------------------------------
(* Every action keeps the invariant *)

LEMMA AwakeLemma ==
  ASSUME NEW t \in Tasks, NEW label, At(t, label)
  PROVE  /\ pc[t] = label /\ ~resuming /\ section \in {t, NoTask}
         /\ t \notin delayed \union overflow /\ t \notin waiting /\ t \notin pendingReady
BY DEF At, Awake

LEMMA DelayStep ==
  ASSUME IInv, NEW t \in Tasks, NEW n \in 1..portMAX_DELAY, Delay(t, n) PROVE IInv'
<1>1. /\ pc[t] = "out" /\ section = NoTask /\ section' = t /\ ~resuming
      /\ pc' = [pc EXCEPT ![t] = "delay"] /\ ticks' = [ticks EXCEPT ![t] = n]
      /\ UNCHANGED <<clockVars, listVars, resuming, xPendedTicks, entered, overflowed, due>>
  BY AwakeLemma DEF Delay
<1>2. n \in Time /\ n > 0
  BY NumbersLemma
<1>3. TypeOK'
  BY <1>1, <1>2 DEF IInv, TypeOK, PcSet, clockVars, listVars
<1>4. Sections'
  BY <1>1, <1>2, NumbersLemma DEF IInv, TypeOK, Sections, listVars
<1>5. Lists'
  BY <1>1 DEF IInv, Lists, NextWakeupNotMissed, clockVars, listVars
<1>6. Times'
  BY <1>1 DEF IInv, TypeOK, Times, Timed, Ticks, WaitPcs, clockVars
<1>7. TimeoutsExact'
  BY <1>1 DEF IInv, TypeOK, TimeoutsExact
<1> QED
  BY <1>3, <1>4, <1>5, <1>6, <1>7 DEF IInv

LEMMA DelayTaskStep == ASSUME IInv, NEW t \in Tasks, DelayTask(t) PROVE IInv'
<1>1. /\ pc[t] = "delay" /\ section = t /\ ~resuming /\ resuming' = TRUE
      /\ t \notin delayed \union overflow
      /\ AddToDelayedList(t, ticks[t]) /\ Return(t)
      /\ UNCHANGED <<xTickCount, xNumOfOverflows, waiting, pendingReady, section, xPendedTicks>>
  BY AwakeLemma DEF DelayTask, IInv, Sections
<1>2. ticks[t] \in 1..portMAX_DELAY
  BY <1>1, NumbersLemma DEF IInv, TypeOK, Sections
<1>3. /\ wake' \in [Tasks -> Time] /\ xNextTaskUnblockTime' \in Time
      /\ delayed' \in SUBSET Tasks /\ overflow' \in SUBSET Tasks /\ Lists'
  BY <1>1, <1>2, AddLemma DEF IInv
<1>4. callTypes' /\ Times' /\ TimeoutsExact'
      /\ pc'[t] = "out" /\ \A u \in Tasks \ {t} : pc'[u] = pc[u] /\ ticks'[u] = ticks[u]
  BY <1>1, ReturnLemma DEF IInv
<1>5. TypeOK'
  BY <1>1, <1>3, <1>4 DEF IInv, TypeOK, callTypes
<1>6. Sections'
  BY <1>1, <1>4, NumbersLemma DEF IInv, Sections
<1> QED
  BY <1>3, <1>4, <1>5, <1>6 DEF IInv

LEMMA WaitStep ==
  ASSUME IInv, NEW t \in Tasks, NEW n \in 1..portMAX_DELAY, Wait(t, n) PROVE IInv'
<1>1. /\ pc[t] = "out" /\ section = NoTask /\ pc' = [pc EXCEPT ![t] = "suspend"]
      /\ ticks' = [ticks EXCEPT ![t] = n] /\ entered' = [entered EXCEPT ![t] = xTickCount]
      /\ overflowed' = [overflowed EXCEPT ![t] = xNumOfOverflows]
      /\ due' = [due EXCEPT ![t] = n] /\ UNCHANGED <<clockVars, listVars, schedVars>>
  BY AwakeLemma DEF Wait
<1>2. n \in Time /\ n > 0 /\ n \in Int
  BY NumbersLemma
<1>3. TypeOK'
  BY <1>1, <1>2 DEF IInv, TypeOK, PcSet, WaitPcs, clockVars, listVars, schedVars
<1>4. Sections'
  BY <1>1, <1>2 DEF IInv, TypeOK, Sections, listVars, schedVars
<1>5. Lists'
  BY <1>1 DEF IInv, Lists, NextWakeupNotMissed, clockVars, listVars
<1>6. Times'
  <2> SUFFICES ASSUME NEW u \in Tasks, Timed(u)'
               PROVE  /\ due'[u] = ticks'[u] - Ticks(u)'
                      /\ Ticks(u)' >= 0 /\ Ticks(u)' + xPendedTicks' <= Wrap
    BY DEF Times
  <2>1. CASE u = t
    <3>1. xPendedTicks' = 0 /\ xTickCount' = xTickCount
      BY <1>1 DEF IInv, Sections, clockVars, schedVars
    <3>2. Ticks(t)' = 0
      BY <1>1, <3>1, NumbersLemma DEF IInv, TypeOK, Ticks, clockVars
    <3> QED
      BY <1>1, <1>2, <2>1, <3>1, <3>2, NumbersLemma DEF IInv, TypeOK
  <2>2. CASE u # t
    BY <1>1, <2>2 DEF IInv, TypeOK, Times, Timed, Ticks, clockVars, schedVars
  <2> QED
    BY <2>1, <2>2
<1>7. TimeoutsExact'
  BY <1>1 DEF IInv, TypeOK, TimeoutsExact
<1> QED
  BY <1>3, <1>4, <1>5, <1>6, <1>7 DEF IInv

LEMMA TryAgainStep == ASSUME IInv, NEW t \in Tasks, TryAgain(t) PROVE IInv'
<1>1. /\ pc[t] = "try" /\ UNCHANGED <<clockVars, listVars, schedVars>>
      /\ Return(t) \/ (ticks[t] > 0 /\ Goto(t, "suspend"))
  BY AwakeLemma DEF TryAgain
<1>2. UNCHANGED <<xTickCount, xNumOfOverflows, xPendedTicks>>
  BY <1>1 DEF clockVars, schedVars
<1>3. Lists'
  BY <1>1 DEF IInv, Lists, NextWakeupNotMissed, clockVars, listVars
<1>4. CASE Return(t)
  <2>1. callTypes' /\ Times' /\ TimeoutsExact'
        /\ pc'[t] = "out" /\ \A u \in Tasks \ {t} : pc'[u] = pc[u] /\ ticks'[u] = ticks[u]
    BY <1>2, <1>4, ReturnLemma DEF IInv
  <2>2. TypeOK'
    BY <1>1, <2>1 DEF IInv, TypeOK, callTypes, clockVars, listVars, schedVars
  <2>3. Sections'
    BY <1>1, <2>1 DEF IInv, Sections, listVars, schedVars
  <2> QED
    BY <1>3, <2>1, <2>2, <2>3 DEF IInv
<1>5. CASE ticks[t] > 0 /\ Goto(t, "suspend")
  <2>1. callTypes' /\ Times' /\ pc'[t] = "suspend" /\ \A u \in Tasks \ {t} : pc'[u] = pc[u]
    BY <1>1, <1>2, <1>5, GotoLemma DEF IInv, WaitPcs
  <2>2. TypeOK'
    BY <1>1, <2>1 DEF IInv, TypeOK, callTypes, clockVars, listVars, schedVars
  <2>3. UNCHANGED <<ticks, due>>
    BY <1>5 DEF Goto
  <2>4. Sections' /\ TimeoutsExact'
    BY <1>1, <1>5, <2>1, <2>3 DEF IInv, Sections, TimeoutsExact, listVars, schedVars
  <2> QED
    BY <1>3, <2>1, <2>2, <2>4 DEF IInv
<1> QED
  BY <1>1, <1>4, <1>5

LEMMA SuspendAllStep == ASSUME IInv, NEW t \in Tasks, SuspendAll(t) PROVE IInv'
<1>1. /\ pc[t] = "suspend" /\ ~resuming /\ section = NoTask /\ section' = t
      /\ Goto(t, "check") /\ UNCHANGED <<clockVars, listVars, resuming, xPendedTicks>>
  BY AwakeLemma DEF SuspendAll
<1>2. callTypes' /\ Times' /\ pc'[t] = "check" /\ \A u \in Tasks \ {t} : pc'[u] = pc[u]
  BY <1>1, GotoLemma DEF IInv, WaitPcs, clockVars
<1>3. TypeOK'
  BY <1>1, <1>2 DEF IInv, TypeOK, callTypes, clockVars, listVars
<1>4. UNCHANGED <<ticks, due>>
  BY <1>1 DEF Goto
<1>5. Sections' /\ TimeoutsExact'
  BY <1>1, <1>2, <1>4, NumbersLemma DEF IInv, Sections, TimeoutsExact, listVars
<1>6. Lists'
  BY <1>1 DEF IInv, Lists, NextWakeupNotMissed, clockVars, listVars
<1> QED
  BY <1>2, <1>3, <1>5, <1>6 DEF IInv

\* The test of xTaskCheckForTimeOut is true exactly when the time is over.
LEMMA TimeIsUpLemma ==
  ASSUME IInv, NEW t \in Tasks, Timed(t)
  PROVE  /\ TimeIsUp(t, Minus(xTickCount, entered[t])) <=> due[t] <= 0
         /\ ~TimeIsUp(t, Minus(xTickCount, entered[t])) =>
              /\ ticks[t] - Minus(xTickCount, entered[t]) = due[t]
              /\ due[t] \in 1..portMAX_DELAY - 1
<1>1. /\ xTickCount \in 0..Wrap - 1 /\ entered[t] \in 0..Wrap - 1 /\ ticks[t] \in 0..Wrap - 1
      /\ ticks[t] # Wrap - 1 /\ due[t] \in Int /\ Wrap \in Nat /\ portMAX_DELAY = Wrap - 1
  BY NumbersLemma DEF IInv, TypeOK, Timed
<1>2. due[t] = ticks[t] - Ticks(t) /\ Ticks(t) >= 0
  BY DEF IInv, Times
<1>3. CASE overflowed[t] = xNumOfOverflows
  <2>1. Ticks(t) = xTickCount - entered[t] /\ xTickCount >= entered[t]
    BY <1>1, <1>2, <1>3 DEF Ticks
  <2>2. Minus(xTickCount, entered[t]) = xTickCount - entered[t]
    BY <1>1, <2>1 DEF Minus
  <2> QED
    BY <1>1, <1>2, <1>3, <2>1, <2>2 DEF TimeIsUp
<1>4. CASE overflowed[t] # xNumOfOverflows
  <2>1. Ticks(t) = xTickCount + Wrap - entered[t]
    BY <1>4 DEF Ticks
  <2>2. CASE xTickCount >= entered[t]
    BY <1>1, <1>2, <1>4, <2>1, <2>2 DEF TimeIsUp
  <2>3. CASE xTickCount < entered[t]
    <3>1. Minus(xTickCount, entered[t]) = xTickCount + Wrap - entered[t]
      BY <2>3 DEF Minus
    <3> QED
      BY <1>1, <1>2, <1>4, <2>1, <2>3, <3>1 DEF TimeIsUp
  <2> QED
    BY <1>1, <2>2, <2>3
<1> QED
  BY <1>3, <1>4

LEMMA CheckForTimeOutStep == ASSUME IInv, NEW t \in Tasks, CheckForTimeOut(t) PROVE IInv'
<1> DEFINE xElapsedTime == Minus(xTickCount, entered[t])
<1>1. /\ pc[t] = "check" /\ section = t /\ ~resuming /\ ticks[t] > 0
      /\ UNCHANGED <<clockVars, listVars, schedVars, due>>
  BY AwakeLemma DEF CheckForTimeOut, IInv, Sections
<1>2. Lists'
  BY <1>1 DEF IInv, Lists, NextWakeupNotMissed, clockVars, listVars
<1>3. ticks[t] # portMAX_DELAY => Timed(t)
  BY <1>1 DEF Timed, WaitPcs, IInv, TypeOK
<1>4. SUFFICES callTypes' /\ Sections' /\ Times' /\ TimeoutsExact'
  BY <1>1, <1>2 DEF IInv, TypeOK, callTypes, clockVars, listVars, schedVars
<1>5. CASE ticks[t] = portMAX_DELAY
  <2>1. pc' = [pc EXCEPT ![t] = "place"] /\ UNCHANGED <<ticks, entered, overflowed>>
    BY <1>5 DEF CheckForTimeOut
  <2>2. callTypes' /\ Sections' /\ TimeoutsExact'
    BY <1>1, <1>5, <2>1 DEF IInv, TypeOK, callTypes, Sections, TimeoutsExact, PcSet, WaitPcs,
                            listVars, schedVars
  <2>3. Times'
    BY <1>1, <1>5, <2>1 DEF IInv, TypeOK, Times, Timed, Ticks, clockVars, schedVars
  <2> QED
    BY <2>2, <2>3
<1>6. CASE ticks[t] # portMAX_DELAY /\ TimeIsUp(t, xElapsedTime)
  <2>1. /\ pc' = [pc EXCEPT ![t] = "failed"] /\ ticks' = [ticks EXCEPT ![t] = 0]
        /\ UNCHANGED <<entered, overflowed>>
    BY <1>6 DEF CheckForTimeOut
  <2>2. due[t] <= 0 /\ 0 \in Time
    BY <1>3, <1>6, TimeIsUpLemma, NumbersLemma
  <2>3. callTypes' /\ Sections'
    BY <1>1, <2>1, <2>2 DEF IInv, TypeOK, callTypes, Sections, PcSet, WaitPcs, listVars, schedVars
  <2>4. Times'
    BY <1>1, <2>1 DEF IInv, TypeOK, Times, Timed, Ticks, clockVars, schedVars
  <2>5. TimeoutsExact'
    BY <1>1, <2>1, <2>2 DEF IInv, TypeOK, TimeoutsExact
  <2> QED
    BY <2>3, <2>4, <2>5
<1>7. CASE ticks[t] # portMAX_DELAY /\ ~TimeIsUp(t, xElapsedTime)
  <2>1. /\ pc' = [pc EXCEPT ![t] = "place"]
        /\ ticks' = [ticks EXCEPT ![t] = @ - xElapsedTime]
        /\ entered' = [entered EXCEPT ![t] = xTickCount]
        /\ overflowed' = [overflowed EXCEPT ![t] = xNumOfOverflows]
    BY <1>7 DEF CheckForTimeOut
  <2>2. ticks[t] - xElapsedTime = due[t] /\ due[t] \in Time /\ due[t] > 0 /\ due[t] # portMAX_DELAY
    BY <1>3, <1>7, TimeIsUpLemma, NumbersLemma
  <2>3. ticks' = [ticks EXCEPT ![t] = due[t]]
    BY <2>1, <2>2
  <2>4. callTypes' /\ Sections'
    BY <1>1, <2>1, <2>2, <2>3 DEF IInv, TypeOK, callTypes, Sections, PcSet, WaitPcs,
                                  clockVars, listVars, schedVars
  <2>5. TimeoutsExact'
    BY <1>1, <2>1, <2>2, <2>3 DEF IInv, TypeOK, TimeoutsExact
  <2>6. Times'
    <3> SUFFICES ASSUME NEW u \in Tasks, Timed(u)'
                 PROVE  /\ due'[u] = ticks'[u] - Ticks(u)'
                        /\ Ticks(u)' >= 0 /\ Ticks(u)' + xPendedTicks' <= Wrap
      BY DEF Times
    <3>1. CASE u = t
      <4>1. Ticks(t)' = 0
        BY <1>1, <2>1, NumbersLemma DEF IInv, TypeOK, Ticks, clockVars
      <4>2. Ticks(t) \in Int /\ Ticks(t) >= 0 /\ Ticks(t) + xPendedTicks <= Wrap
        BY <1>3, <1>7, NumbersLemma DEF IInv, TypeOK, Times, Ticks
      <4> QED
        BY <1>1, <2>2, <2>3, <3>1, <4>1, <4>2, NumbersLemma DEF IInv, TypeOK, schedVars
    <3>2. CASE u # t
      BY <1>1, <2>1, <2>3, <3>2 DEF IInv, TypeOK, Times, Timed, Ticks, clockVars, schedVars
    <3> QED
      BY <3>1, <3>2
  <2> QED
    BY <2>4, <2>5, <2>6
<1> QED
  BY <1>5, <1>6, <1>7

LEMMA PlaceOnEventListStep == ASSUME IInv, NEW t \in Tasks, PlaceOnEventList(t) PROVE IInv'
<1>1. /\ pc[t] = "place" /\ section = t /\ ~resuming /\ resuming' = TRUE
      /\ t \notin delayed \union overflow /\ waiting' = waiting \union {t} /\ Goto(t, "try")
      /\ UNCHANGED <<xTickCount, xNumOfOverflows, pendingReady, section, xPendedTicks>>
  BY AwakeLemma DEF PlaceOnEventList, IInv, Sections
<1>2. callTypes' /\ Times' /\ pc'[t] = "try" /\ \A u \in Tasks \ {t} : pc'[u] = pc[u]
  BY <1>1, GotoLemma DEF IInv, WaitPcs
<1>3. UNCHANGED <<ticks, due>>
  BY <1>1 DEF Goto
<1>4. Sections' /\ TimeoutsExact'
  BY <1>1, <1>2, <1>3, NumbersLemma DEF IInv, Sections, TimeoutsExact
<1>5. /\ wake' \in [Tasks -> Time] /\ xNextTaskUnblockTime' \in Time
      /\ delayed' \in SUBSET Tasks /\ overflow' \in SUBSET Tasks /\ Lists'
  <2>1. CASE ticks[t] = portMAX_DELAY
    <3>1. UNCHANGED <<delayed, overflow, wake, xNextTaskUnblockTime>>
      BY <2>1 DEF PlaceOnEventList
    <3> QED
      BY <1>1, <3>1 DEF IInv, TypeOK, Lists, NextWakeupNotMissed
  <2>2. CASE ticks[t] # portMAX_DELAY
    <3>1. AddToDelayedList(t, ticks[t])
      BY <2>2 DEF PlaceOnEventList
    <3>2. ticks[t] \in 1..portMAX_DELAY
      BY <1>1, <2>2, NumbersLemma DEF IInv, TypeOK, TimeoutsExact
    <3> QED
      BY <1>1, <3>1, <3>2, AddLemma DEF IInv
  <2> QED
    BY <2>1, <2>2
<1>6. TypeOK'
  BY <1>1, <1>2, <1>5 DEF IInv, TypeOK, callTypes
<1> QED
  BY <1>2, <1>4, <1>5, <1>6 DEF IInv

LEMMA LookAgainStep == ASSUME IInv, NEW t \in Tasks, LookAgain(t) PROVE IInv'
<1>1. /\ pc[t] \in {"failed", "place"} /\ section = t /\ resuming' = TRUE /\ Goto(t, "try")
      /\ UNCHANGED <<clockVars, listVars, section, xPendedTicks>>
  BY AwakeLemma DEF LookAgain, IInv, Sections
<1>2. callTypes' /\ Times' /\ pc'[t] = "try" /\ \A u \in Tasks \ {t} : pc'[u] = pc[u]
  BY <1>1, GotoLemma DEF IInv, WaitPcs, clockVars
<1>3. UNCHANGED <<ticks, due>>
  BY <1>1 DEF Goto
<1>4. ~resuming
  BY <1>1 DEF IInv, Sections
<1>5. Sections' /\ TimeoutsExact'
  BY <1>1, <1>2, <1>3, <1>4, NumbersLemma DEF IInv, Sections, TimeoutsExact, listVars
<1>6. Lists' /\ TypeOK'
  BY <1>1, <1>2 DEF IInv, TypeOK, callTypes, Lists, NextWakeupNotMissed, clockVars, listVars
<1> QED
  BY <1>2, <1>5, <1>6 DEF IInv

LEMMA EventStep == ASSUME IInv, NEW t \in Tasks, Event(t) PROVE IInv'
<1>1. /\ waiting' = waiting \ {t} /\ UNCHANGED <<clockVars, schedVars, callVars>>
      /\ \/ /\ section = NoTask /\ delayed' = delayed \ {t} /\ overflow' = overflow \ {t}
            /\ wake' = [wake EXCEPT ![t] = 0] /\ UNCHANGED pendingReady
         \/ /\ section # NoTask /\ pendingReady' = pendingReady \union {t}
            /\ UNCHANGED <<delayed, overflow, wake>>
  BY DEF Event
<1>2. 0 \in Time
  BY NumbersLemma
<1>3. TypeOK'
  BY <1>1, <1>2 DEF IInv, TypeOK, clockVars, schedVars, callVars
<1>4. Sections' /\ TimeoutsExact' /\ Times'
  BY <1>1 DEF IInv, Sections, TimeoutsExact, Times, Timed, Ticks, clockVars, schedVars, callVars
<1>5. Lists'
  BY <1>1 DEF IInv, TypeOK, Lists, NextWakeupNotMissed, clockVars
<1> QED
  BY <1>3, <1>4, <1>5 DEF IInv

LEMMA TickStep == ASSUME IInv, Tick PROVE IInv'
<1>1. CASE section # NoTask
  <2>1. /\ xPendedTicks < MaxPended /\ xPendedTicks' = xPendedTicks + 1 /\ LooksInTime
        /\ UNCHANGED <<clockVars, listVars, section, resuming, callVars>>
    BY <1>1 DEF Tick
  <2>2. TypeOK'
    BY <2>1, NumbersLemma DEF IInv, TypeOK, clockVars, listVars, callVars
  <2>3. Sections' /\ TimeoutsExact' /\ Lists'
    BY <1>1, <2>1 DEF IInv, Sections, TimeoutsExact, Lists, NextWakeupNotMissed,
                      clockVars, listVars, callVars
  <2>4. Times'
    <3> SUFFICES ASSUME NEW u \in Tasks, Timed(u)'
                 PROVE  /\ due'[u] = ticks'[u] - Ticks(u)'
                        /\ Ticks(u)' >= 0 /\ Ticks(u)' + xPendedTicks' <= Wrap
      BY DEF Times
    <3>1. Timed(u) /\ Ticks(u)' = Ticks(u)
      BY <2>1 DEF Timed, Ticks, clockVars, callVars
    <3>2. Ticks(u) \in Int /\ xPendedTicks \in Nat /\ Wrap \in Nat
      BY NumbersLemma DEF IInv, TypeOK, Ticks
    <3>3. Ticks(u) + xPendedTicks < Wrap
      BY <2>1, <3>1 DEF LooksInTime
    <3> QED
      BY <2>1, <3>1, <3>2, <3>3 DEF IInv, Times, callVars
  <2> QED
    BY <2>2, <2>3, <2>4 DEF IInv
<1>2. CASE section = NoTask
  <2>1. IncrementTick /\ LooksInTime /\ UNCHANGED <<section, resuming, xPendedTicks, pendingReady, pc, ticks>>
    BY <1>2 DEF Tick, schedVars, IncrementTick
  <2>2. pendingReady = {} /\ xPendedTicks = 0 /\ \A t \in Tasks : pc[t] # "failed" /\ pc[t] # "place"
    BY <1>2, NumbersLemma DEF IInv, Sections
  <2>3. \A t \in Tasks : Timed(t) => Ticks(t) < Wrap
    <3> SUFFICES ASSUME NEW t \in Tasks, Timed(t) PROVE Ticks(t) < Wrap
      OBVIOUS
    <3>1. Ticks(t) \in Int
      BY NumbersLemma DEF IInv, TypeOK, Ticks
    <3> QED
      BY <2>1, <2>2, <3>1, NumbersLemma DEF LooksInTime
  <2>4. /\ xTickCount' \in Time /\ xNumOfOverflows' \in 0..WrapOverflows - 1
        /\ xNextTaskUnblockTime' \in Time /\ wake' \in [Tasks -> Time]
        /\ delayed' \in SUBSET Tasks /\ overflow' \in SUBSET Tasks
        /\ waiting' \in SUBSET Tasks /\ Lists'
    BY <2>1, <2>2, IncrementTickLemma DEF IInv
  <2>5. /\ callTypes' /\ TimeoutsExact'
        /\ \A t \in Tasks : Timed(t)' => /\ Timed(t) /\ due'[t] = ticks'[t] - Ticks(t)'
                                         /\ Ticks(t)' = Ticks(t) + 1
    BY <2>1, <2>2, <2>3, TimesTickLemma DEF IInv
  <2>6. TypeOK'
    BY <2>1, <2>4, <2>5 DEF IInv, TypeOK, callTypes
  <2>7. Sections'
    BY <1>2, <2>1 DEF IInv, Sections
  <2>8. Times'
    <3> SUFFICES ASSUME NEW u \in Tasks, Timed(u)'
                 PROVE  Ticks(u)' >= 0 /\ Ticks(u)' + xPendedTicks' <= Wrap
      BY <2>5 DEF Times
    <3>1. Ticks(u) \in Int /\ Ticks(u) >= 0
      BY <2>5, NumbersLemma DEF IInv, TypeOK, Ticks, Times
    <3> QED
      BY <2>1, <2>2, <2>3, <2>5, <3>1, NumbersLemma
  <2> QED
    BY <2>4, <2>5, <2>6, <2>7, <2>8 DEF IInv
<1> QED
  BY <1>1, <1>2

LEMMA ReadyPendingStep == ASSUME IInv, ReadyPending PROVE IInv'
<1>1. /\ resuming /\ pendingReady' = {}
      /\ delayed' = delayed \ pendingReady /\ overflow' = overflow \ pendingReady
      /\ wake' = [t \in Tasks |-> IF t \in pendingReady THEN 0 ELSE wake[t]]
      /\ xNextTaskUnblockTime' = FirstWake(delayed \ pendingReady)
      /\ UNCHANGED <<xTickCount, xNumOfOverflows, waiting, schedVars, callVars>>
  BY DEF ReadyPending
<1>2. /\ FirstWake(delayed \ pendingReady) \in Time
      /\ \A t \in delayed \ pendingReady : FirstWake(delayed \ pendingReady) <= wake[t]
  <2>1. delayed \ pendingReady \in SUBSET Tasks
    BY DEF IInv, TypeOK
  <2> QED
    BY <2>1, FirstWakeLemma DEF IInv
<1>3. 0 \in Time
  BY NumbersLemma
<1>4. TypeOK'
  BY <1>1, <1>2, <1>3 DEF IInv, TypeOK, schedVars, callVars
<1>5. Sections' /\ TimeoutsExact' /\ Times'
  BY <1>1 DEF IInv, Sections, TimeoutsExact, Times, Timed, Ticks, schedVars, callVars
<1>6. Lists'
  BY <1>1, <1>2 DEF IInv, TypeOK, Lists, NextWakeupNotMissed
<1> QED
  BY <1>4, <1>5, <1>6 DEF IInv

LEMMA MakeUpTickStep == ASSUME IInv, MakeUpTick PROVE IInv'
<1>1. /\ resuming /\ pendingReady = {} /\ xPendedTicks > 0 /\ IncrementTick
      /\ xPendedTicks' = xPendedTicks - 1
      /\ UNCHANGED <<section, resuming, pendingReady, pc, ticks>>
  BY DEF MakeUpTick, IncrementTick
<1>2. /\ xPendedTicks \in Nat /\ xPendedTicks <= MaxPended /\ Wrap \in Nat /\ MaxPended \in Nat
      /\ \A t \in Tasks : Ticks(t) \in Int
  BY NumbersLemma DEF IInv, TypeOK, Ticks
<1>3. \A t \in Tasks : Timed(t) => Ticks(t) + xPendedTicks <= Wrap /\ Ticks(t) >= 0
  BY DEF IInv, Times
<1>4. /\ \A t \in Tasks : Timed(t) => Ticks(t) < Wrap
      /\ \A t \in Tasks : pc[t] # "failed" /\ pc[t] # "place"
  BY <1>1, <1>2, <1>3 DEF IInv, Sections
<1>5. /\ xTickCount' \in Time /\ xNumOfOverflows' \in 0..WrapOverflows - 1
      /\ xNextTaskUnblockTime' \in Time /\ wake' \in [Tasks -> Time]
      /\ delayed' \in SUBSET Tasks /\ overflow' \in SUBSET Tasks
      /\ waiting' \in SUBSET Tasks /\ Lists'
  BY <1>1, IncrementTickLemma DEF IInv
<1>6. /\ callTypes' /\ TimeoutsExact'
      /\ \A t \in Tasks : Timed(t)' => /\ Timed(t) /\ due'[t] = ticks'[t] - Ticks(t)'
                                       /\ Ticks(t)' = Ticks(t) + 1
  BY <1>1, <1>4, TimesTickLemma DEF IInv
<1>7. TypeOK'
  BY <1>1, <1>2, <1>5, <1>6 DEF IInv, TypeOK, callTypes
<1>8. Sections'
  BY <1>1 DEF IInv, Sections
<1>9. Times'
  BY <1>1, <1>2, <1>3, <1>6 DEF Times
<1> QED
  BY <1>5, <1>6, <1>7, <1>8, <1>9 DEF IInv

LEMMA ResumeDoneStep == ASSUME IInv, ResumeDone PROVE IInv'
<1>1. /\ resuming /\ pendingReady = {} /\ xPendedTicks = 0 /\ resuming' = FALSE
      /\ section' = NoTask /\ UNCHANGED <<clockVars, listVars, xPendedTicks, callVars>>
  BY DEF ResumeDone
<1>2. TypeOK'
  BY <1>1 DEF IInv, TypeOK, clockVars, listVars, callVars
<1>3. Sections' /\ Lists' /\ Times' /\ TimeoutsExact'
  BY <1>1 DEF IInv, Sections, TimeoutsExact, Times, Timed, Ticks, Lists, NextWakeupNotMissed,
              clockVars, listVars, callVars
<1> QED
  BY <1>2, <1>3 DEF IInv

LEMMA NextLemma == IInv /\ [Next]_vars => IInv'
<1> SUFFICES ASSUME IInv, [Next]_vars PROVE IInv'
  OBVIOUS
<1>1. ASSUME NEW t \in Tasks, TaskStep(t) PROVE IInv'
  BY <1>1, DelayStep, DelayTaskStep, WaitStep, TryAgainStep, SuspendAllStep,
     CheckForTimeOutStep, PlaceOnEventListStep, LookAgainStep DEF TaskStep
<1>2. CASE UNCHANGED vars
  BY <1>2 DEF IInv, TypeOK, Sections, TimeoutsExact, Times, Timed, Ticks, Lists,
              NextWakeupNotMissed, vars, clockVars, listVars, schedVars, callVars
<1> QED
  BY <1>1, <1>2, EventStep, TickStep, ReadyPendingStep, MakeUpTickStep, ResumeDoneStep DEF Next

\* Whatever the widths of the counters: the next wakeup is never missed, the
\* two lists hold the times before and after the wrap, and a call fails exactly
\* when its time is over.
THEOREM TimeCorrect == Spec => [](TypeOK /\ NextWakeupNotMissed /\ TimeoutsExact)
<1>1. IInv => TypeOK /\ NextWakeupNotMissed /\ TimeoutsExact
  BY DEF IInv, Lists
<1> QED
  BY InitLemma, NextLemma, <1>1, PTL DEF Spec

-----------------------------------------------------------------------------
(* The clock implements the abstract alarm *)

LEMMA SameLefts ==
  ASSUME UNCHANGED <<pendingReady, delayed, overflow, wake, xTickCount>>
  PROVE  lefts' = lefts
BY DEF lefts, Left

\* What is left of a sleep, with events that wait for the scheduler.
LEMMA LeftRange ==
  ASSUME IInv, NEW t \in Tasks
  PROVE  /\ t \in pendingReady => Left(t) = 0
         /\ t \in (delayed \union overflow) \ pendingReady => Left(t) > 0
         /\ t \notin delayed \union overflow => Left(t) = 0
<1>1. wake[t] \in 0..Wrap - 1 /\ xTickCount \in 0..Wrap - 1 /\ Wrap \in Nat
  BY NumbersLemma DEF IInv, TypeOK
<1>2. t \in delayed => t \notin overflow /\ xTickCount < wake[t]
  BY DEF IInv, Lists, NextWakeupNotMissed
<1>3. Left(t) = IF t \in pendingReady THEN 0
                ELSE IF t \in delayed THEN wake[t] - xTickCount
                ELSE IF t \in overflow THEN wake[t] + Wrap - xTickCount ELSE 0
  BY <1>2 DEF Left
<1> QED
  BY <1>1, <1>2, <1>3

LEMMA SleepLemma ==
  ASSUME IInv, NEW t \in Tasks, NEW n \in 1..portMAX_DELAY,
         t \notin delayed \union overflow \union pendingReady,
         AddToDelayedList(t, n), UNCHANGED <<xTickCount, pendingReady>>
  PROVE  A!Sleep(t, n)
<1> DEFINE w == Plus(xTickCount, n)
<1>1. /\ xTickCount \in 0..Wrap - 1 /\ Wrap \in Nat /\ n \in 1..Wrap - 1
      /\ w = IF xTickCount + n < Wrap THEN xTickCount + n ELSE xTickCount + n - Wrap
  BY NumbersLemma DEF IInv, TypeOK, Plus
<1>2. wake' = [wake EXCEPT ![t] = w]
  BY DEF AddToDelayedList
<1>3. \A u \in Tasks : wake'[u] = IF u = t THEN w ELSE wake[u]
  BY <1>2 DEF IInv, TypeOK
<1>4. Left(t)' = n
  <2>1. CASE w < xTickCount
    <3>1. overflow' = overflow \union {t} /\ UNCHANGED delayed
      BY <2>1 DEF AddToDelayedList
    <3>2. Left(t)' = w + Wrap - xTickCount
      BY <1>3, <3>1 DEF Left
    <3> QED
      BY <1>1, <2>1, <3>2
  <2>2. CASE ~(w < xTickCount)
    <3>1. delayed' = delayed \union {t} /\ UNCHANGED overflow
      BY <2>2 DEF AddToDelayedList
    <3>2. Left(t)' = w - xTickCount
      BY <1>3, <3>1 DEF Left
    <3> QED
      BY <1>1, <2>2, <3>2
  <2> QED
    BY <2>1, <2>2
<1>5. ASSUME NEW u \in Tasks, u # t PROVE Left(u)' = Left(u)
  <2>1. (u \in delayed' <=> u \in delayed) /\ (u \in overflow' <=> u \in overflow)
    BY <1>5 DEF AddToDelayedList
  <2> QED
    BY <1>3, <1>5, <2>1 DEF Left
<1>6. Left(t) = 0
  BY LeftRange
<1>7. lefts[t] = 0 /\ lefts' = [lefts EXCEPT ![t] = n]
  BY <1>4, <1>5, <1>6 DEF lefts
<1> QED
  BY <1>7 DEF A!Sleep

LEMMA EventLemma == ASSUME IInv, NEW t \in Tasks, Event(t) PROVE A!Event(t) \/ lefts' = lefts
<1>1. /\ xTickCount' = xTickCount
      /\ \/ /\ section = NoTask /\ delayed' = delayed \ {t} /\ overflow' = overflow \ {t}
            /\ wake' = [wake EXCEPT ![t] = 0] /\ UNCHANGED pendingReady
         \/ /\ pendingReady' = pendingReady \union {t} /\ UNCHANGED <<delayed, overflow, wake>>
  BY DEF Event, clockVars
<1>2. \A u \in Tasks \ {t} : wake'[u] = wake[u]
  BY <1>1 DEF IInv, TypeOK
<1>3. \A u \in Tasks \ {t} : Left(u)' = Left(u)
  BY <1>1, <1>2 DEF Left
<1>4. Left(t)' = 0
  BY <1>1 DEF Left, IInv, Sections
<1>5. lefts' = [lefts EXCEPT ![t] = 0]
  BY <1>3, <1>4 DEF lefts
<1>6. Left(t) = 0 \/ Left(t) > 0
  BY LeftRange
<1>7. CASE Left(t) = 0
  BY <1>3, <1>4, <1>7 DEF lefts
<1>8. CASE Left(t) > 0
  BY <1>5, <1>8 DEF lefts, A!Event
<1> QED
  BY <1>6, <1>7, <1>8

LEMMA AlarmTickLemma ==
  ASSUME IInv, IncrementTick, pendingReady = {} PROVE A!Tick
<1>1. \A t \in Tasks : Left(t)' = IF Left(t) > 0 THEN Left(t) - 1 ELSE 0
  BY IncrementTickLemma DEF IInv
<1>2. lefts' = [t \in Tasks |-> IF lefts[t] > 0 THEN lefts[t] - 1 ELSE 0]
  BY <1>1 DEF lefts
<1> QED
  BY <1>2 DEF A!Tick

LEMMA ReadyPendingLemma == ASSUME IInv, ReadyPending PROVE lefts' = lefts
<1>1. /\ pendingReady' = {} /\ xTickCount' = xTickCount
      /\ delayed' = delayed \ pendingReady /\ overflow' = overflow \ pendingReady
      /\ wake' = [t \in Tasks |-> IF t \in pendingReady THEN 0 ELSE wake[t]]
  BY DEF ReadyPending
<1>2. ASSUME NEW t \in Tasks PROVE Left(t)' = Left(t)
  BY <1>1 DEF Left
<1> QED
  BY <1>2 DEF lefts

LEMMA StepLemma == IInv /\ [Next]_vars => [A!Next]_lefts
<1> SUFFICES ASSUME IInv, [Next]_vars PROVE A!Next \/ lefts' = lefts
  OBVIOUS
<1>1. ASSUME NEW t \in Tasks, DelayTask(t) PROVE A!Next
  <2>1. /\ pc[t] = "delay" /\ AddToDelayedList(t, ticks[t])
        /\ t \notin delayed \union overflow \union pendingReady
        /\ UNCHANGED <<xTickCount, pendingReady>>
    BY <1>1, AwakeLemma DEF DelayTask
  <2>2. ticks[t] \in 1..portMAX_DELAY
    BY <2>1, NumbersLemma DEF IInv, TypeOK, Sections
  <2>3. A!Sleep(t, ticks[t])
    BY <2>1, <2>2, SleepLemma
  <2> QED
    BY <2>2, <2>3 DEF A!Next
<1>2. ASSUME NEW t \in Tasks, PlaceOnEventList(t) PROVE A!Next \/ lefts' = lefts
  <2>1. /\ pc[t] = "place" /\ t \notin delayed \union overflow \union pendingReady
        /\ UNCHANGED <<xTickCount, pendingReady>>
    BY <1>2, AwakeLemma DEF PlaceOnEventList
  <2>2. CASE ticks[t] = portMAX_DELAY
    <3>1. UNCHANGED <<delayed, overflow, wake>>
      BY <1>2, <2>2 DEF PlaceOnEventList
    <3> QED
      BY <2>1, <3>1, SameLefts
  <2>3. CASE ticks[t] # portMAX_DELAY
    <3>1. AddToDelayedList(t, ticks[t])
      BY <1>2, <2>3 DEF PlaceOnEventList
    <3>2. ticks[t] \in 1..portMAX_DELAY
      BY <2>1, <2>3, NumbersLemma DEF IInv, TypeOK, TimeoutsExact
    <3>3. A!Sleep(t, ticks[t])
      BY <2>1, <3>1, <3>2, SleepLemma
    <3> QED
      BY <3>2, <3>3 DEF A!Next
  <2> QED
    BY <2>2, <2>3
<1>3. ASSUME NEW t \in Tasks, NEW n \in 1..portMAX_DELAY, Delay(t, n) \/ Wait(t, n)
      PROVE  lefts' = lefts
  BY <1>3, SameLefts DEF Delay, Wait, clockVars, listVars
<1>4. ASSUME NEW t \in Tasks,
             TryAgain(t) \/ SuspendAll(t) \/ CheckForTimeOut(t) \/ LookAgain(t)
      PROVE  lefts' = lefts
  BY <1>4, SameLefts DEF TryAgain, SuspendAll, CheckForTimeOut, LookAgain, clockVars, listVars
<1>5. ASSUME NEW t \in Tasks, Event(t) PROVE A!Next \/ lefts' = lefts
  BY <1>5, EventLemma DEF A!Next
<1>6. CASE Tick
  <2>1. CASE section = NoTask
    BY <1>6, <2>1, AlarmTickLemma DEF Tick, A!Next, IInv, Sections
  <2>2. CASE section # NoTask
    BY <1>6, <2>2, SameLefts DEF Tick, clockVars, listVars
  <2> QED
    BY <2>1, <2>2
<1>7. CASE ReadyPending
  BY <1>7, ReadyPendingLemma
<1>8. CASE MakeUpTick
  BY <1>8, AlarmTickLemma DEF MakeUpTick, A!Next
<1>9. CASE ResumeDone
  BY <1>9, SameLefts DEF ResumeDone, clockVars, listVars
<1>10. CASE UNCHANGED vars
  BY <1>10, SameLefts DEF vars, clockVars, listVars
<1> QED
  BY <1>1, <1>2, <1>3, <1>4, <1>5, <1>6, <1>7, <1>8, <1>9, <1>10 DEF Next, TaskStep

\* Whatever the width of the tick count: every sleep ends at its tick, or at an
\* event before it.
THEOREM AlarmImplemented == Spec => ImplementsAlarm
<1>1. Init => A!Init
  BY DEF Init, lefts, Left, A!Init
<1> QED
  BY <1>1, InitLemma, NextLemma, StepLemma, PTL DEF Spec, ImplementsAlarm, A!Spec
=============================================================================
