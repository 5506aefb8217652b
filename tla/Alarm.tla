------------------------------- MODULE Alarm -------------------------------
(***************************************************************************)
(* What the kernel's clock promises: a task that goes to sleep for n ticks *)
(* is woken by the n-th tick after that, not before and not after, unless  *)
(* an event wakes it first.                                                *)
(***************************************************************************)
EXTENDS Integers

CONSTANTS
  Tasks,          \* the tasks that sleep
  Longest         \* the longest sleep, in ticks

VARIABLE left     \* of each task, the ticks until it is woken; 0 when awake

TypeOK == left \in [Tasks -> 0..Longest]

Init == left = [t \in Tasks |-> 0]

Sleep(t, n) ==
  /\ left[t] = 0
  /\ left' = [left EXCEPT ![t] = n]

Event(t) ==
  /\ left[t] > 0
  /\ left' = [left EXCEPT ![t] = 0]

Tick == left' = [t \in Tasks |-> IF left[t] > 0 THEN left[t] - 1 ELSE 0]

Next ==
  \/ \E t \in Tasks, n \in 1..Longest : Sleep(t, n)
  \/ \E t \in Tasks : Event(t)
  \/ Tick

Spec == Init /\ [][Next]_left
=============================================================================
