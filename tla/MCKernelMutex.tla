--------------------------- MODULE MCKernelMutex ---------------------------
(* Small instances of KernelMutex for TLC.                                  *)
EXTENDS KernelMutex, TLC

CONSTANTS
  lo, mid, hi,        \* three tasks that nest two mutexes
  busy,               \* a task between them with a mutex of its own
  fat, shell, usb     \* the tasks that share xSDBusy

Ranks == lo :> 1 @@ mid :> 2 @@ busy :> 3 @@ hi :> 4
SDRanks == fat :> 2 @@ shell :> 2 @@ usb :> 4

EveryUse == [t \in Tasks |-> Mutexes]

\* The busy task has a mutex that nobody else takes.
NestedUse == [t \in Tasks |-> IF t = busy THEN {3} ELSE {1, 2}]

\* The lowest task waits as long as it takes, the others for ten ticks too.
SomeWaits == [t \in Tasks |-> IF t = lo THEN {"max"} ELSE {"finite", "max"}]
TenTicks == [t \in Tasks |-> {"finite"}]
=============================================================================
