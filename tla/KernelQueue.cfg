\* Every kind of call on one slot, and interrupts that send and receive.
CONSTANTS
  t1 = t1
  t2 = t2
  t3 = t3
  idle = idle
  Idle = idle
  Prio <- TwoPrios
  Tasks = {t1, t2, t3}
  Length = 1
  NumberOfTasks = 4
  Calls <- ReceiverThatResets
  IsrSends = TRUE
  IsrReceives = TRUE
SPECIFICATION FairSpec
INVARIANTS
  TypeOK
  EveryMessageHasATaker
  EverySlotHasATaker
  HighestPriorityRuns
  OnePlace
  BlockedCanBeWoken
  ListsByPriority
  SuspendedSectionExclusive
PROPERTIES
  LockedListsLeftAlone
  ReceiversServed
