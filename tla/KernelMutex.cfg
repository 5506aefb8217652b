CONSTANTS
  lo = lo
  mid = mid
  busy = busy
  hi = hi
  fat = fat
  shell = shell
  usb = usb
  Idle = Idle
  NoTask = NoTask
  Tasks = {lo, mid, busy, hi}
  Mutexes = {1, 2, 3}
  Base <- Ranks
  Uses <- NestedUse
  Waits <- SomeWaits
  Nests = TRUE
SPECIFICATION FairSpec
INVARIANTS
  PriorityHasACause
PROPERTIES
  HolderKeepsUp
  WaitersWoken
