CONSTANTS
  lo = lo
  mid = mid
  busy = busy
  hi = hi
  fat = fat
  shell = shell
  usb = usb
  Idle = Idle
  NoTask = NoTask
  Tasks = {fat, shell, usb}
  Mutexes = {1}
  Base <- SDRanks
  Uses <- EveryUse
  Waits <- TenTicks
  Nests = FALSE
SPECIFICATION Spec
INVARIANTS
  HighestPriorityRuns
