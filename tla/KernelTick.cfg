CONSTANTS
  Tasks = {t1, t2}
  NoTask = NoTask
  Wrap = 4
  WrapOverflows = 2
  MaxPended = 2
SPECIFICATION Spec
INVARIANTS
  NextWakeupNotMissed
  TimeoutsExact
PROPERTIES
  ImplementsAlarm
