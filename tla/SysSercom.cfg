\* Three clients on a queue with room for two requests: posting may block.
CONSTANTS
  shell = shell
  boot = boot
  kbd = kbd
  Clients = {shell, boot, kbd}
  Pages = 2
  Values = {"a", "b"}
  QueueLen = 2
  Calls <- OneWriter
SPECIFICATION FairSpec
INVARIANTS
  TypeOK
  OneRequestPerPoll
  ReadIsComplete
  WritesInOrder
PROPERTIES
  EveryCallReturns
