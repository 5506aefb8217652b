\* Two tasks, two blocks each, thirteen units, a size_t of eight bits.
CONSTANTS
  t1 = t1
  t2 = t2
  Tasks = {t1, t2}
  Units = 13
  SizeBits = 8
  Requests <- AllSizes
  MaxBlocks = 2
SYMMETRY Symmetry
SPECIFICATION Spec
INVARIANTS
  BlocksTile
  FullyMerged
  CountersAgree
  DataIntact
PROPERTIES
  LargeEnough
CHECK_DEADLOCK FALSE
