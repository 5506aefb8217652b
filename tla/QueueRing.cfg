\* A mailbox of one slot, which may also be overwritten, and a queue of three
\* slots, with three distinct items: every alignment of the two pointers.
CONSTANTS
  Item = {a, b, c}
  Lengths = {1, 3}
SPECIFICATION Spec
INVARIANTS
  PointersAgree
PROPERTIES
  ImplementsFifo
