-------------------------------- MODULE Fifo --------------------------------
(***************************************************************************)
(* What a kernel queue promises of the items sent to it: a bounded         *)
(* sequence.  A send adds an item at the back or, for xQueueSendToFront,   *)
(* at the front; a receive removes the item at the front and a peek reads  *)
(* it; xQueueOverwrite replaces the item of a queue of length one;         *)
(* xQueueReset empties the queue.                                          *)
(***************************************************************************)
EXTENDS Naturals, Sequences

CONSTANTS Item, Lengths

VARIABLES
  length,   \* how many items the queue holds at most
  items,    \* the items in the queue, oldest first
  given,    \* the item last sent
  got       \* the item last handed to a receiver

Init == length \in Lengths /\ items = << >> /\ given \in Item /\ got \in Item

SendToBack(x) ==
  /\ Len(items) < length
  /\ items' = Append(items, x)
  /\ given' = x
  /\ UNCHANGED <<length, got>>

SendToFront(x) ==
  /\ Len(items) < length
  /\ items' = <<x>> \o items
  /\ given' = x
  /\ UNCHANGED <<length, got>>

Overwrite(x) ==
  /\ length = 1
  /\ items' = <<x>>
  /\ given' = x
  /\ UNCHANGED <<length, got>>

Receive ==
  /\ items # << >>
  /\ got' = Head(items)
  /\ items' = Tail(items)
  /\ UNCHANGED <<length, given>>

Peek ==
  /\ items # << >>
  /\ got' = Head(items)
  /\ UNCHANGED <<length, items, given>>

Reset == items' = << >> /\ UNCHANGED <<length, given, got>>

Next ==
  \/ \E x \in Item : SendToBack(x) \/ SendToFront(x) \/ Overwrite(x)
  \/ Receive
  \/ Peek
  \/ Reset

Spec == Init /\ [][Next]_<<length, items, given, got>>
=============================================================================
