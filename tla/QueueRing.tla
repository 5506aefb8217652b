----------------------------- MODULE QueueRing -----------------------------
(***************************************************************************)
(* The storage area of a kernel queue (src/kernel/queue.c): a ring of      *)
(* uxLength slots between pcHead and pcTail, written at pcWriteTo and read *)
(* one slot after pcReadFrom.  The copies run inside critical sections, so *)
(* each operation is one step.  Addresses count items from pcHead, so      *)
(* pcHead is 0 and pcTail is length.                                       *)
(*                                                                         *)
(* The ring implements the bounded sequence of module Fifo.                *)
(***************************************************************************)
EXTENDS Integers, Sequences

CONSTANTS
  Item,      \* what a slot can hold
  Lengths    \* the lengths xQueueCreate may be asked for

ASSUME LengthsAssumption == Lengths \subseteq Nat \ {0}
ASSUME ItemAssumption == Item # {}

VARIABLES
  length,    \* uxLength
  slots,     \* the storage area
  writeTo,   \* pcWriteTo
  readFrom,  \* pcReadFrom
  messages,  \* uxMessagesWaiting
  given,     \* pvItemToQueue, the item of the last send
  got        \* the buffer of the last receive or peek

vars == <<length, slots, writeTo, readFrom, messages, given, got>>

Slot == 0 .. length - 1

TypeOK ==
  /\ length \in Lengths
  /\ slots \in [Slot -> Item]
  /\ writeTo \in Slot
  /\ readFrom \in Slot
  /\ messages \in 0 .. length
  /\ given \in Item /\ got \in Item

\* xQueueGenericReset; the storage area comes from pvPortMalloc, uninitialised.
Init ==
  /\ length \in Lengths
  /\ slots \in [Slot -> Item]
  /\ writeTo = 0
  /\ readFrom = length - 1
  /\ messages = 0
  /\ given \in Item /\ got \in Item

\* A pointer moved by one item, wrapping at pcTail and at pcHead.
Forward(p) == IF p + 1 >= length THEN 0 ELSE p + 1

Back(p) == IF p - 1 < 0 THEN length - 1 ELSE p - 1

\* prvCopyDataToQueue, queueSEND_TO_BACK, with the test for room of its callers.
SendToBack(x) ==
  /\ messages < length
  /\ slots' = [slots EXCEPT ![writeTo] = x]
  /\ writeTo' = Forward(writeTo)
  /\ messages' = messages + 1
  /\ given' = x
  /\ UNCHANGED <<length, readFrom, got>>

\* Mutant: the read pointer moves before the item is copied.
SendToFrontMoveFirst(x) ==
  /\ messages < length
  /\ slots' = [slots EXCEPT ![Back(readFrom)] = x]
  /\ readFrom' = Back(readFrom)
  /\ messages' = messages + 1
  /\ given' = x
  /\ UNCHANGED <<length, writeTo, got>>

\* prvCopyDataToQueue, queueSEND_TO_FRONT.
SendToFront(x) ==
  /\ messages < length
  /\ slots' = [slots EXCEPT ![readFrom] = x]
  /\ readFrom' = Back(readFrom)
  /\ messages' = messages + 1
  /\ given' = x
  /\ UNCHANGED <<length, writeTo, got>>

\* prvCopyDataToQueue, queueOVERWRITE: only for queues of length one.
Overwrite(x) ==
  /\ length = 1
  /\ slots' = [slots EXCEPT ![readFrom] = x]
  /\ readFrom' = Back(readFrom)
  /\ messages' = (IF messages > 0 THEN messages - 1 ELSE messages) + 1
  /\ given' = x
  /\ UNCHANGED <<length, writeTo, got>>

\* Mutant: a reset leaves pcReadFrom where it was.
ResetKeepsReadFrom ==
  /\ writeTo' = 0
  /\ messages' = 0
  /\ UNCHANGED <<length, slots, readFrom, given, got>>

\* prvCopyDataFromQueue in xQueueReceive.
Receive ==
  /\ messages > 0
  /\ readFrom' = Forward(readFrom)
  /\ got' = slots[Forward(readFrom)]
  /\ messages' = messages - 1
  /\ UNCHANGED <<length, slots, writeTo, given>>

\* xQueuePeek: the copy, after which the read pointer is put back.
Peek ==
  /\ messages > 0
  /\ got' = slots[Forward(readFrom)]
  /\ UNCHANGED <<length, slots, writeTo, readFrom, messages, given>>

\* xQueueReset.
Reset ==
  /\ writeTo' = 0
  /\ readFrom' = length - 1
  /\ messages' = 0
  /\ UNCHANGED <<length, slots, given, got>>

Next ==
  \/ \E x \in Item : SendToBack(x) \/ SendToFront(x) \/ Overwrite(x)
  \/ Receive
  \/ Peek
  \/ Reset

Spec == Init /\ [][Next]_vars

-----------------------------------------------------------------------------
(* Correctness *)

\* In a ring of n slots with the read pointer at r: the slot of the i-th oldest
\* item, and the m items read from there, oldest first.
SlotOf(n, r, i) == IF r + i >= n THEN r + i - n ELSE r + i
ItemsFrom(n, s, r, m) == [i \in 1 .. m |-> s[SlotOf(n, r, i)]]

\* The items in the ring.
Contents == ItemsFrom(length, slots, readFrom, messages)

\* The two pointers and the count agree: pcWriteTo is as many slots ahead of
\* the slot to be read next as there are messages, modulo the ring.
PointersAgree ==
  \/ writeTo = readFrom + 1 + messages
  \/ writeTo = readFrom + 1 + messages - length
  \/ writeTo = readFrom + 1 + messages - length - length

Queue == INSTANCE Fifo WITH items <- Contents

\* The ring, with its pointers moved from both ends and wrapped at both ends,
\* hands out the items as a bounded sequence does.
ImplementsFifo == Queue!Spec
=============================================================================
