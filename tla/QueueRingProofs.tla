-------------------------- MODULE QueueRingProofs --------------------------
(***************************************************************************)
(* Proofs about QueueRing: its type invariant, that its pointers agree     *)
(* with its count, and that it implements the bounded sequence of Fifo,    *)
(* for every length and every set of items.                                *)
(***************************************************************************)
EXTENDS QueueRing, TLAPS

\* The inductive invariant: types, and the relation of the two pointers.
IInv == TypeOK /\ PointersAgree

\* A pointer that moves by one stays in the ring and moves by one modulo its
\* length.
LEMMA MoveLemma ==
  ASSUME length \in Lengths, NEW p \in Slot
  PROVE  /\ Forward(p) \in Slot
         /\ Back(p) \in Slot
         /\ Forward(p) = p + 1 \/ Forward(p) = p + 1 - length
         /\ Back(p) = p - 1 \/ Back(p) = p - 1 + length
BY LengthsAssumption DEF Slot, Forward, Back

LEMMA InitIInv == Init => IInv
<1> SUFFICES ASSUME Init PROVE IInv
  OBVIOUS
<1>1. 0 \in Slot /\ length - 1 \in Slot /\ 0 \in 0 .. length
  BY LengthsAssumption DEF Init, Slot
<1>2. TypeOK
  BY <1>1 DEF Init, TypeOK
<1>3. PointersAgree
  BY LengthsAssumption DEF Init, PointersAgree
<1> QED
  BY <1>2, <1>3 DEF IInv

LEMMA NextIInv == IInv /\ [Next]_vars => IInv'
<1> SUFFICES ASSUME IInv, [Next]_vars PROVE IInv'
  OBVIOUS
<1> USE LengthsAssumption DEF IInv
<1>1. ASSUME NEW x \in Item, SendToBack(x) PROVE IInv'
  BY <1>1, MoveLemma DEF SendToBack, TypeOK, PointersAgree, Slot, Forward
<1>2. ASSUME NEW x \in Item, SendToFront(x) PROVE IInv'
  BY <1>2, MoveLemma DEF SendToFront, TypeOK, PointersAgree, Slot, Back
<1>3. ASSUME NEW x \in Item, Overwrite(x) PROVE IInv'
  BY <1>3, MoveLemma DEF Overwrite, TypeOK, PointersAgree, Slot, Back
<1>4. CASE Receive
  BY <1>4, MoveLemma DEF Receive, TypeOK, PointersAgree, Slot, Forward
<1>5. CASE Peek
  BY <1>5, MoveLemma DEF Peek, TypeOK, PointersAgree, Slot
<1>6. CASE Reset
  BY <1>6 DEF Reset, TypeOK, PointersAgree, Slot
<1>7. CASE UNCHANGED vars
  BY <1>7 DEF vars, TypeOK, PointersAgree, Slot
<1> QED
  BY <1>1, <1>2, <1>3, <1>4, <1>5, <1>6, <1>7 DEF Next

\* The pointers stay inside the storage area and agree with the number of
\* messages (xQueueGenericReset, prvCopyDataToQueue, prvCopyDataFromQueue).
THEOREM PointersCorrect == Spec => [](TypeOK /\ PointersAgree)
<1>1. IInv => TypeOK /\ PointersAgree
  BY DEF IInv
<1> QED
  BY <1>1, InitIInv, NextIInv, PTL DEF Spec

-----------------------------------------------------------------------------
(* The refinement *)

LEMMA ItemsLemma ==
  ASSUME NEW n \in Lengths, NEW s \in [0 .. n - 1 -> Item], NEW r \in 0 .. n - 1,
         NEW m \in 0 .. n
  PROVE  /\ ItemsFrom(n, s, r, m) \in Seq(Item)
         /\ Len(ItemsFrom(n, s, r, m)) = m
         /\ \A i \in 1 .. m : /\ SlotOf(n, r, i) \in 0 .. n - 1
                              /\ ItemsFrom(n, s, r, m)[i] = s[SlotOf(n, r, i)]
<1>1. m \in Nat /\ n \in Nat
  BY LengthsAssumption
<1>2. \A i \in 1 .. m : SlotOf(n, r, i) \in 0 .. n - 1
  BY LengthsAssumption DEF SlotOf
<1>3. ItemsFrom(n, s, r, m) \in [1 .. m -> Item]
  BY <1>2 DEF ItemsFrom
<1>4. ItemsFrom(n, s, r, m) \in Seq(Item) /\ Len(ItemsFrom(n, s, r, m)) = m
  BY <1>1, <1>3
<1> QED
  BY <1>2, <1>4 DEF ItemsFrom

\* The slot to be written next holds none of the items and comes after the
\* newest; nor does pcReadFrom point at an item while there is room.
LEMMA SlotLemma ==
  ASSUME IInv
  PROVE  messages < length =>
           /\ SlotOf(length, readFrom, messages + 1) = writeTo
           /\ \A i \in 1 .. messages : SlotOf(length, readFrom, i) # writeTo
           /\ \A i \in 1 .. messages : SlotOf(length, readFrom, i) # readFrom
BY LengthsAssumption DEF IInv, TypeOK, PointersAgree, SlotOf, Slot

LEMMA SendToBackRefines ==
  ASSUME IInv, NEW x \in Item, SendToBack(x)
  PROVE  Queue!SendToBack(x)
<1>1. /\ length \in Lengths /\ length' = length /\ length \in Nat /\ length > 0
      /\ slots \in [Slot -> Item] /\ readFrom \in Slot /\ messages \in 0 .. length
      /\ slots' \in [Slot -> Item] /\ readFrom' \in Slot /\ messages' \in 0 .. length
      /\ writeTo \in Slot
  <2>1. IInv'
    BY NextIInv DEF Next
  <2>2. length' = length /\ length \in Lengths /\ length \in Nat /\ length > 0
    BY LengthsAssumption DEF IInv, TypeOK, SendToBack
  <2> QED
    BY <2>1, <2>2 DEF IInv, TypeOK, Slot
<1>2. /\ Contents \in Seq(Item) /\ Len(Contents) = messages
      /\ \A i \in 1 .. messages : /\ SlotOf(length, readFrom, i) \in Slot
                                 /\ Contents[i] = slots[SlotOf(length, readFrom, i)]
      /\ Contents' \in Seq(Item) /\ Len(Contents') = messages'
      /\ \A i \in 1 .. messages' : Contents'[i] = slots'[SlotOf(length, readFrom', i)]
  BY <1>1, ItemsLemma DEF Contents, Slot
<1>3. \A i \in 1 .. messages : Contents'[i] = Contents[i]
  BY <1>1, <1>2, SlotLemma, LengthsAssumption DEF SendToBack
<1>4. Contents'[messages + 1] = x
  BY <1>1, <1>2, SlotLemma, LengthsAssumption DEF SendToBack
<1>5. Contents' = Append(Contents, x)
  <2>1. Append(Contents, x) \in Seq(Item) /\ Len(Append(Contents, x)) = messages + 1
    BY <1>2
  <2>2. \A i \in 1 .. messages + 1 : Contents'[i] = Append(Contents, x)[i]
    BY <1>1, <1>2, <1>3, <1>4, LengthsAssumption
  <2> QED
    BY <1>1, <1>2, <2>1, <2>2 DEF SendToBack
<1> QED
  BY <1>2, <1>5 DEF Queue!SendToBack, SendToBack

LEMMA SendToFrontRefines ==
  ASSUME IInv, NEW x \in Item, SendToFront(x)
  PROVE  Queue!SendToFront(x)
<1>1. /\ length \in Lengths /\ length' = length /\ length \in Nat /\ length > 0
      /\ slots \in [Slot -> Item] /\ readFrom \in Slot /\ messages \in 0 .. length
      /\ slots' \in [Slot -> Item] /\ readFrom' \in Slot /\ messages' \in 0 .. length
  <2>1. IInv'
    BY NextIInv DEF Next
  <2>2. length' = length /\ length \in Lengths /\ length \in Nat /\ length > 0
    BY LengthsAssumption DEF IInv, TypeOK, SendToFront
  <2> QED
    BY <2>1, <2>2 DEF IInv, TypeOK, Slot
<1>2. /\ Contents \in Seq(Item) /\ Len(Contents) = messages
      /\ \A i \in 1 .. messages : /\ SlotOf(length, readFrom, i) \in Slot
                                 /\ Contents[i] = slots[SlotOf(length, readFrom, i)]
      /\ Contents' \in Seq(Item) /\ Len(Contents') = messages'
      /\ \A i \in 1 .. messages' : Contents'[i] = slots'[SlotOf(length, readFrom', i)]
  BY <1>1, ItemsLemma DEF Contents, Slot
<1>3. /\ SlotOf(length, readFrom', 1) = readFrom
      /\ \A i \in 1 .. messages : SlotOf(length, readFrom', i + 1) = SlotOf(length, readFrom, i)
  BY <1>1, LengthsAssumption DEF Slot, SlotOf, Back, SendToFront
<1>4. Contents'[1] = x
  BY <1>1, <1>2, <1>3, LengthsAssumption DEF SendToFront
<1>5. \A i \in 1 .. messages : Contents'[i + 1] = Contents[i]
  <2> SUFFICES ASSUME NEW i \in 1 .. messages PROVE Contents'[i + 1] = Contents[i]
    OBVIOUS
  <2>1. Contents'[i + 1] = slots'[SlotOf(length, readFrom', i + 1)]
    BY <1>1, <1>2, LengthsAssumption DEF SendToFront
  <2>2. SlotOf(length, readFrom, i) # readFrom
    BY SlotLemma DEF SendToFront
  <2> QED
    BY <1>1, <1>2, <1>3, <2>1, <2>2 DEF SendToFront
<1>6. Contents' = <<x>> \o Contents
  <2>1. /\ <<x>> \o Contents \in Seq(Item) /\ Len(<<x>> \o Contents) = messages + 1
        /\ (<<x>> \o Contents)[1] = x
        /\ \A i \in 1 .. messages : (<<x>> \o Contents)[i + 1] = Contents[i]
    BY <1>1, <1>2, LengthsAssumption
  <2>2. \A j \in 1 .. messages + 1 : Contents'[j] = (<<x>> \o Contents)[j]
    <3> SUFFICES ASSUME NEW j \in 1 .. messages + 1
                 PROVE  Contents'[j] = (<<x>> \o Contents)[j]
      OBVIOUS
    <3>1. CASE j = 1
      BY <1>4, <2>1, <3>1
    <3>2. CASE j # 1
      <4>1. j - 1 \in 1 .. messages /\ (j - 1) + 1 = j
        BY <1>1, <3>2, LengthsAssumption
      <4> QED
        BY <4>1, <1>5, <2>1
    <3> QED
      BY <3>1, <3>2
  <2> QED
    BY <1>1, <1>2, <2>1, <2>2 DEF SendToFront
<1> QED
  BY <1>2, <1>6 DEF Queue!SendToFront, SendToFront

LEMMA OverwriteRefines ==
  ASSUME IInv, NEW x \in Item, Overwrite(x)
  PROVE  Queue!Overwrite(x)
<1>1. /\ length \in Lengths /\ length' = length /\ length \in Nat /\ length > 0
      /\ slots' \in [Slot -> Item] /\ readFrom' \in Slot /\ messages' \in 0 .. length
      /\ slots \in [Slot -> Item] /\ readFrom \in Slot /\ messages \in 0 .. length
  <2>1. IInv'
    BY NextIInv DEF Next
  <2>2. length' = length /\ length \in Lengths /\ length \in Nat /\ length > 0
    BY LengthsAssumption DEF IInv, TypeOK, Overwrite
  <2> QED
    BY <2>1, <2>2 DEF IInv, TypeOK, Slot
<1>2. /\ Contents' \in Seq(Item) /\ Len(Contents') = messages'
      /\ \A i \in 1 .. messages' : Contents'[i] = slots'[SlotOf(length, readFrom', i)]
  BY <1>1, ItemsLemma DEF Contents, Slot
<1>3. messages' = 1 /\ SlotOf(length, readFrom', 1) = readFrom
  BY <1>1 DEF SlotOf, Slot, Back, Overwrite
<1>4. Contents' \in Seq(Item) /\ Len(Contents') = 1 /\ Contents'[1] = x
  BY <1>1, <1>2, <1>3 DEF Overwrite
<1>5. Contents' = <<x>>
  BY <1>4
<1> QED
  BY <1>5 DEF Queue!Overwrite, Overwrite

LEMMA HeadLemma ==
  ASSUME IInv, messages > 0
  PROVE  /\ Contents \in Seq(Item) /\ Contents # << >>
         /\ Head(Contents) = slots[Forward(readFrom)]
<1>1. /\ length \in Lengths /\ length \in Nat
      /\ slots \in [Slot -> Item] /\ readFrom \in Slot /\ messages \in 1 .. length
  BY LengthsAssumption DEF IInv, TypeOK
<1>2. Contents \in Seq(Item) /\ Len(Contents) = messages
  <2>1. messages \in 0 .. length
    BY <1>1
  <2> QED
    BY <1>1, <2>1, ItemsLemma DEF Contents, Slot
<1>3. Contents[1] = slots[SlotOf(length, readFrom, 1)]
  BY <1>1, ItemsLemma DEF Contents, Slot
<1>4. SlotOf(length, readFrom, 1) = Forward(readFrom)
  BY <1>1, LengthsAssumption DEF SlotOf, Slot, Forward
<1> QED
  BY <1>1, <1>2, <1>3, <1>4, LengthsAssumption

LEMMA ReceiveRefines ==
  ASSUME IInv, Receive
  PROVE  Queue!Receive
<1>1. /\ length \in Lengths /\ length' = length /\ length \in Nat /\ length > 0
      /\ slots' \in [Slot -> Item] /\ readFrom' \in Slot /\ messages' \in 0 .. length
      /\ slots \in [Slot -> Item] /\ readFrom \in Slot /\ messages \in 0 .. length
      /\ messages > 0
  <2>1. IInv'
    BY NextIInv DEF Next
  <2>2. length' = length /\ length \in Lengths /\ length \in Nat /\ length > 0
    BY LengthsAssumption DEF IInv, TypeOK, Receive
  <2> QED
    BY <2>1, <2>2 DEF IInv, TypeOK, Slot, Receive
<1>2. /\ Contents \in Seq(Item) /\ Len(Contents) = messages
      /\ \A i \in 1 .. messages : /\ SlotOf(length, readFrom, i) \in Slot
                                 /\ Contents[i] = slots[SlotOf(length, readFrom, i)]
      /\ Contents' \in Seq(Item) /\ Len(Contents') = messages'
      /\ \A i \in 1 .. messages' : Contents'[i] = slots'[SlotOf(length, readFrom', i)]
  BY <1>1, ItemsLemma DEF Contents, Slot
<1>3. \A i \in 1 .. messages' : SlotOf(length, readFrom', i) = SlotOf(length, readFrom, i + 1)
  BY <1>1, LengthsAssumption DEF Slot, SlotOf, Forward, Receive
<1>4. \A i \in 1 .. messages - 1 : Contents'[i] = Contents[i + 1]
  BY <1>1, <1>2, <1>3, LengthsAssumption DEF Receive
<1>5. Contents' = Tail(Contents)
  <2>1. /\ Tail(Contents) \in Seq(Item) /\ Len(Tail(Contents)) = messages - 1
        /\ \A i \in 1 .. messages - 1 : Tail(Contents)[i] = Contents[i + 1]
    BY <1>1, <1>2, LengthsAssumption
  <2> QED
    BY <1>1, <1>2, <1>4, <2>1 DEF Receive
<1> QED
  BY <1>1, <1>5, HeadLemma, LengthsAssumption DEF Queue!Receive, Receive

LEMMA EmptyLemma ==
  ASSUME NEW n, NEW s, NEW r PROVE ItemsFrom(n, s, r, 0) = << >>
BY DEF ItemsFrom

LEMMA StepRefines == IInv /\ [Next]_vars => [Queue!Next]_<<length, Contents, given, got>>
<1> SUFFICES ASSUME IInv, [Next]_vars PROVE [Queue!Next]_<<length, Contents, given, got>>
  OBVIOUS
<1>1. ASSUME NEW x \in Item, SendToBack(x) PROVE Queue!Next
  BY <1>1, SendToBackRefines DEF Queue!Next
<1>2. ASSUME NEW x \in Item, SendToFront(x) PROVE Queue!Next
  BY <1>2, SendToFrontRefines DEF Queue!Next
<1>3. ASSUME NEW x \in Item, Overwrite(x) PROVE Queue!Next
  BY <1>3, OverwriteRefines DEF Queue!Next
<1>4. CASE Receive
  BY <1>4, ReceiveRefines DEF Queue!Next
<1>5. CASE Peek
  <2>1. messages > 0 /\ Contents' = Contents
    BY <1>5 DEF Peek, Contents
  <2> QED
    BY <1>5, <2>1, HeadLemma DEF Peek, Queue!Peek, Queue!Next
<1>6. CASE Reset
  <2>1. Contents' = << >>
    BY <1>6, EmptyLemma DEF Reset, Contents
  <2> QED
    BY <1>6, <2>1 DEF Reset, Queue!Reset, Queue!Next
<1>7. CASE UNCHANGED vars
  BY <1>7 DEF vars, Contents
<1> QED
  BY <1>1, <1>2, <1>3, <1>4, <1>5, <1>6, <1>7 DEF Next

LEMMA InitRefines == Init => Queue!Init
BY EmptyLemma DEF Init, Queue!Init, Contents

\* The ring hands out its items as a bounded sequence does, for every length
\* and every set of items (prvCopyDataToQueue, prvCopyDataFromQueue).
THEOREM RingImplementsFifo == Spec => ImplementsFifo
<1>1. Spec => []IInv
  BY InitIInv, NextIInv, PTL DEF Spec
<1> QED
  BY <1>1, InitRefines, StepRefines, PTL DEF Spec, ImplementsFifo, Queue!Spec
=============================================================================
