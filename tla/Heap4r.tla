------------------------------- MODULE Heap4r -------------------------------
(***************************************************************************)
(* The heap (src/kernel/heap_4r.c): pvPortMalloc, pvPortCalloc, vPortFree  *)
(* and vPortReAlloc on a list of free blocks linked through the heap       *)
(* itself in address order.                                                *)
(*                                                                         *)
(* The memory is an array of units of portBYTE_ALIGNMENT bytes; a block    *)
(* header takes one unit.  A unit holds a header, or what the task that    *)
(* owns it wrote there, or nothing that anybody may read (Raw).            *)
(* What lies between vTaskSuspendAll and xTaskResumeAll is one step.       *)
(***************************************************************************)
EXTENDS Integers, FiniteSets, FiniteSetsExt

CONSTANTS
  Tasks,        \* the tasks that use the heap
  Units,        \* the size of the heap, without the end marker
  SizeBits,     \* the width of size_t
  Requests,     \* the <<xNum, xSize>> the tasks ask for; xNum is 1 for a malloc
  MaxBlocks     \* how many blocks a task keeps (bounds the model)

ALIGN == 8                            \* portBYTE_ALIGNMENT
heapSIZE_MAX == 2^SizeBits - 1
heapALLOCATED == 2^(SizeBits - 1)     \* heapBLOCK_ALLOCATED_BITMASK
MINIMUM_BLOCK == 2                    \* heapMINIMUM_BLOCK_SIZE, in units

ASSUME UnitsAssumption == Units \in Nat /\ Units > 1 /\ ALIGN * Units < heapALLOCATED
ASSUME RequestsAssumption == Requests \subseteq (0..heapSIZE_MAX) \X (0..heapSIZE_MAX)

VARIABLES
  mem,          \* the units of the heap, and pxEnd
  start,        \* xStart.pxNextFreeBlock
  freeUnits,    \* xFreeBytesRemaining
  minimumEver,  \* xMinimumEverFreeBytesRemaining
  balance,      \* xNumberOfSuccessfulAllocations - xNumberOfSuccessfulFrees
  owned,        \* the blocks each task holds, and how much of each it has filled
  pc,           \* where each task is in a call
  old,          \* the block a task frees or reallocates
  new           \* the block vPortReAlloc has got

heapVars == <<mem, start, freeUnits, minimumEver, balance>>
vars == <<heapVars, owned, pc, old, new>>

Start == -1
End == Units
NULL == -2

\* A unit that is a header, and one that holds the data v.
Header(n, s, a) == [data |-> "header", next |-> n, size |-> s, alloc |-> a]
Data(v) == [data |-> v, next |-> NULL, size |-> 0, alloc |-> FALSE]
Raw == Data("raw")
IsHeader(u) == u.data = "header"

\* A block of a task: its address (of the header), and the units it has filled.
Held == [at : 0..Units-1, filled : 0..Units]
NoBlock == [at |-> 0, filled |-> 0]

TypeOK ==
  /\ mem \in [0..End -> [data : Tasks \union {"header", "raw", "zero"},
                         next : (0..End) \union {NULL}, size : 0..Units, alloc : BOOLEAN]]
  /\ start \in 0..End
  /\ freeUnits \in 0..Units /\ minimumEver \in 0..freeUnits
  /\ balance \in Nat
  /\ owned \in [Tasks -> SUBSET Held]
  /\ pc \in [Tasks -> {"out", "free", "copy", "halted"}]
  /\ old \in [Tasks -> Held] /\ new \in [Tasks -> Held]

\* prvHeapInit: one free block.
Init ==
  /\ mem = [u \in 0..End |->
              CASE u = 0   -> Header(End, Units, FALSE)
                [] u = End -> Header(NULL, 0, FALSE)
                [] OTHER   -> Raw]
  /\ start = 0
  /\ freeUnits = Units
  /\ minimumEver = Units
  /\ balance = 0
  /\ owned = [t \in Tasks |-> {}]
  /\ pc = [t \in Tasks |-> "out"]
  /\ old = [t \in Tasks |-> NoBlock]
  /\ new = [t \in Tasks |-> NoBlock]

-----------------------------------------------------------------------------
(* The free list *)

NextOf(m, s, a) == IF a = Start THEN s ELSE m[a].next

\* The free blocks: pxNextFreeBlock of a block that is in use is NULL.
FreeIn(m) == {a \in 0..End-1 : m[a].next # NULL}

\* pxIterator: the block whose link leads to address b or past it, which is the last
\* before b because the list is in address order (BlocksTile).
Before(m, s, b) == CHOOSE a \in Start..b-1 : NextOf(m, s, a) >= b

\* The first block of the list with room for w units, or pxEnd.
FirstFit(w) == Min({b \in FreeIn(mem) : mem[b].size >= w} \union {End})

\* The heap after a write to a link, which may be that of xStart.
SetNext(m, s, a, n) ==
  IF a = Start THEN [mem |-> m, start |-> n]
               ELSE [mem |-> [m EXCEPT ![a].next = n], start |-> s]

\* Mutant: the block is not merged with the free block behind it.
InsertNoMergeBehind(m, s, b) ==
  LET i == Before(m, s, b)
      next == NextOf(m, s, i)
      joins == i # Start /\ i + m[i].size = b
      at == IF joins THEN i ELSE b
      size == IF joins THEN m[i].size + m[b].size ELSE m[b].size
      merged == [u \in 0..End |->
                   IF u = at THEN Header(next, size, FALSE)
                   ELSE IF u = b THEN Raw
                   ELSE m[u]]
  IN  IF joins THEN [mem |-> merged, start |-> s] ELSE SetNext(merged, s, i, at)

\* prvInsertBlockIntoFreeList: merged with the free blocks it touches.
InsertBlockIntoFreeList(m, s, b) ==
  LET i == Before(m, s, b)
      next == NextOf(m, s, i)
      joins == i # Start /\ i + m[i].size = b
      at == IF joins THEN i ELSE b
      size == IF joins THEN m[i].size + m[b].size ELSE m[b].size
      touches == at + size = next /\ next # End
      merged == [u \in 0..End |->
                   IF u = at
                     THEN IF touches THEN Header(m[next].next, size + m[next].size, FALSE)
                                     ELSE Header(next, size, FALSE)
                   ELSE IF u = b \/ (u = next /\ touches) THEN Raw
                   ELSE m[u]]
  IN  IF joins THEN [mem |-> merged, start |-> s] ELSE SetNext(merged, s, i, at)

\* The units from a to b hold v.
Filled(m, a, b, v) == [u \in 0..End |-> IF u \in a..b THEN Data(v) ELSE m[u]]

-----------------------------------------------------------------------------
(* Allocation *)

\* Mutant: the addition of the header wraps around.
WantedSizeWraps(n) ==
  LET extra == ALIGN + (IF n % ALIGN # 0 THEN ALIGN - (n % ALIGN) ELSE 0)
  IN  (n + extra) % (heapSIZE_MAX + 1)

\* The bytes pvPortMalloc looks for: with a header, rounded up, and 0 when
\* nothing is wanted or the sum does not fit a size_t.
WantedSize(n) ==
  LET extra == ALIGN + (IF n % ALIGN # 0 THEN ALIGN - (n % ALIGN) ELSE 0)
  IN  IF n = 0 \/ n > heapSIZE_MAX - extra THEN 0 ELSE n + extra

\* There is a block for the n bytes: the early tests and the search.
Fits(n) ==
  LET w == WantedSize(n)
  IN  /\ w > 0 /\ w < heapALLOCATED /\ w \div ALIGN <= freeUnits
      /\ FirstFit(w \div ALIGN) # End

\* Mutant: whatever is left of the block is split off, even without a unit.
TakeSplitsAlways(w) ==
  LET b == FirstFit(w)
      unlinked == SetNext(mem, start, Before(mem, start, b), mem[b].next)
      taken == [unlinked.mem EXCEPT ![b] = Header(NULL, w, TRUE),
                                    ![b + w] = Header(NULL, mem[b].size - w, FALSE)]
  IN  [at |-> b, size |-> w, heap |-> InsertBlockIntoFreeList(taken, unlinked.start, b + w)]

\* The first block with room for w units, unlinked and marked, without what is split
\* off it.  (The code marks it last, which nobody sees.)
Take(w) ==
  LET b == FirstFit(w)
      rest == mem[b].size - w
      splits == rest > MINIMUM_BLOCK
      size == IF splits THEN w ELSE mem[b].size
      unlinked == SetNext(mem, start, Before(mem, start, b), mem[b].next)
      taken == [unlinked.mem EXCEPT ![b] = Header(NULL, size, TRUE)]
      split == [taken EXCEPT ![b + w] = Header(NULL, rest, FALSE)]
  IN  [at |-> b, size |-> size,
       heap |-> IF splits THEN InsertBlockIntoFreeList(split, unlinked.start, b + w)
                          ELSE [mem |-> taken, start |-> unlinked.start]]

\* Mutant: the size that was wanted is counted, where the block may be larger.
MallocSucceedsCountsWanted(n, v) ==
  LET got == Take(WantedSize(n) \div ALIGN)
      b == got.at
  IN  /\ Fits(n)
      /\ mem' = Filled(got.heap.mem, b + 1, b + got.size - 1, v)
      /\ start' = got.heap.start
      /\ freeUnits' = freeUnits - WantedSize(n) \div ALIGN
      /\ minimumEver' = IF freeUnits' < minimumEver THEN freeUnits' ELSE minimumEver
      /\ balance' = balance + 1

\* pvPortMalloc when it succeeds: the block is marked, and the caller has
\* written v to all of it.
MallocSucceeds(n, v) ==
  LET got == Take(WantedSize(n) \div ALIGN)
      b == got.at
  IN  /\ Fits(n)
      /\ mem' = Filled(got.heap.mem, b + 1, b + got.size - 1, v)
      /\ start' = got.heap.start
      /\ freeUnits' = freeUnits - got.size
      /\ minimumEver' = IF freeUnits' < minimumEver THEN freeUnits' ELSE minimumEver
      /\ balance' = balance + 1

\* When it fails vApplicationMallocFailedHook never returns.
Halt(t) ==
  /\ pc' = [pc EXCEPT ![t] = "halted"]
  /\ UNCHANGED <<heapVars, owned, old, new>>

\* pvPortCalloc (pvPortMalloc when num is 1): a product that does not fit
\* returns NULL before pvPortMalloc is called.
Alloc(t, num, size) ==
  /\ pc[t] = "out"
  /\ Cardinality(owned[t]) < MaxBlocks
  /\ num * size <= heapSIZE_MAX
  /\ \/ LET got == Take(WantedSize(num * size) \div ALIGN)
        IN  /\ MallocSucceeds(num * size, t)
            /\ owned' = [owned EXCEPT ![t] = @ \union {[at |-> got.at, filled |-> got.size - 1]}]
            /\ UNCHANGED <<pc, old, new>>
     \/ ~Fits(num * size) /\ Halt(t)

-----------------------------------------------------------------------------
(* Release *)

\* vPortFree, up to vTaskSuspendAll: the block is the task's no more.
FreeBegin(t, k) ==
  /\ pc[t] = "out" /\ k \in owned[t]
  /\ mem' = [mem EXCEPT ![k.at].alloc = FALSE]
  /\ old' = [old EXCEPT ![t] = k]
  /\ owned' = [owned EXCEPT ![t] = @ \ {k}]
  /\ pc' = [pc EXCEPT ![t] = "free"]
  /\ UNCHANGED <<start, freeUnits, minimumEver, balance, new>>

\* The suspended section of vPortFree.
FreeEnd(t) ==
  LET b == old[t].at
      size == mem[b].size
      h == InsertBlockIntoFreeList(Filled(mem, b + 1, b + size - 1, "raw"), start, b)
  IN  /\ pc[t] = "free"
      /\ mem' = h.mem
      /\ start' = h.start
      /\ freeUnits' = freeUnits + size
      /\ balance' = balance - 1
      /\ pc' = [pc EXCEPT ![t] = "out"]
      /\ old' = [old EXCEPT ![t] = NoBlock]
      /\ UNCHANGED <<minimumEver, owned, new>>

-----------------------------------------------------------------------------
(* vPortReAlloc of a block the task holds, to n > 0 bytes; with n = 0 it is
   vPortFree, and without a block pvPortCalloc *)

\* The old block is large enough, and is kept as it is, or a new one is
\* allocated and cleared.
ReAllocBegin(t, k, n) ==
  LET got == Take(WantedSize(n) \div ALIGN)
  IN  /\ pc[t] = "out" /\ k \in owned[t] /\ n > 0
      /\ ALIGN * (mem[k.at].size - 1) < n
      /\ \/ /\ MallocSucceeds(n, "zero")
            /\ old' = [old EXCEPT ![t] = k]
            /\ new' = [new EXCEPT ![t] = [at |-> got.at, filled |-> got.size - 1]]
            /\ pc' = [pc EXCEPT ![t] = "copy"]
            /\ UNCHANGED owned
         \/ ~Fits(n) /\ Halt(t)

\* Mutant: the header is subtracted from the old size once more.
ReAllocCopyShort(t) ==
  LET k == old[t]
      n == new[t]
      size == mem[k.at].size - 2
  IN  /\ pc[t] = "copy"
      /\ mem' = [u \in 0..End |->
                   IF u \in n.at + 1 .. n.at + size THEN mem[k.at + (u - n.at)]
                   ELSE IF u = k.at THEN Header(NULL, mem[u].size, FALSE)
                   ELSE mem[u]]
      /\ owned' = [owned EXCEPT ![t] = (@ \ {k}) \union {[at |-> n.at, filled |-> k.filled]}]
      /\ new' = [new EXCEPT ![t] = NoBlock]
      /\ pc' = [pc EXCEPT ![t] = "free"]
      /\ UNCHANGED <<start, freeUnits, minimumEver, balance, old>>

\* The copy of the old contents, and vPortFree of the old block up to
\* vTaskSuspendAll; FreeEnd is the rest.
ReAllocCopy(t) ==
  LET k == old[t]
      n == new[t]
      size == mem[k.at].size - 1
  IN  /\ pc[t] = "copy"
      /\ mem' = [u \in 0..End |->
                   IF u \in n.at + 1 .. n.at + size THEN mem[k.at + (u - n.at)]
                   ELSE IF u = k.at THEN Header(NULL, mem[u].size, FALSE)
                   ELSE mem[u]]
      /\ owned' = [owned EXCEPT ![t] = (@ \ {k}) \union {[at |-> n.at, filled |-> k.filled]}]
      /\ new' = [new EXCEPT ![t] = NoBlock]
      /\ pc' = [pc EXCEPT ![t] = "free"]
      /\ UNCHANGED <<start, freeUnits, minimumEver, balance, old>>

Next ==
  \E t \in Tasks :
    \/ \E r \in Requests : Alloc(t, r[1], r[2])
    \/ \E k \in owned[t] : FreeBegin(t, k)
    \/ \E k \in owned[t], r \in Requests : ReAllocBegin(t, k, r[2])
    \/ ReAllocCopy(t)
    \/ FreeEnd(t)

Spec == Init /\ [][Next]_vars

-----------------------------------------------------------------------------
(* Correctness *)

\* The units of a block.
Extent(b) == b .. b + mem[b].size - 1

\* The blocks tasks hold, and those they are about to release.
Taken == (UNION {{k.at : k \in owned[t]} : t \in Tasks})
           \union {new[t].at : t \in {u \in Tasks : pc[u] = "copy"}}
Releasing == {old[t].at : t \in {u \in Tasks : pc[u] = "free"}}

Free == FreeIn(mem)
Blocks == Free \union Taken \union Releasing

\* The headers tile the heap: every unit lies in exactly one block, each of which is on
\* the free list, held by a task and marked, or being released; and the list leads
\* through the free blocks in the order of their addresses to pxEnd.
BlocksTile ==
  /\ \A u \in 0..End-1 : \E b \in Blocks : \A c \in Blocks : u \in Extent(c) <=> c = b
  /\ \A b \in Blocks : IsHeader(mem[b]) /\ b + mem[b].size <= End
  /\ Free \intersect (Taken \union Releasing) = {} /\ Taken \intersect Releasing = {}
  /\ \A b \in Taken : mem[b].alloc
  /\ \A b \in Free \union Releasing : ~mem[b].alloc
  /\ \A a \in Free \union {Start} :
       LET n == NextOf(mem, start, a)
       IN  n \in Free \union {End} /\ n > a /\ Free \intersect a+1 .. n-1 = {}

\* Free memory is in as few pieces as it can be: no free block touches another.
FullyMerged == \A b \in Free : b + mem[b].size \notin Free

\* The units of the free blocks.
UnitsFree == {u \in 0..End-1 : \E b \in Free : u \in Extent(b)}

\* The counters agree with the list and with the blocks in use, and the lowest level
\* of free memory is not above the present one.
CountersAgree ==
  /\ freeUnits = Cardinality(UnitsFree)
  /\ minimumEver <= freeUnits
  /\ balance = Cardinality(Taken) + Cardinality(Releasing)

\* Nobody's data is touched: every unit a task has filled holds what the task
\* wrote there, whatever the others allocate, free and reallocate, and a
\* reallocated block holds what the old one held.
DataIntact ==
  \A t \in Tasks : \A k \in owned[t] :
    \A u \in k.at + 1 .. k.at + k.filled : mem[u] = Data(t)

\* A block is never smaller than what was asked for: one task's requests are
\* served with at least the bytes wanted.
LargeEnough ==
  [][\A t \in Tasks, r \in Requests :
       Alloc(t, r[1], r[2]) /\ pc'[t] = "out" =>
         \E k \in owned'[t] \ owned[t] : ALIGN * (mem'[k.at].size - 1) >= r[1] * r[2]]_vars
=============================================================================
