# ucosR: a TLA+ model of the kernel, the heap, the SERCOM3 service, LLFS and the SD card

ucosR is a small operating system for a SAMD51 board: a FreeRTOS V10.5.1 kernel
with a heap of its own, drivers, a shell with interfaces (`sys`, `util`, `sd`),
a terminal, an EEPROM file system (LLFS) and FatFs on an SD card that a USB host
may share. The repository has no tests; its documents are the source comments,
`src/README.md` and `src/llfs/llfs.md`. This directory specifies the parts of it
whose correctness depends on the order of steps, checks them with TLC on small
instances, and proves the central results with TLAPS.

## The system

Tasks and priorities (`src/src/ucosR.c:47-55`, `src/src/main.c:46`,
`src/src/iface_sd.c:103-104`): `LCD` 5 (capped to 4, `configMAX_PRIORITIES` is
5), `usbd` 4, `cdc` 3, and at priority 2 the keyboard scanner, the SERCOM3
service, the FAT task, the terminal, the shell and the boot task. Preemption is
on, time slicing is off, so tasks of one priority share the processor through
`taskYIELD` and blocking calls. `configASSERT` is undefined, recursive mutexes,
queue sets and co-routines are off, and a failed allocation spins for ever in
`vApplicationMallocFailedHook`.

| component | state | operations | interacts with | what makes it correct | hard because |
|---|---|---|---|---|---|
| kernel queues `kernel/queue.c` | ring of slots, message count, two event lists, two lock counters | send (back, front, overwrite), receive, peek, reset, ISR versions | scheduler lists, interrupts | no lost wakeup; a FIFO; event lists in priority order | interrupts between critical sections, timeouts, deferred wakeups |
| mutexes `kernel/queue.c`, `kernel/tasks.c` | holder, line of waiting tasks, priorities, count of mutexes held | take, give, inherit, disinherit on give and on timeout | scheduler | a holder is not outranked by its line; a raised priority goes with its cause | nesting, timeouts of some waiters, no yield |
| time `kernel/tasks.c` | tick count, two delayed lists, next unblock time, timeouts | tick, delay, check for timeout, pended ticks | queues, scheduler | every sleep ends at its tick | the count wraps, ticks are held back |
| scheduler `kernel/tasks.c`, `list.c`, `port.c` | ready, delayed, pending-ready lists, running task, suspension count | suspend/resume all, tick, PendSV, delay, block, wake | every blocking call | a task is in one place, can be woken, the most urgent one runs | everything above happens in interrupts too |
| heap `kernel/heap_4r.c` | free list in the heap memory, counters | malloc, calloc, free, realloc | all tasks | headers tile the memory; nobody's data is touched | size arithmetic wraps; free and realloc are not atomic |
| timers, event groups, stream buffers | command queue, bit sets, ring of bytes | start/stop/change, set/wait, send/receive | scheduler | deadlines, atomic multi-bit waits | timeouts against late answers |
| SERCOM3 service `bios/sys_sercom.c`, `bios/i2c_port.c` | request queue, status words in callers' stacks | `sys_kbd_*`, `sys_eeprom_*`, the service task | keyboard driver, LLFS | a call returns only when its request is done; pages in order | pointers into stack frames, failing transfers |
| LLFS `llfs/*` | sectors, open file with a cached sector | format, open, read, write, close, delete | SERCOM3 service, `sys_config.c`, shell | files separate, content preserved, no sector lost | power cuts, failing accesses, boundary encodings |
| keyboard `bios/keyboard.c` | key timers, key queue, break flag | scan, get, wait, break | SERCOM3 service, terminal, shell | no key lost, break always seen | scan blocks on a full queue |
| LCD `bios/lcd.c` | DMA descriptors, suspended task | refresh, DMA interrupt | scheduler | the task is resumed after each frame | interrupt against suspend |
| terminal `rshell/uterm.c` | byte FIFO, escape machine, screen | putch, task, font change | all that print | no byte lost or doubled | FIFO without a lock, realloc under use |
| command line, editor `rshell/commandline.c`, `editline.c` | history ring, edited line | keys | terminal | the ring keeps the last lines | wrap-around |
| shell `rshell/rshell.c`, `iface_*.c` | path list, pipe, script stack | commands | heap, file systems | lists freed once | use after free |
| configuration `rshell/sys_config.c` | settings with a checksum | load, save | LLFS | what was saved is loaded | errors in the middle |
| SD card `ff/fat.c`, `ff/diskio.c`, `sd_mmc/*`, `tusb/msc_disk.c` | card in the slot, driver state, mutex, volume, external-write flag | hot-plug task, block access, USB callbacks | FatFs, USB, shell | blocks of one card are never read with the tables of another; what the host writes is seen | two masters, timeouts, a reset of the controller under a transfer |

`red`, the string, graphics and icon code are sequential helpers; FatFs, the
SD/MMC stack, TinyUSB, CMSIS and the device headers are vendored (of FatFs and of the
SD/MMC stack the states that the SD card's users share are modelled).
`PROJECT.json` lists every component with its status, and under "hazards" each
point of the code that is hard to test, at its line.

## Modules

| module | models | checked by | proved in |
|---|---|---|---|
| `KernelQueue` | blocking protocol of queues on the scheduler | `MCKernelQueue`: `queue_core` | `KernelQueueProofs` |
| `KernelMutex` | mutexes and priority inheritance | `MCKernelMutex`: `mutex`, `mutex_yield` | `KernelMutexProofs` |
| `KernelTick` | tick count, delayed lists, timeouts | `tick` | `KernelTickProofs` |
| `Alarm` | abstract: what the clock promises a sleeping task | refinement target | |
| `QueueRing` | storage of a queue | `ring` | `QueueRingProofs` |
| `Fifo` | abstract: what a queue promises of its items | refinement target | |
| `Heap4r` | heap | `MCHeap4r`: `heap` | `Heap4rProofs` |
| `SysSercom` | SERCOM3 service and its clients | `MCSysSercom`: `sercom` | `SysSercomProofs` |
| `Llfs` | EEPROM file system | `MCLlfs`: `llfs*` runs | `LlfsProofs` |
| `FileStore` | abstract: what the file system promises of the media | refinement target | |
| `SdCard` | the SD card between `fat_task`, the shell and the USB host | `sd` | `SdCardProofs` |

How they meet: `KernelQueue`, `KernelMutex` and `KernelTick` are three views of one
kernel. `KernelQueue` says who is woken and who runs and lets a finite wait end at any
tick; `KernelTick` says at which; `KernelMutex` adds the priorities that change.
`SysSercom` uses a queue as the FIFO that `QueueRing` implements, `SdCard` a mutex
with a timeout as `KernelMutex` has it, and `Llfs` reads and writes pages as
`SysSercom` moves them: whole, in order, until the first error.

Operators named as the mutated form of another (each under a comment that
begins "Mutant:") are plausible bugs of the definition that follows. They are not
part of any specification; `PROJECT.json` names the property each one breaks.

### KernelQueue

A critical section, masked interrupt handler or scheduler-suspended primitive is
one action; between two actions an interrupt may arrive and, unless the
scheduler is suspended, another task may be switched in. `pc[t]` follows a task
through the loop of `xQueueGenericSend`, `xQueueReceive` or `xQueuePeek`:

`try` (first critical section) → `suspend` (`vTaskSuspendAll`) → `lock`
(`prvLockQueue`) → `timeout` (`xTaskCheckForTimeOut`) → `check` (`prvIsQueueFull`
or `prvIsQueueEmpty`) → `place` (`vTaskPlaceOnEventList`) → `unlockTx`,
`unlockRx` (the two critical sections of `prvUnlockQueue`) → `resume`
(`xTaskResumeAll`) → `yield` (`portYIELD_WITHIN_API`) → `try` again; `outcome`
records whether the suspended section ended in blocking, in a retry or in
failure, and `recheck` is the last look of a receiver that gives up. `vTaskDelay`
has the pcs `suspend`, `delay`, `resume`, `delayed`.

Abstractions: a ready list is a set, so the choice among ready tasks of one
priority is free (this contains round robin); event lists keep their order
(`ahead`); a finite wait may expire at any tick, which includes every
arrangement of tick counts; the messages are only counted; `xPendedTicks` is
"some or none" (a tick more makes nothing different but the waits it expires,
and `ResumeAll` may expire any set of them). Interrupts are free to arrive
whenever they are enabled.

`PlaceOnEventList` is vTaskPlaceOnEventList with the move to the delayed list in
one step because no interrupt takes a task off these lists while the queue is
locked and the scheduler is suspended (`LockedListsLeftAlone`).

### KernelMutex

A critical section is one step, and so is what `xQueueSemaphoreTake` does between
`vTaskSuspendAll` and `xTaskResumeAll`: no interrupt handler uses a mutex, and a tick
held back there does afterwards what it would do just after. `take` → `block` →
`recheck` → `disinherit` are the places at which a taking task can be overtaken.
`prio` is `uxPriority`, `Base` is `uxBasePriority`, `held` is `uxMutexesHeld`, and the
line of a mutex keeps its order in `ahead`. `HighestPriorityRuns` is checked in
`mutex_yield` only, where it fails (below). `WaitersWoken` has a condition, because
inheritance is not transitive: `xTaskPriorityInherit` raises the holder, not those the
holder waits for in turn. `Blockers(h)` are the tasks that stand, lock by lock, between
`h` and what it waits for, and `HeldBack(t)` says that one of them is below `t`; the
property promises an end of the wait unless that goes on for ever.

### KernelTick and Alarm

`TickType_t` has `Wrap` values and `xNumOfOverflows` has `WrapOverflows`; sums and
differences wrap. The only history variable is `due`, the ticks until the call of a
task is due, counted without wrap: `TimeoutsExact` compares it with what
`xTaskCheckForTimeOut` decides. The refinement mapping `lefts` computes from the two
delayed lists how many ticks a task still sleeps, and `Alarm` says that this number
goes down by one at each tick and is otherwise changed by an event only.

### QueueRing and Fifo

The ring counts addresses in items. `given` and `got` are the caller's buffers.
`Contents` reads `messages` slots from `pcReadFrom + 1` on and is the refinement
mapping to `Fifo!items`.

### Heap4r

The memory is an array of eight-byte units, each a header (`BlockLink_t`), a unit
of the owner's data, or raw. What lies between `vTaskSuspendAll` and
`xTaskResumeAll` is one step, what `vPortFree` and `vPortReAlloc` do outside is a
step of its own. A block is on the free list when its header has a link (`FreeIn`).
The two loops over the list are stated by what they end at, which an address-ordered
list determines: `FirstFit` is the first block with room, `Before` the last one before
an address. That the list is so ordered is part of `BlocksTile`; should it not be, the
link that `Before` looks for need not be the one the loop finds, but then the run and
the proof have already failed. `Take` marks the block before the rest of it is
inserted, `pvPortMalloc` after; nobody can see the difference. `size_t` has `SizeBits` bits and its sums and products wrap
where the code's do. A failed allocation stops the task (`Halt`), as the hook
does, so the run turns deadlock checking off: all tasks may be halted.

### SysSercom

Clients call (`Call`), wait for the queue and post (`Post`), poll (`Answered`)
and, after an EEPROM page, delay (`DelayOver`); the service creates its queue,
receives, transfers page by page (`MovePage`), may fail at each of them (`Fail`),
and writes the status through the pointer (`Answer`). The queue is the FIFO that
`QueueRing` is shown to implement and whose wakeups `KernelQueue` covers. A call
with size zero, for which the status word of `sys_eeprom_write` would be read
uninitialised, has no caller.

`SF` of `Post` stands for the wakeup of a sender, which `KernelQueue` shows.

### Llfs and FileStore

The media is an array of sectors with their free/claimed/partial/full encoding in
COUNT and LINK, index sectors with records, and the mark byte. An access to the
media is a step: a link update is one page, a sector write two pages, each
written whole. `loc` holds the locals of the call, `file` the open `lfile_t` with
its cached sector; `file.intent` and `file.got` are history: the bytes the caller
has written and read. `PowerCut` forgets everything but the media.
`IndexFrom` and `ChainOf`, in which the properties are stated, are least closed sets
of sectors, so they are defined for any links, also for links in a circle.
Assumptions: `Erased` is no record and `NoFile` no file (`NullsAssumption`); one file is
open at a time and one task uses the file system; the
first page of an index sector has the first half of its records (slots 0 to 7 of 15), the
second page the others with NEXT and the mark (`FirstPageSize`), as it has the second
half of a data sector with COUNT and LINK; a wildcard
deletes any set of names of the instance; `lf_read` is modelled for files opened
for reading; a caller stops after a short write. `FileStore` says that every step
of the media creates, empties, extends or removes one file, or, where the volume may be
formatted, removes some: a cut between the two pages of the format's index write leaves
the files whose records are in the second page. The mapping reads the files off the media: a record whose first sector is free is
not a file.

### SdCard

The tasks are `fat` (fat_task), `shell` and `usbd`. `usbd` has a higher priority than
the others and polls during a transfer, so they run only while it waits (`Runs`). The
driver's `cardState` and the initialisation in progress (`initing`) are shared
without a lock, as in the code; `xSDBusy` is taken for ten ticks (`Take`,
`TakeTimesOut`). A transfer is `good`, `spoilt` (the card went, or the data phase
failed) or `dead` (fat_task has reset the controller under it; it polls for data that
never come and keeps the mutex, as the code does). Any transfer may fail, the read of
the boot sector too, and its result is dropped as in `_mci_sync_start_read_blocks`, so
what FatFs then finds in its window is what the window held (`Windows`). A card that has
been put in and not initialised since does not answer, whatever the driver's state says
(`answers`). Of FatFs the model has `f_mount`, `mount_volume` and `validate`: the volume
object is the card it was mounted from and the card whose boot sector its window holds,
an open file is the card it is of, and the mount identifier is what ties the two. Cards
are taken out and put in at any point.

`sound` is history, and the condition of both properties. It ends when a boot sector is
mounted that was not read (`Misread`), when fat_task and the shell are at work on the card
together, or when one of them is in FatFs with a card in the slot that fat_task has not
seen (`Disturbing`); it comes back when the volume has been unmounted and nobody is in
FatFs but fat_task about to mount (`Clean`). The code prevents none of the three.
`CardsNotMixed` fails without any one of them, `HostWritesNotForgotten` without either of
the first two: they are in the list of what was met while modelling. No other failing transfer, swap of cards, reset or timeout ends `sound`.

## What the runs check

| run | instance | shows |
|---|---|---|
| `queue_core` | a receiver of high priority that also peeks, delays and resets, a sender, a task that does both, one slot, every wait, interrupts that send and receive; fair | types; no lost wakeup for receivers or senders; priority order of event lists; one place per task; every blocked task can be woken; the running task is of highest priority; the suspended section and the queue lock are exclusive; a receiver of highest priority does not stay blocked beside a message |
| `mutex` | three tasks of three priorities nest two mutexes, a fourth between the upper two uses a third one, waits for ever and with a timeout; fair | a raised priority has a cause, a holder is not outranked by its line, the most important task is not left waiting unless its holder waits in turn for a task that stays below it |
| `mutex_yield` | the three users of `xSDBusy` at the priorities of the board | disagreement 2 below |
| `tick` | two tasks, a tick count of four values, a count of two overflows, two held back ticks | no wakeup is missed at the wrap, a call fails exactly when its time is over, refinement of `Alarm` |
| `ring` | queues of one and of three slots, three items | the ring is a FIFO; pointers and count agree |
| `heap` | two tasks, two blocks each, thirteen units, 8-bit sizes | blocks tile the heap, free blocks are merged, counters agree, data survives, blocks are large enough although size sums wrap |
| `sercom` | shell, boot task, keyboard, two pages, a queue of two; fair | one request per polling client; complete reads; pages in order; every call returns, also a failing one |
| `llfs` | two names, three data sectors, two records per index sector, no faults | content, no lost sector, cache and media, one record per name, refinement of `FileStore`, the index growing into its second sector, a full volume |
| `llfs_faults` | the same with power cuts and failing accesses, no deletes | files stay separate and no link leads into a free sector |
| `llfs_power_cut` | three names, formats and power cuts, two records in the first page of the one index sector and one in the second; fair | refinement of `FileStore` at every cut, a format removes files and damages none, every call on what is left returns |
| `llfs_delete_cut` | a delete and a power cut | disagreement 1 below |
| `sd` | two cards that come and go at any point, failing transfers, a countdown of two | under the conditions of `sound`: FatFs works with the tables of a card on its own blocks; no write of the host is forgotten |

Bounds. Two priorities with two tasks in one of them give a preempting task,
equal rivals and a bystander; one slot makes the queue full and empty in turn,
two give a reset or a peek something to leave. The lock counters saturate at four
(`NumberOfTasks`). In the ring three slots give every alignment of two pointers,
three items distinguish positions, and one slot is the only length that may be
overwritten. The service's queue has four places in the code and fewer clients
than that; two places for three clients also make a client wait for room. Thirteen
units hold three blocks of the smallest size and the pieces between them; the
requests include both ends of the range of `size_t`. LLFS with two records per
index sector, of which the second loses its last one to the index mark, has to grow
its index at the second file; sectors of two data bytes make a file of three bytes
use two sectors, and three data sectors fill up. A power cut may come any number of
times. No counter of the models is unbounded: `balance` is bounded by the blocks,
`held` by the mutexes, `due` by the longest wait. Three mutex users of three
priorities with two mutexes give the classic inversion (the middle task between the
lowest and the highest) and the nested holder whose priority must not fall at the
first give; the fourth task with a mutex of its own keeps the processor busy above a
holder that has not inherited enough, which takes four tasks and three mutexes. Longer
chains of holders than two are left to the proofs of `PriorityHasACause` and
`HolderKeepsUp`. A tick count of four
values wraps within the longest sleep, which is where the two lists and the subtraction
are difficult; the proof covers all widths. Two cards tell "the same card again" from
"another card", and a countdown of two has a pass that is the last and one that is not.
`llfs_power_cut` writes one fixed content, as it is about the structure; its index
sector has five slots (volume, three files, link), the fewest that put two files in
the first page and one in the second.

Symmetry is used only in runs without liveness, for tasks of equal role or names.

Fairness. `KernelQueue!FairSpec`: the processor executes (a pending PendSV is
taken, the running task continues); interrupts are not fair. There is no fairness
between tasks: a receiver of the highest priority does not stay blocked beside a
message because whoever brings the message wakes it.
`KernelMutex!FairSpec`: the processor executes, and a task that holds a mutex gives it
back some time (strong fairness of `Give` for each mutex the task uses: between two turns
it may be preempted).
`SysSercom!FairSpec`: service and clients have one priority and every loop yields
or blocks, so each of them runs again and again (weak fairness); a client that
waits for a place in the queue is woken when the service takes a request and runs
while the transfer yields, before any other client can post (strong fairness of
`Post`). A client is not obliged to call.
`Llfs!FairSpec`: a call that has begun continues.
`SdCard` has no fairness: it is about safety only.

## What is proved

All theorems are for any set of tasks, priorities, lengths, calls and interrupt
choices, under the named assumptions on the constants.

* `KernelQueueProofs!SectionCorrect`: `TypeOK /\ SuspendedSectionExclusive`. Types
  alone are not inductive: that `prvLockQueue` finds the lock open, that a
  wakeup finds the pending-ready list empty once the scheduler runs, and that
  only the running task is inside need the exclusive section.
* `LockedListsCorrect`: an action property from the same invariant: while the
  queue is locked an ISR changes no event list.
* `PlacesCorrect` (`OnePlace /\ BlockedCanBeWoken`) and `PreemptionCorrect`
  (`HighestPriorityRuns`) from the inductive invariant `Places`, whose parts are
  `CallConsistent` (what `outcome`, `op` and `wait` may be at each pc),
  `OnePlace`, `BlockedCanBeWoken`, `BlockedAfterLeaving` (a task that is not
  ready is past the step where it left its ready list, so no step of it is taken
  twice), `RunningIsReady` and `NobodyOutranks` (a ready task of higher priority
  always comes with a pending switch). `OnePlace` needs `BlockedAfterLeaving`
  because a task places itself on an event list only while it is ready;
  preemption needs `NobodyOutranks` because each wakeup compares with the running
  task only.
* `KernelQueueProofs!ListsCorrect` (`ListsByPriority`): `vListInsert` keeps a line in
  order whoever is in it, and `uxListRemove` keeps it from any place.
* `MessagesTaken` (`EveryMessageHasATaker`) and `SlotsTaken` (`EverySlotHasATaker`): no
  wakeup is lost. `Balance` says it with cardinalities: while the line is not empty, the
  tasks on their way and the wakeups the lock has deferred are at least as many as the
  messages (the free slots). It needs `PlaceTakes` (a task that is about to take its
  place has just seen the queue empty or full, or the lock has counted what has changed
  since), `LockHeld` (so an interrupt counts instead of waking), and `FirstCount` (a
  wakeup that leaves somebody in the line has taken as many as it was to take, which
  holds because the line is ordered). `SlotsTaken` assumes `OneSlotOrNoReset`:
  `xQueueReset` frees all slots and wakes one sender, so in a longer queue it leaves
  free slots beside waiting senders.
* `QueueRingProofs!PointersCorrect` and `RingImplementsFifo`: pointers and count
  agree for every length, and from that each operation on slots is the one on the
  sequence. The arithmetic of wrap-around is in `SlotLemma` and `ItemsLemma`.
* `KernelMutexProofs!PrioritiesCorrect` and `HolderKeepsUpCorrect`: for every number
  of tasks and mutexes and any nesting. That a holder keeps up with its line needs
  `Lines`: whoever stands in a line waits for that mutex and is not ready, and a line
  is a linear order; so an ordered line has its highest task at its head, which is
  the one that disinheriting after a timeout looks at.
* `KernelTickProofs!TimeCorrect` and `AlarmImplemented`: for every width of the two
  counters. The invariant is `Sections` (who may have the scheduler suspended and
  what waits for it), `Lists` (a wake time in the current list lies after the count,
  one in the overflow list before it, and none is before the next unblock time) and
  `Times` (`due` is what the task had left when it last looked, less the ticks since,
  and it looks within one turn of the counter).
* `SysSercomProofs!TypeCorrect`, `RequestsCorrect`, `ReadsCorrect`, `WritesCorrect`:
  for any clients, calls, pages and queue length. `Rendezvous` is the invariant:
  requests in the queue are of different clients, each is the one its client asks for
  and waits for (`QueueWaitedFor`, `ServedWaitedFor`), and whoever polls has one
  (`PollerHasRequest`). `ReadSoFar` and `WriteSoFar` add how far the data has got, at
  the transfer, at the answer, at the poll and after the return. Writes keep their
  pages only if one client writes at a time, which is the theorem's assumption
  `OneWriterAtMost`.
* `SdCardProofs!TypeCorrect`, `CardsNotMixedCorrect` and `HostWritesNotForgottenCorrect`:
  for any set of cards and any countdown. `Protocol` is what holds always: a transfer is
  made by the holder of the mutex, which task can be where, a card brings data only when
  it has been initialised since it was put in (`Answering`), a valid file is of the mounted
  volume. `Volume` is what holds while FatFs is `sound`: the mounted volume is of the card
  that answers and nobody initialises one (`MountedWell`), what was just read into the
  window is the boot sector of that card (`FoundIsSlot`, `ReadsSeen`), the shell works on
  a mounted volume, and a write is remembered from the read of the boot sector on
  (`WritesKnown`). `Volume` is not inductive over a disturbance, so it is rebuilt:
  `CleanLemma` shows that it holds whenever FatFs has become clean, and `SoundLemma` that
  a step has to keep it only while FatFs stays sound.

* `Heap4rProofs`: `BlocksTileHolds`, `FullyMergedHolds`, `DataIntactHolds` and
  `LargeEnoughHolds`, for any heap, width of `size_t`, tasks and requests. The facts
  about lists and tiles come first, apart from the memory (`Chain`, `Tiles`: a link
  put in or taken out, two neighbours joined, one tile split). `HeapOK` says the free
  blocks are a chain and, with a set of blocks in use, tile the heap; `InsertLemma`
  shows for the four outcomes of `prvInsertBlockIntoFreeList` (alone, merged behind,
  before, or on both sides) that it keeps that and changes nothing but the headers of
  free blocks, and `TakeLemma` the same for the search, the unlinking and the split.
  The invariant `Inv` adds who uses which block (`Uses`, `Apart`: no block is of two
  tasks, also not while one is half freed or half copied) and what each task relies on
  (`TaskOK`). `DataIntact` needs it because a block's header is what keeps others out.
  The search for the block before an address is by least elements (`LeastLemma`).
* `Heap4rProofs!CountersAgreeHolds`: `CountInv` says that the free units are all units
  less those of the blocks in use (`UnitsOf`), and the balance is the number of these
  blocks. A step that takes or gives back a block changes the one set by the interval of
  that block, which no other block meets (`UnitsTaken`), and the cardinality theorems
  of the library count it. The other steps keep the blocks in use and their sizes
  (`KeepsBlocks`), splits and merges of free blocks included.
* `LlfsProofs!TypeCorrect`, `FilesSeparateCorrect` and `NoLinkIntoFreeCorrect`, for any
  volume, names, modes and calls. `IInv` says of the media: what a sector is can be
  read off its mark and its LINK (`MarksOK`); a link leads into a sector of a file, and
  no two into the same (`LinksOK`); a record leads to a first sector, another record to
  another (`RecordsOK`, `RecordsUsed`); and of the call: which operation each step
  belongs to (`OpsOK`), what its locals point at (`CallOK`: a sector that was claimed is
  used and nothing leads to it yet; what `lf_clean_data` frees is a chain nothing leads
  to), what the cached sector of an open file is good for (`FileOK`). So the order
  claim-before-link and let-go-before-free is what the proof rests on. A file's sectors
  are the least set closed under its links (`ChainOf`), so two chains can only meet
  where two links do, or one leads to the head of the other (`ChainsDisjoint`). These
  theorems assume `SafeCalls`: the volume is not formatted, and files are deleted only
  if neither the power nor an access fails. Both are needed: `lf_delete` lets go of the
  record last (disagreement 1 below), and `lf_format` releases sectors one by one of a
  volume whose other index sectors still hold records.
* `LlfsProofs!SectorsAccountedFor` and `OneRecordPerNameCorrect`, when nothing fails
  (`FaultFree`); after a power cut a sector that was claimed and not linked is lost, and
  after a read error `lf_open` takes a name for a new one. `WholeInv` adds to `IInv`: the
  index is one list (`Indexed`), every sector of a file is in the chain of a record or
  of what the call at work holds (`Accounted`, `Heads`), and a search has left no record
  of the name behind it (`NamesOK`). A step that cuts a link splits a chain in what comes
  before and after it, one that adds a link joins two, which the lemmas on least closed
  sets say.
* `LlfsProofs!ReadDeliversContentHolds` and `MediaFollowsCacheHolds`, under
  `SafeCalls`; the second also assumes that no access errs, because `lf_close` and
  `lf_write` drop the result of a failed flush. `Before(media, h, e, d)` says that the
  links lead from sector `h` to sector `e` (`Way`) and that `d` are the bytes of the
  sectors before `e`; `WayContent` then says that `Content(h)` is `d`, what `e` holds,
  and what follows it. A path meets no sector twice, so it is shorter than the volume
  (`WayShort`, by the cardinality theorems) and the bound in `Content` is never reached.
  `Content` is a recursive function, so what it returns at `n` is unfolded from its
  definition (`ContentLemma`) and carried along a path by a least counterexample.
  `ReadSoFar` says that `got` is what lies before the position on the path to the sector
  being read; `WrittenSoFar` says that `intent` is what lies before the last sector
  followed by what the cache holds of it, also half way through the page writes
  (`Filled`).
* `LlfsProofs!ImplementsFileStoreHolds`: when nothing fails (`FaultFree`), `Llfs`
  implements `FileStore`, for any volume and calls. `FilesLemma` turns the mapping
  `Files` into a relation: `Is(p, n, c)` says that record `p` is of the file `n` that
  holds `c`, and the files are exactly what this relation says because a name has one
  record. What a write changes is then said record by record: `ContentKept` (sectors
  that lead to none but each other and keep links and bytes hold what they held) gives
  `UsedStay` for the writes that no file notices (a claim, an index sector page by page,
  a link to a new one, the erasing of a record whose file is gone) and `OnlyFile` for
  those that one file notices: `Creates` (the record), `Empties` (the truncation),
  `Removes` (the first sector freed), `Extends` (the second page of the cached sector).
  The other files stay because chains do not meet, and the file that a sector in use
  belongs to is found through `Accounted` (`OwnerLemma`). That the two page writes of a
  sector and the link to the next one never shorten or garble a file needs one invariant
  more, `CacheAhead`: a changed sector is on the media a last one that is not full, and
  the bytes its COUNT counts are those of the cache. So the first page brings nothing
  that counts yet, and the second makes what is there a prefix of what is new.

Only model-checked: liveness and everything under fairness (`ReceiversServed`,
`WaitersWoken`, `EveryCallReturns`, `CallsReturn`), which the
prover does not reach; of `Llfs` what is said of power cuts and failing accesses
beside deletes and formats, and the refinement of `FileStore` when the power fails
(`llfs_power_cut`). `HighestPriorityRuns` of
`KernelMutex` does not hold and has a run that shows it.

## Where code and documents disagree

Each of these two has a run that shows it.

1. `lf_delete` frees the sectors before the record (`llfs.c:400`): after a power
   cut between the two, the next file shares a sector with the one deleted. The
   rule it breaks is stated at `llfs.c:525` (`llfs_delete_cut`).
2. A give that lowers its caller's inherited priority yields for that only when the
   mutex has no waiter (`queue.c:934`): with a waiter of no higher priority the caller
   goes on although a ready task now outranks it. It comes about when the task the
   priority came from has given up waiting but another waits on (`mutex_yield`).

Met while modelling, and not the subject of a run:

* `lf_add_record` links the index to a sector that is not claimed yet (`llfs.c:200`,
  image written at 206): after a cut the index leads into a free sector.
* `lf_open` takes a read error in `lf_find_record` for "not found" (`llfs.c:453`,
  documented at 273) and creates a second record.
* `xQueueReset` wakes one sender however many slots it frees (`kernel/queue.c:325`): in
  a queue of several slots other senders wait on beside free ones until something is
  received. The assumption of `SlotsTaken` is there for it. The system resets the
  keyboard queue (`bios/keyboard.c:250`), to which only the scanner sends.
* A name longer than `LLFS_FILENAME_LEN` is documented as truncated (`llfs.c:431`),
  but the search compares it whole (`llfs.c:239`).
* Priority inheritance is not transitive (`kernel/tasks.c:4117`): a task that holds a
  mutex and waits for another does not hand on what it inherits. The most important task
  can wait for it for ever, while a ready task between the two runs.
* fat_task mounts and unmounts while the shell may be inside FatFs, which is configured
  as not reentrant (`ff/ffconf.h:276`); also two tasks may initialise the card at a time
  (`sd_mmc.c:1355`), and the one that fails leaves it "unusable" for both.
* The shell may mount a card that fat_task has not seen yet, and fat_task mounts one that
  was put in after it looked, when the countdown ends in that pass. When the check of the
  card that fat_task makes on insertion fails (`ff/fat.c:129`), it does not unmount: what
  the shell has mounted stays mounted.
* `_mci_sync_start_read_blocks` drops the result of `_mci_sync_read_word`
  (`sd_mmc/hpl_sdhc.c:585`), so `sd_mmc_start_read_blocks` reports success where
  `sd_mmc/sd_mmc.h:205` speaks of errors. When the boot sector read of a mount errs in
  this way, the volume is taken from what the window held before, which may be another
  card's, or what the card held before the host wrote to it.
* The last three are behind the conditions of `sound` in `SdCard`.
* A format and a power cut can bring old files back, when the index later grows into the
  sector that was its second one before the format and the power fails between the link
  and the write of that sector (`llfs.c:81`, `llfs.c:200`).

## What is not modelled

The status list in `PROJECT.json` gives the reason for every part. In the modelled
files: notifications, changes of priority, creation and deletion of tasks, recursive
mutexes and queue sets, which the system does not use or compiles out; suspension of
single tasks; heap statistics and the read-only queries of LLFS; `sdrd`, `disk_ioctl`
and `FATReady`; formatting and logging. Whole parts without a module: the keyboard
scanner, the LCD refresh, the terminal and its FIFO, command line and editors, the
shell and `sys_config.c`; software timers, event groups and stream buffers are in the
repository but nothing uses them. Of FatFs the mount and the
validation of files are modelled, of the SD/MMC driver the card state and the outcome of
transfers. Most lines of the repository are vendored (FatFs,
CMSIS and device headers, TinyUSB, SD/MMC driver, Unicode tables): of these only the
states the modelled parts depend on appear.

Three limits to keep in mind when reading the results: the properties of `SdCard` hold
under the conditions of `sound`, which the code does not ensure; `lf_format` leaves the
type and mark of a former second index sector, so `llfs_power_cut`, which formats, keeps
its records in the first one, and with a growing index `ImplementsFileStore` fails as
said above; and power cuts during a delete are covered only by the run
that shows them failing, those of a growing index only by `llfs_faults`.

## Plan

1. `SysConfig` on `Llfs`: what is loaded after an interrupted save or a read error.
2. `Keyboard` on `SysSercom`: full queue against break, key repeat; `I2cPort`: the
   byte-level state machine as a refinement of `MovePage`/`Fail`/`Succeed`.
3. `Allocator`: an abstract allocator, `Heap4r` shown to implement it.
4. `UtermFifo`, `History` and `EditLine` as operators against a reference; the
   shell's path list and script stack on the heap.

Proofs: the refinement of `FileStore` by `Llfs` with power cuts. `Accounted` and
`Indexed` then have to allow sectors that were claimed and not linked, and an index
whose last link leads into a free sector.
