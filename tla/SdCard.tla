------------------------------- MODULE SdCard -------------------------------
(***************************************************************************)
(* The SD card between its three users: fat_task (src/ff/fat.c), which     *)
(* watches the card detect pin and mounts the volume, the shell, which     *)
(* works on files through FatFs, and the USB device task, which reads and  *)
(* writes blocks for the host (src/tusb/msc_disk.c).  They meet in         *)
(* disk_read and disk_write (src/ff/diskio.c), under the mutex xSDBusy,    *)
(* and in the state of the driver (src/sd_mmc/sd_mmc.c), under no lock.    *)
(*                                                                         *)
(* Granularity: a step ends where the task reads or writes shared state.   *)
(* The USB task has a higher priority than the other two and polls during  *)
(* a transfer, so they run only while it waits for the host or for the     *)
(* mutex; they have one priority and take turns at any point.              *)
(*                                                                         *)
(* Data: a block is not told from another, only its card is.  Of the       *)
(* volume object of FatFs (src/ff/ff.c) the model keeps fs_type, the card  *)
(* whose boot sector it was made from, and what the sector window last     *)
(* held; of an open file, the card, as long as its mount identifier is the *)
(* volume's.                                                               *)
(* Left out: the raw block read of the shell (sdrd), which takes no mutex, *)
(* and FATReady, which only tells the shell when to start the USB task.    *)
(***************************************************************************)
EXTENDS Integers

CONSTANTS
  Cards,          \* the cards that come and go
  NoCard,         \* no card in the slot, or a boot sector of none
  CountDown       \* the passes of fat_task from an external write to the remount (20)

ASSUME CardsAssumption == NoCard \notin Cards
ASSUME CountDownAssumption == CountDown \in Nat \ {0}

Tasks == {"fat", "shell", "usbd"}
MountCalls == {"insert", "update", "open"}      \* the calls that mount the volume

VARIABLES
  slot,             \* the card in the slot; the card detect pin is set when there is one
  answers,          \* that card has been initialised since it was put in
  lastSdCsPin,      \* the pin as fat_task last saw it
  updateCountDown,
  extWrite,
  cardState,        \* sd_mmc_cards[0].state; "unset" before the first sd_mmc_init
  initing,          \* the tasks in sd_mmc_mci_card_init
  xSDBusy,          \* its holder, "free", or "null" before fat_task has created it
  transfer,         \* the transfer in progress is "good", "spoilt", or "dead": its controller was reset
  registered,       \* FatFs[0] is the volume object
  volume,           \* the volume object: the card it is mounted from, and whose boot sector its window holds
  stale,            \* the host has written to the card since the volume was read
  file,             \* the card of the file the shell has open in the present mount, if any
  pc, call,         \* where each task is, in which of its calls
  sound             \* history: the boot sector of the last mount came from the card, and since
                    \* then fat_task and the shell have not been at work on the card together

cardVars == <<cardState, initing, answers>>
fatVars == <<lastSdCsPin, updateCountDown, extWrite>>
fsVars == <<registered, volume, stale, file>>
stepVars == <<slot, fatVars, cardVars, xSDBusy, transfer, fsVars, pc, call>>
vars == <<stepVars, sound>>

TypeOK ==
  /\ slot \in Cards \union {NoCard} /\ answers \in BOOLEAN
  /\ lastSdCsPin \in BOOLEAN /\ extWrite \in BOOLEAN
  /\ updateCountDown \in 0..CountDown
  /\ cardState \in {"unset", "noCard", "init", "ready", "unusable"}
  /\ initing \subseteq {"fat", "shell"}
  /\ xSDBusy \in Tasks \union {"free", "null"}
  /\ transfer \in {"good", "spoilt", "dead"} /\ registered \in BOOLEAN /\ stale \in BOOLEAN
  /\ volume \in [card : Cards \union {NoCard}, win : Cards \union {NoCard}]
  /\ file \in Cards \union {NoCard}
  /\ pc \in [Tasks -> {"start", "look", "detect", "mount", "unmount", "ext", "count", "remount", "delay",
                       "idle", "enter", "status", "initialize", "validate", "take", "select",
                       "transfer", "found", "ok", "failed", "notify"}]
  /\ call \in [Tasks -> MountCalls \union {"search", "use", "read", "write"}]
  /\ sound \in BOOLEAN

Pin == slot # NoCard
Mounted == volume.card # NoCard          \* fs_type

FirstCall == [fat |-> "insert", shell |-> "open", usbd |-> "read"]

Init ==
  /\ slot \in Cards \union {NoCard}
  /\ lastSdCsPin = ~Pin
  /\ updateCountDown = 0 /\ extWrite = FALSE
  /\ cardState = "unset" /\ initing = {} /\ answers = FALSE
  /\ xSDBusy = "null" /\ transfer = "good"
  /\ registered = FALSE
  /\ volume = [card |-> NoCard, win |-> NoCard]
  /\ stale = FALSE
  /\ file = NoCard
  /\ pc = [t \in Tasks |-> IF t = "fat" THEN "start" ELSE "idle"]
  /\ call = FirstCall
  /\ sound = TRUE

\* The USB task waits, so the tasks below its priority may run.
Runs(t) == t # "usbd" => pc["usbd"] \in {"idle", "take"}

\* What becomes of the transfer in progress, if there is one.
Disturbed(how) == IF transfer # "dead" /\ \E t \in Tasks : pc[t] = "transfer" THEN how ELSE transfer

At(t, place) == pc[t] = place /\ Runs(t)
Begin(t, c, place) == call' = [call EXCEPT ![t] = c] /\ pc' = [pc EXCEPT ![t] = place]
Goto(t, place) == Begin(t, IF place = "idle" THEN FirstCall[t] ELSE call[t], place)

---------------------------------------------------------------------------
\* The driver

\* The commands of an initialisation spoil a transfer of another task, or leave one whose
\* controller was reset an error to end with.
Interfered == {transfer} \union IF \E t \in Tasks : pc[t] = "transfer" THEN {"spoilt"} ELSE {}

\* sd_mmc_select_slot of a card that is not initialised asks for its initialisation.
SelectOk == Pin /\ cardState \notin {"noCard", "unusable", "init"}
StateSelected == IF Pin /\ cardState \in {"noCard", "unusable"} THEN "init" ELSE cardState

CheckPoints == {"detect", "status", "initialize", "validate"}

\* Where a task goes when sd_mmc_check has told it that the card is ready, or is not.
CardReady == [detect |-> "mount", status |-> "ok", initialize |-> "take", validate |-> "take"]
CardNotReady == [detect |-> "ext", status |-> "initialize", initialize |-> "failed", validate |-> "idle"]

\* In mount_volume the loss of the drive clears fs_type.
NotReady(t) ==
  /\ Goto(t, CardNotReady[pc[t]])
  /\ volume' = IF pc[t] = "status" THEN [volume EXCEPT !.card = NoCard] ELSE volume
  /\ UNCHANGED <<registered, stale, file>>

\* sd_mmc_check, in a loop until the card is not being initialised.
Check(t) ==
  /\ pc[t] \in CheckPoints /\ Runs(t) /\ t \notin initing
  /\ cardState' = StateSelected
  /\ \/ ~Pin /\ NotReady(t) /\ UNCHANGED initing
     \/ Pin /\ ~SelectOk /\ initing' = initing \union {t} /\ UNCHANGED <<pc, call, fsVars>>
     \/ SelectOk /\ Goto(t, CardReady[pc[t]]) /\ UNCHANGED <<initing, fsVars>>
  /\ UNCHANGED <<slot, answers, fatVars, xSDBusy, transfer>>

\* The end of sd_mmc_mci_card_init: on success the loop checks once more.
CardInitialised(t) ==
  /\ t \in initing /\ Runs(t)
  /\ initing' = initing \ {t}
  /\ \/ Pin /\ cardState' = "ready" /\ answers' = TRUE /\ UNCHANGED <<pc, call, fsVars>>
     \/ cardState' = "unusable" /\ NotReady(t) /\ UNCHANGED answers
  /\ transfer' \in Interfered
  /\ UNCHANGED <<slot, fatVars, xSDBusy>>

---------------------------------------------------------------------------
\* disk_read and disk_write

\* A task that fails goes back to where its call ends.
Fails(t) == Goto(t, IF call[t] \in MountCalls THEN "failed" ELSE "idle")

Take(t) ==
  /\ At(t, "take")
  /\ xSDBusy = "free"
  /\ xSDBusy' = t
  /\ Goto(t, "select")
  /\ UNCHANGED <<slot, fatVars, cardVars, transfer, fsVars>>

TakeTimesOut(t) ==
  /\ At(t, "take")
  /\ xSDBusy \in Tasks
  /\ Fails(t)
  /\ UNCHANGED <<slot, fatVars, cardVars, xSDBusy, transfer, fsVars>>

\* The type of the card is asked for, then a command is sent: either may fail, the command
\* also because of the error that a spoilt transfer has left in the controller.
NoTransfer(t) ==
  /\ At(t, "select")
  /\ cardState' = StateSelected
  /\ xSDBusy' = "free"
  /\ Fails(t)
  /\ UNCHANGED <<slot, fatVars, initing, answers, transfer, fsVars>>

\* Only a card that has been initialised answers the command; the data phase may fail.
StartTransfer(t) ==
  /\ At(t, "select")
  /\ SelectOk /\ answers
  /\ transfer' \in {"good", "spoilt"}
  /\ stale' = (stale \/ call[t] = "write")
  /\ Goto(t, "transfer")
  /\ UNCHANGED <<slot, fatVars, cardVars, xSDBusy, registered, volume, file>>

\* What the sector window may hold after a read: what it held, when no data came or the
\* data went into the buffer of a file, the boot sector, or a sector that is none.
Windows(t) ==
  IF transfer = "good" /\ call[t] \in MountCalls THEN {slot}
  ELSE {volume.win} \union IF transfer = "good" /\ t # "usbd" THEN {NoCard} ELSE {}

\* sd_mmc_start_read_blocks and its like report success whatever the data phase did;
\* they poll for an error or for data, and neither comes after a reset.
EndTransfer(t) ==
  /\ At(t, "transfer")
  /\ transfer # "dead"
  /\ xSDBusy' = "free"
  /\ Goto(t, CASE call[t] \in MountCalls -> "found" [] call[t] = "write" -> "notify" [] OTHER -> "idle")
  /\ \E w \in Windows(t) : volume' = [volume EXCEPT !.win = w]
  /\ stale' = (stale /\ ~(transfer = "good" /\ call[t] \in MountCalls))
  /\ file' = IF call[t] = "search" THEN volume.card ELSE file
  /\ transfer' = "good"
  /\ UNCHANGED <<slot, fatVars, cardVars, registered>>

---------------------------------------------------------------------------
\* The volume: mount_volume of FatFs

Enter(t) ==
  /\ At(t, "enter")
  /\ Goto(t, CASE ~registered -> "failed" [] Mounted -> "status" [] OTHER -> "initialize")
  /\ UNCHANGED <<slot, fatVars, cardVars, xSDBusy, transfer, fsVars>>

NoFileSystem(t) ==
  /\ At(t, "found")
  /\ Goto(t, "failed")
  /\ UNCHANGED <<slot, fatVars, cardVars, xSDBusy, transfer, fsVars>>

\* A boot sector in the window makes a volume, with a mount identifier of its own.
FoundVolume(t) ==
  /\ At(t, "found")
  /\ volume.win # NoCard
  /\ volume' = [volume EXCEPT !.card = volume.win]
  /\ file' = NoCard
  /\ Goto(t, "ok")
  /\ UNCHANGED <<slot, fatVars, cardVars, xSDBusy, transfer, registered, stale>>

---------------------------------------------------------------------------
\* fat_task

Create ==
  /\ At("fat", "start")
  /\ xSDBusy' = "free"
  /\ lastSdCsPin' = ~Pin
  /\ Goto("fat", "look")
  /\ UNCHANGED <<slot, updateCountDown, extWrite, cardVars, transfer, fsVars>>

\* The pin has changed: sd_mmc_init and mci_sync_init reset the driver and the
\* controller, whoever uses them.
Look ==
  /\ At("fat", "look")
  /\ lastSdCsPin' = Pin
  /\ IF lastSdCsPin = Pin
     THEN Begin("fat", "insert", "ext") /\ UNCHANGED <<cardState, transfer>>
     ELSE /\ cardState' = "noCard" /\ transfer' = Disturbed("dead")
          /\ Begin("fat", "insert", IF Pin THEN "detect" ELSE "unmount")
  /\ UNCHANGED <<slot, updateCountDown, extWrite, initing, answers, xSDBusy, fsVars>>

\* Mutant: the volume stays mounted.
StaysMounted == volume

\* f_unmount: of the card that has gone, and before the volume is mounted again.
Unmounted == [volume EXCEPT !.card = NoCard]

Unmount ==
  /\ pc["fat"] \in {"unmount", "remount"} /\ Runs("fat")
  /\ registered' = FALSE
  /\ volume' = Unmounted
  /\ Goto("fat", IF pc["fat"] = "remount" THEN "mount" ELSE "ext")
  /\ UNCHANGED <<slot, fatVars, cardVars, xSDBusy, transfer, stale, file>>

Mount ==
  /\ At("fat", "mount")
  /\ registered' = TRUE
  /\ volume' = [volume EXCEPT !.card = NoCard]
  /\ Goto("fat", "enter")
  /\ UNCHANGED <<slot, fatVars, cardVars, xSDBusy, transfer, stale, file>>

\* Mutant: what the host wrote during the mount is taken for seen.
MountReturnsSeen ==
  /\ pc["fat"] \in {"ok", "failed"} /\ Runs("fat")
  /\ extWrite' = FALSE
  /\ Goto("fat", IF call["fat"] = "insert" THEN "ext" ELSE "delay")
  /\ UNCHANGED <<slot, lastSdCsPin, updateCountDown, cardVars, xSDBusy, transfer, fsVars>>

MountReturns ==
  /\ pc["fat"] \in {"ok", "failed"} /\ Runs("fat")
  /\ Goto("fat", IF call["fat"] = "insert" THEN "ext" ELSE "delay")
  /\ UNCHANGED <<slot, lastSdCsPin, updateCountDown, extWrite, cardVars, xSDBusy, transfer, fsVars>>

ExternalWrite ==
  /\ At("fat", "ext")
  /\ extWrite' = FALSE
  /\ updateCountDown' = IF extWrite THEN CountDown ELSE updateCountDown
  /\ Goto("fat", "count")
  /\ UNCHANGED <<slot, lastSdCsPin, cardVars, xSDBusy, transfer, fsVars>>

Count ==
  /\ At("fat", "count")
  /\ updateCountDown' = IF updateCountDown > 0 THEN updateCountDown - 1 ELSE 0
  /\ Begin("fat", "update", IF updateCountDown = 1 THEN "remount" ELSE "delay")
  /\ UNCHANGED <<slot, lastSdCsPin, extWrite, cardVars, xSDBusy, transfer, fsVars>>

DelayOver ==
  /\ At("fat", "delay")
  /\ Goto("fat", "look")
  /\ UNCHANGED <<slot, fatVars, cardVars, xSDBusy, transfer, fsVars>>

---------------------------------------------------------------------------
\* The shell: ls, cat, rm and red open files, search directories and use what they opened

Open ==
  /\ At("shell", "idle")
  /\ Begin("shell", "open", "enter")
  /\ UNCHANGED <<slot, fatVars, cardVars, xSDBusy, transfer, fsVars>>

\* With the volume mounted, the directory is read.
OpenSearches ==
  /\ At("shell", "ok")
  /\ Begin("shell", "search", "take")
  /\ UNCHANGED <<slot, fatVars, cardVars, xSDBusy, transfer, fsVars>>

OpenFails ==
  /\ At("shell", "failed")
  /\ Goto("shell", "idle")
  /\ UNCHANGED <<slot, fatVars, cardVars, xSDBusy, transfer, fsVars>>

\* f_read and f_write: validate compares the mount identifiers and asks for the drive.
UseFile ==
  /\ At("shell", "idle")
  /\ file # NoCard /\ Mounted
  /\ Begin("shell", "use", "validate")
  /\ UNCHANGED <<slot, fatVars, cardVars, xSDBusy, transfer, fsVars>>

---------------------------------------------------------------------------
\* The USB task, and the host behind it

\* The host asks for the capacity: sd_mmc_get_capacity selects the slot.
Capacity ==
  /\ At("usbd", "idle")
  /\ cardState # "unset"
  /\ cardState' = StateSelected
  /\ UNCHANGED <<slot, fatVars, initing, answers, xSDBusy, transfer, fsVars, pc, call>>

\* iface_sd_init starts the USB task after fat_task has had its first turn.
HostCalls(c) ==
  /\ At("usbd", "idle")
  /\ cardState # "unset"
  /\ Begin("usbd", c, "take")
  /\ UNCHANGED <<slot, fatVars, cardVars, xSDBusy, transfer, fsVars>>

\* tud_msc_write10_cb, after disk_write has succeeded.
Notify ==
  /\ At("usbd", "notify")
  /\ extWrite' = TRUE
  /\ Goto("usbd", "idle")
  /\ UNCHANGED <<slot, lastSdCsPin, updateCountDown, cardVars, xSDBusy, transfer, fsVars>>

---------------------------------------------------------------------------
\* The user of the board

Remove ==
  /\ Pin
  /\ slot' = NoCard
  /\ answers' = FALSE
  /\ transfer' = Disturbed("spoilt")
  /\ UNCHANGED <<fatVars, cardState, initing, xSDBusy, fsVars, pc, call>>

Insert(c) ==
  /\ ~Pin
  /\ slot' = c
  /\ UNCHANGED <<fatVars, cardVars, xSDBusy, transfer, fsVars, pc, call>>

---------------------------------------------------------------------------
Disk(t) == Take(t) \/ TakeTimesOut(t) \/ NoTransfer(t) \/ StartTransfer(t) \/ EndTransfer(t)
Fs(t) == Check(t) \/ CardInitialised(t) \/ Enter(t) \/ NoFileSystem(t) \/ FoundVolume(t)

FatTask ==
  Create \/ Look \/ Unmount \/ Mount \/ MountReturns \/ ExternalWrite \/ Count \/ DelayOver
  \/ Disk("fat") \/ Fs("fat")
Shell == Open \/ OpenSearches \/ OpenFails \/ UseFile \/ Disk("shell") \/ Fs("shell")
UsbTask == Disk("usbd") \/ Notify
Host == Capacity \/ \E c \in {"read", "write"} : HostCalls(c)
User == Remove \/ \E c \in Cards : Insert(c)

\* FF_FS_REENTRANT is 0: nothing keeps two tasks from being in FatFs at a time.
FatInFatFs == pc["fat"] \notin {"start", "look", "detect", "ext", "count", "delay"}
ShellInFatFs == pc["shell"] \notin {"idle", "enter", "failed"}

\* FatFs is disturbed while fat_task and the shell are at work on the card together, and
\* while one of them is on a card that fat_task has not seen.
Disturbing ==
  \/ ShellInFatFs /\ (FatInFatFs \/ pc["fat"] = "detect")
  \/ (ShellInFatFs \/ FatInFatFs) /\ Pin /\ ~lastSdCsPin

\* No volume is mounted, and nobody is in FatFs but fat_task about to mount one.
Clean == ~Mounted /\ ~ShellInFatFs /\ (FatInFatFs => pc["fat"] = "mount")

\* A task mounts a volume from a boot sector it was given no data of.
Misread == transfer # "good" /\ \E t \in Tasks : pc[t] = "transfer" /\ pc'[t] = "found"

\* FatFs is sound again when it has become clean, until one of the two happens.
Sounds == sound' = ((sound \/ Clean') /\ ~Misread /\ ~Disturbing')

Next ==
  /\ FatTask \/ Shell \/ UsbTask \/ Host \/ User
  /\ Sounds

Spec == Init /\ [][Next]_vars

---------------------------------------------------------------------------
\* FatFs does not work with the file system of one card on the blocks of another: in a
\* transfer that brings data, of a search of a directory or a use of a file, the card in
\* the slot is the card the volume or the file is of, also when cards were swapped
\* before fat_task could see it.  The conditions are those of `sound', since the volume
\* was last unmounted: the boot sector was not read without its data, fat_task and the
\* shell were not at work together, and FatFs was not on a card fat_task had not seen.
CardsNotMixed ==
  sound /\ pc["shell"] = "transfer" /\ transfer = "good" /\ call["shell"] \in {"search", "use"} =>
    slot = IF call["shell"] = "search" THEN volume.card ELSE file

\* The host writes, or fat_task will find extWrite set, or is on its way to the remount.
Remembered ==
  \/ call["usbd"] = "write" /\ pc["usbd"] \in {"transfer", "notify"}
  \/ extWrite \/ updateCountDown > 0 \/ pc["fat"] = "remount"

\* No write of the host is forgotten: as long as the volume is mounted from what the
\* card held before, the write or its notification or the countdown to the remount is
\* still under way, however they interleave with fat_task and its mounts, under the
\* conditions of `sound'.
HostWritesNotForgotten == sound /\ stale /\ Mounted => Remembered
=============================================================================
