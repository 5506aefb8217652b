---------------------------- MODULE SdCardProofs ----------------------------
(* Proofs about SdCard, for any set of cards and any countdown.            *)
EXTENDS SdCard, TLAPS

\* A transfer is made by the holder of xSDBusy.
MutexHeld == \A t \in Tasks : pc[t] \in {"select", "transfer"} => xSDBusy = t

\* Where each task can be, and in which call.
CallsFit ==
  /\ call["fat"] \in {"insert", "update"}
  /\ call["shell"] \in {"open", "search", "use"}
  /\ call["usbd"] \in {"read", "write"}
  /\ pc["usbd"] \in {"idle", "take", "select", "transfer", "notify"}
  /\ pc["shell"] \in {"idle", "enter", "status", "initialize", "validate", "take", "select",
                      "transfer", "found", "ok", "failed"}
  /\ pc["fat"] \notin {"idle", "validate", "notify"}
  /\ pc["shell"] \notin {"take", "select", "transfer", "validate"} => call["shell"] = "open"
  /\ pc["shell"] = "validate" => call["shell"] = "use"
  /\ \A t \in initing : pc[t] \in CheckPoints

\* Before fat_task has begun nobody can have the mutex, and there is no volume.
NotBegun ==
  pc["fat"] = "start" => xSDBusy = "null" /\ ~registered /\ ~Mounted /\ ~ShellInFatFs

\* Only a card that has been initialised since it was put in answers, and brings data.
Answering ==
  /\ answers => Pin
  /\ transfer = "good" /\ (\E t \in Tasks : pc[t] = "transfer") => answers

\* A file that FatFs takes for valid is of the mounted volume.
FileIsVolume == Mounted /\ file # NoCard => file = volume.card

Protocol == TypeOK /\ MutexHeld /\ CallsFit /\ NotBegun /\ Answering /\ FileIsVolume

\* A mounted volume is of the card that answers, and no card is initialised as long as
\* it is mounted: fat_task has seen the card come, and unmounts when it sees it gone.
MountedWell ==
  Mounted =>
    /\ answers => volume.card = slot
    /\ initing = {}
    /\ pc["fat"] \in {"look", "ext", "count", "delay", "remount", "unmount", "ok"}
    /\ pc["fat"] = "unmount" \/ (lastSdCsPin /\ cardState \in {"unset", "ready"})

\* The shell mounts only what is not mounted.
MountsOnce ==
  /\ pc["shell"] \in {"initialize", "found"} => ~Mounted
  /\ pc["shell"] \in {"take", "select", "transfer"} /\ call["shell"] = "open" => ~Mounted

\* A mount that reads the boot sector reads it from a card that fat_task has seen.
ReadsSeen ==
  \A t \in {"fat", "shell"} :
    pc[t] = "found" \/ (pc[t] \in {"take", "select", "transfer"} /\ call[t] \in MountCalls) =>
      /\ initing = {} /\ cardState \in {"unset", "ready"}
      /\ pc[t] \in {"transfer", "found"} => lastSdCsPin

\* A boot sector just read is that of the card that answers.
FoundIsSlot == \A t \in {"fat", "shell"} : pc[t] = "found" /\ answers => volume.win = slot

\* The shell searches and uses files of a mounted volume.
ShellInVolume ==
  /\ pc["shell"] \in {"status", "ok"} => Mounted
  /\ pc["shell"] \in {"validate", "take", "select", "transfer"} =>
       /\ call["shell"] \in {"search", "use"} => Mounted
       /\ call["shell"] = "use" => file # NoCard

\* A write is remembered from the read of the boot sector on.
WritesKnown == stale /\ (Mounted \/ \E t \in {"fat", "shell"} : pc[t] = "found") => Remembered

Volume == MountedWell /\ MountsOnce /\ ReadsSeen /\ FoundIsSlot /\ ShellInVolume /\ WritesKnown

Inv == Protocol /\ (sound => ~Disturbing /\ Volume)

-----------------------------------------------------------------------------
(* The tables of the model *)

LEMMA FirstCallLemma ==
  FirstCall["fat"] = "insert" /\ FirstCall["shell"] = "open" /\ FirstCall["usbd"] = "read"
BY DEF FirstCall

LEMMA CardReadyLemma ==
  /\ CardReady["detect"] = "mount" /\ CardReady["status"] = "ok"
  /\ CardReady["initialize"] = "take" /\ CardReady["validate"] = "take"
BY DEF CardReady

LEMMA CardNotReadyLemma ==
  /\ CardNotReady["detect"] = "ext" /\ CardNotReady["status"] = "initialize"
  /\ CardNotReady["initialize"] = "failed" /\ CardNotReady["validate"] = "idle"
BY DEF CardNotReady

-----------------------------------------------------------------------------
(* Every step keeps the invariant *)

\* FatFs that is clean works on no volume and on no file.
LEMMA CleanLemma ==
  ASSUME CallsFit', Clean'
  PROVE  Volume'
BY DEF CallsFit, Clean, Volume, MountedWell, MountsOnce, ReadsSeen, FoundIsSlot, ShellInVolume,
       WritesKnown, Mounted, FatInFatFs, ShellInFatFs

\* So a step has to keep Volume only when FatFs was sound before it, and stays so.
LEMMA SoundLemma ==
  ASSUME Sounds, Protocol', sound /\ ~Misread /\ ~Disturbing' => Volume'
  PROVE  Inv'
BY CleanLemma DEF Sounds, Protocol, Inv

LEMMA CreateStep ==
  ASSUME Inv, Sounds, Create
  PROVE  Inv'
<1>1. TypeOK'
  BY DEF TypeOK, Inv, Protocol, Sounds, Tasks, Create, Goto, Begin, cardVars, fsVars
<1>2. (MutexHeld /\ CallsFit /\ NotBegun /\ Answering /\ FileIsVolume)'
  BY DEF Inv, Protocol, TypeOK, MutexHeld, CallsFit, NotBegun, Answering, FileIsVolume,
    Pin, Mounted, Tasks, CheckPoints, Create, At, Goto, Begin, cardVars, fsVars
<1>3. sound /\ ~Misread /\ ~Disturbing' => Volume'
  BY DEF Inv, Protocol, Volume, TypeOK, ShellInFatFs, Pin, Mounted, MountedWell,
    MountsOnce, ReadsSeen, FoundIsSlot, ShellInVolume, WritesKnown, Remembered,
    Disturbing, Misread, FatInFatFs, Create, At, Goto, Begin, cardVars, fsVars
<1> QED
  BY <1>1, <1>2, <1>3, SoundLemma DEF Protocol

LEMMA LookStep ==
  ASSUME Inv, Sounds, Look
  PROVE  Inv'
<1>1. TypeOK'
  BY DEF TypeOK, Inv, Protocol, Sounds, Pin, MountCalls, Look, Begin, Disturbed, fsVars
<1>2. (MutexHeld /\ CallsFit /\ NotBegun /\ Answering /\ FileIsVolume)'
  BY DEF Inv, Protocol, TypeOK, MutexHeld, CallsFit, NotBegun, Answering, FileIsVolume,
    Pin, Mounted, Tasks, CheckPoints, Look, At, Begin, Disturbed, fsVars
<1>3. sound /\ ~Misread /\ ~Disturbing' => Volume'
  BY DEF Inv, Protocol, Volume, TypeOK, ShellInFatFs, Pin, Mounted, Tasks, MountedWell,
    MountsOnce, ReadsSeen, FoundIsSlot, ShellInVolume, WritesKnown, Remembered,
    Disturbing, Misread, FatInFatFs, Look, At, Begin, Disturbed, fsVars
<1> QED
  BY <1>1, <1>2, <1>3, SoundLemma DEF Protocol

LEMMA UnmountStep ==
  ASSUME Inv, Sounds, Unmount
  PROVE  Inv'
<1>1. volume' \in [card : Cards \union {NoCard}, win : Cards \union {NoCard}]
  BY DEF Inv, Protocol, TypeOK, Unmount, Unmounted, fatVars, cardVars
<1>2. registered' \in BOOLEAN
  BY DEF Inv, Protocol, Unmount, Unmounted, fatVars, cardVars
<1>3. TypeOK'
  BY <1>1, <1>2 DEF TypeOK, Inv, Protocol, Sounds, Tasks, Unmount, Goto, Begin,
    fatVars, cardVars
<1>4. (MutexHeld /\ CallsFit /\ NotBegun /\ Answering /\ FileIsVolume)'
  BY DEF Inv, Protocol, TypeOK, MutexHeld, CallsFit, NotBegun, Answering, FileIsVolume,
    Pin, Mounted, CheckPoints, Unmount, Goto, Begin, Unmounted, fatVars, cardVars
<1>5. sound /\ ~Misread /\ ~Disturbing' => Volume'
  BY DEF Inv, Protocol, Volume, TypeOK, ShellInFatFs, Mounted, MountedWell, MountsOnce,
    ReadsSeen, FoundIsSlot, ShellInVolume, WritesKnown, Remembered, Disturbing, Misread,
    FatInFatFs, Unmount, Goto, Begin, Unmounted, fatVars, cardVars
<1> QED
  BY <1>1, <1>2, <1>3, <1>4, <1>5, SoundLemma DEF Protocol

LEMMA MountStep ==
  ASSUME Inv, Sounds, Mount
  PROVE  Inv'
<1>1. TypeOK'
  BY DEF TypeOK, Inv, Protocol, Sounds, Tasks, Mount, Goto, Begin, fatVars, cardVars
<1>2. (MutexHeld /\ CallsFit /\ NotBegun /\ Answering /\ FileIsVolume)'
  BY DEF Inv, Protocol, TypeOK, MutexHeld, CallsFit, NotBegun, Answering, FileIsVolume,
    Pin, Mounted, CheckPoints, Mount, At, Goto, Begin, fatVars, cardVars
<1>3. sound /\ ~Misread /\ ~Disturbing' => Volume'
  BY DEF Inv, Protocol, Volume, TypeOK, Mounted, MountedWell, MountsOnce, ReadsSeen,
    FoundIsSlot, ShellInVolume, WritesKnown, Remembered, Disturbing, Misread, FatInFatFs,
    Mount, At, Goto, Begin, fatVars, cardVars
<1> QED
  BY <1>1, <1>2, <1>3, SoundLemma DEF Protocol

LEMMA MountReturnsStep ==
  ASSUME Inv, Sounds, MountReturns
  PROVE  Inv'
<1>1. TypeOK'
  BY DEF TypeOK, Inv, Protocol, Sounds, Tasks, MountReturns, Goto, Begin, cardVars,
    fsVars
<1>2. (MutexHeld /\ CallsFit /\ NotBegun /\ Answering /\ FileIsVolume)'
  BY DEF Inv, Protocol, TypeOK, MutexHeld, CallsFit, NotBegun, Answering, FileIsVolume,
    Pin, Mounted, CheckPoints, MountReturns, Goto, Begin, cardVars, fsVars
<1>3. sound /\ ~Misread /\ ~Disturbing' => Volume'
  BY DEF Inv, Protocol, Volume, TypeOK, Mounted, MountedWell, MountsOnce, ReadsSeen,
    FoundIsSlot, ShellInVolume, WritesKnown, Remembered, Disturbing, Misread, FatInFatFs,
    MountReturns, Goto, Begin, cardVars, fsVars
<1> QED
  BY <1>1, <1>2, <1>3, SoundLemma DEF Protocol

LEMMA ExternalWriteStep ==
  ASSUME Inv, Sounds, ExternalWrite
  PROVE  Inv'
<1>1. extWrite' \in BOOLEAN
  BY DEF Inv, Protocol, ExternalWrite, cardVars, fsVars
<1>2. TypeOK'
  BY <1>1, CountDownAssumption DEF TypeOK, Inv, Protocol, Sounds, Tasks, ExternalWrite,
    Goto, Begin, cardVars, fsVars
<1>3. (MutexHeld /\ CallsFit /\ NotBegun /\ Answering /\ FileIsVolume)'
  BY DEF Inv, Protocol, TypeOK, MutexHeld, CallsFit, NotBegun, Answering, FileIsVolume,
    Pin, Mounted, CheckPoints, ExternalWrite, At, Goto, Begin, cardVars, fsVars
<1>4. sound /\ ~Misread /\ ~Disturbing' => Volume'
  BY CountDownAssumption DEF Inv, Protocol, Volume, TypeOK, Mounted, MountedWell,
    MountsOnce, ReadsSeen, FoundIsSlot, ShellInVolume, WritesKnown, Remembered,
    Disturbing, Misread, FatInFatFs, ExternalWrite, At, Goto, Begin, cardVars, fsVars
<1> QED
  BY <1>1, <1>2, <1>3, <1>4, SoundLemma DEF Protocol

LEMMA CountStep ==
  ASSUME Inv, Sounds, Count
  PROVE  Inv'
<1>1. TypeOK'
  BY CountDownAssumption DEF TypeOK, Inv, Protocol, Sounds, Tasks, MountCalls, Count,
    Begin, cardVars, fsVars
<1>2. (MutexHeld /\ CallsFit /\ NotBegun /\ Answering /\ FileIsVolume)'
  BY DEF Inv, Protocol, TypeOK, MutexHeld, CallsFit, NotBegun, Answering, FileIsVolume,
    Pin, Mounted, CheckPoints, Count, At, Begin, cardVars, fsVars
<1>3. sound /\ ~Misread /\ ~Disturbing' => Volume'
  BY DEF Inv, Protocol, Volume, TypeOK, Mounted, Tasks, MountedWell, MountsOnce,
    ReadsSeen, FoundIsSlot, ShellInVolume, WritesKnown, Remembered, Disturbing, Misread,
    FatInFatFs, Count, At, Begin, cardVars, fsVars
<1> QED
  BY <1>1, <1>2, <1>3, SoundLemma DEF Protocol

LEMMA DelayOverStep ==
  ASSUME Inv, Sounds, DelayOver
  PROVE  Inv'
<1>1. TypeOK'
  BY DEF TypeOK, Inv, Protocol, Sounds, Tasks, DelayOver, Goto, Begin, fatVars,
    cardVars, fsVars
<1>2. (MutexHeld /\ CallsFit /\ NotBegun /\ Answering /\ FileIsVolume)'
  BY DEF Inv, Protocol, TypeOK, MutexHeld, CallsFit, NotBegun, Answering, FileIsVolume,
    Pin, Mounted, CheckPoints, DelayOver, At, Goto, Begin, fatVars, cardVars, fsVars
<1>3. sound /\ ~Misread /\ ~Disturbing' => Volume'
  BY DEF Inv, Protocol, Volume, TypeOK, Mounted, MountedWell, MountsOnce, ReadsSeen,
    FoundIsSlot, ShellInVolume, WritesKnown, Remembered, Disturbing, Misread, FatInFatFs,
    DelayOver, At, Goto, Begin, fatVars, cardVars, fsVars
<1> QED
  BY <1>1, <1>2, <1>3, SoundLemma DEF Protocol

LEMMA OpenStep ==
  ASSUME Inv, Sounds, Open
  PROVE  Inv'
<1>1. TypeOK'
  BY DEF TypeOK, Inv, Protocol, Sounds, Tasks, MountCalls, Open, Begin, fatVars,
    cardVars, fsVars
<1>2. (MutexHeld /\ CallsFit /\ NotBegun /\ Answering /\ FileIsVolume)'
  BY DEF Inv, Protocol, TypeOK, MutexHeld, CallsFit, NotBegun, Answering, FileIsVolume,
    ShellInFatFs, Pin, Mounted, CheckPoints, Open, At, Begin, fatVars, cardVars, fsVars
<1>3. sound /\ ~Misread /\ ~Disturbing' => Volume'
  BY DEF Inv, Protocol, Volume, TypeOK, Mounted, MountedWell, MountsOnce, ReadsSeen,
    FoundIsSlot, ShellInVolume, WritesKnown, Remembered, Disturbing, Misread, FatInFatFs,
    Open, Begin, fatVars, cardVars, fsVars
<1> QED
  BY <1>1, <1>2, <1>3, SoundLemma DEF Protocol

LEMMA OpenSearchesStep ==
  ASSUME Inv, Sounds, OpenSearches
  PROVE  Inv'
<1>1. TypeOK'
  BY DEF TypeOK, Inv, Protocol, Sounds, Tasks, OpenSearches, Begin, fatVars, cardVars,
    fsVars
<1>2. (MutexHeld /\ CallsFit /\ NotBegun /\ Answering /\ FileIsVolume)'
  BY DEF Inv, Protocol, TypeOK, MutexHeld, CallsFit, NotBegun, Answering, FileIsVolume,
    ShellInFatFs, Pin, Mounted, CheckPoints, OpenSearches, At, Begin, fatVars, cardVars,
    fsVars
<1>3. sound /\ ~Misread /\ ~Disturbing' => Volume'
  BY DEF Inv, Protocol, Volume, TypeOK, Mounted, MountCalls, MountedWell, MountsOnce,
    ReadsSeen, FoundIsSlot, ShellInVolume, WritesKnown, Remembered, Disturbing, Misread,
    FatInFatFs, OpenSearches, At, Begin, fatVars, cardVars, fsVars
<1> QED
  BY <1>1, <1>2, <1>3, SoundLemma DEF Protocol

LEMMA OpenFailsStep ==
  ASSUME Inv, Sounds, OpenFails
  PROVE  Inv'
<1>1. TypeOK'
  BY FirstCallLemma DEF TypeOK, Inv, Protocol, Sounds, Tasks, MountCalls, OpenFails,
    Goto, Begin, fatVars, cardVars, fsVars
<1>2. (MutexHeld /\ CallsFit /\ NotBegun /\ Answering /\ FileIsVolume)'
  BY FirstCallLemma DEF Inv, Protocol, TypeOK, MutexHeld, CallsFit, NotBegun,
    Answering, FileIsVolume, ShellInFatFs, Pin, Mounted, CheckPoints, OpenFails, At,
    Goto, Begin, fatVars, cardVars, fsVars
<1>3. sound /\ ~Misread /\ ~Disturbing' => Volume'
  BY DEF Inv, Protocol, Volume, TypeOK, Mounted, MountedWell, MountsOnce, ReadsSeen,
    FoundIsSlot, ShellInVolume, WritesKnown, Remembered, Disturbing, Misread, FatInFatFs,
    OpenFails, Goto, Begin, fatVars, cardVars, fsVars
<1> QED
  BY <1>1, <1>2, <1>3, SoundLemma DEF Protocol

LEMMA UseFileStep ==
  ASSUME Inv, Sounds, UseFile
  PROVE  Inv'
<1>1. TypeOK'
  BY DEF TypeOK, Inv, Protocol, Sounds, Tasks, UseFile, Begin, fatVars, cardVars,
    fsVars
<1>2. (MutexHeld /\ CallsFit /\ NotBegun /\ Answering /\ FileIsVolume)'
  BY DEF Inv, Protocol, TypeOK, MutexHeld, CallsFit, NotBegun, Answering, FileIsVolume,
    Pin, Mounted, CheckPoints, UseFile, Begin, fatVars, cardVars, fsVars
<1>3. sound /\ ~Misread /\ ~Disturbing' => Volume'
  BY DEF Inv, Protocol, Volume, TypeOK, Mounted, MountedWell, MountsOnce, ReadsSeen,
    FoundIsSlot, ShellInVolume, WritesKnown, Remembered, Disturbing, Misread, FatInFatFs,
    UseFile, Begin, fatVars, cardVars, fsVars
<1> QED
  BY <1>1, <1>2, <1>3, SoundLemma DEF Protocol

LEMMA CapacityStep ==
  ASSUME Inv, Sounds, Capacity
  PROVE  Inv'
<1>1. TypeOK'
  BY DEF TypeOK, Inv, Protocol, Sounds, StateSelected, Capacity, fatVars, fsVars
<1>2. (MutexHeld /\ CallsFit /\ NotBegun /\ Answering /\ FileIsVolume)'
  BY DEF Inv, Protocol, TypeOK, MutexHeld, CallsFit, NotBegun, Answering, FileIsVolume,
    ShellInFatFs, Pin, Mounted, Capacity, fatVars, fsVars
<1>3. sound /\ ~Misread /\ ~Disturbing' => Volume'
  BY DEF Inv, Protocol, Volume, TypeOK, Mounted, MountedWell, MountsOnce, ReadsSeen,
    FoundIsSlot, ShellInVolume, WritesKnown, Remembered, Disturbing, Misread, FatInFatFs,
    StateSelected, Capacity, fatVars, fsVars
<1> QED
  BY <1>1, <1>2, <1>3, SoundLemma DEF Protocol

LEMMA HostCallsStep ==
  ASSUME Inv, Sounds, NEW c \in {"read", "write"}, HostCalls(c)
  PROVE  Inv'
<1>1. TypeOK'
  BY DEF TypeOK, Inv, Protocol, Sounds, Tasks, HostCalls, Begin, fatVars, cardVars,
    fsVars
<1>2. (MutexHeld /\ CallsFit /\ NotBegun /\ Answering /\ FileIsVolume)'
  BY DEF Inv, Protocol, TypeOK, MutexHeld, CallsFit, NotBegun, Answering, FileIsVolume,
    ShellInFatFs, Pin, Mounted, HostCalls, Begin, fatVars, cardVars, fsVars
<1>3. sound /\ ~Misread /\ ~Disturbing' => Volume'
  BY DEF Inv, Protocol, Volume, TypeOK, Mounted, MountedWell, MountsOnce, ReadsSeen,
    FoundIsSlot, ShellInVolume, WritesKnown, Remembered, Disturbing, Misread, FatInFatFs,
    HostCalls, At, Begin, fatVars, cardVars, fsVars
<1> QED
  BY <1>1, <1>2, <1>3, SoundLemma DEF Protocol

LEMMA NotifyStep ==
  ASSUME Inv, Sounds, Notify
  PROVE  Inv'
<1>1. TypeOK'
  BY FirstCallLemma DEF TypeOK, Inv, Protocol, Sounds, Tasks, Notify, Goto, Begin,
    cardVars, fsVars
<1>2. (MutexHeld /\ CallsFit /\ NotBegun /\ Answering /\ FileIsVolume)'
  BY FirstCallLemma DEF Inv, Protocol, TypeOK, MutexHeld, CallsFit, NotBegun,
    Answering, FileIsVolume, ShellInFatFs, Pin, Mounted, Notify, Goto, Begin, cardVars,
    fsVars
<1>3. sound /\ ~Misread /\ ~Disturbing' => Volume'
  BY DEF Inv, Protocol, Volume, TypeOK, Mounted, MountedWell, MountsOnce, ReadsSeen,
    FoundIsSlot, ShellInVolume, WritesKnown, Remembered, Disturbing, Misread, FatInFatFs,
    Notify, Goto, Begin, cardVars, fsVars
<1> QED
  BY <1>1, <1>2, <1>3, SoundLemma DEF Protocol

LEMMA RemoveStep ==
  ASSUME Inv, Sounds, Remove
  PROVE  Inv'
<1>1. TypeOK'
  BY DEF TypeOK, Inv, Protocol, Sounds, Remove, Disturbed, fatVars, fsVars
<1>2. (MutexHeld /\ CallsFit /\ NotBegun /\ Answering /\ FileIsVolume)'
  BY DEF Inv, Protocol, TypeOK, MutexHeld, CallsFit, NotBegun, Answering, FileIsVolume,
    ShellInFatFs, Mounted, Remove, Disturbed, fatVars, fsVars
<1>3. sound /\ ~Misread /\ ~Disturbing' => Volume'
  BY DEF Inv, Protocol, Volume, TypeOK, Mounted, MountedWell, MountsOnce, ReadsSeen,
    FoundIsSlot, ShellInVolume, WritesKnown, Remembered, Disturbing, Misread, FatInFatFs,
    Remove, Disturbed, fatVars, fsVars
<1> QED
  BY <1>1, <1>2, <1>3, SoundLemma DEF Protocol

LEMMA InsertStep ==
  ASSUME Inv, Sounds, NEW c \in Cards, Insert(c)
  PROVE  Inv'
<1>1. TypeOK'
  BY DEF TypeOK, Inv, Protocol, Sounds, Insert, fatVars, cardVars, fsVars
<1>2. (MutexHeld /\ CallsFit /\ NotBegun /\ Answering /\ FileIsVolume)'
  BY DEF Inv, Protocol, TypeOK, MutexHeld, CallsFit, NotBegun, Answering, FileIsVolume,
    ShellInFatFs, Mounted, Insert, fatVars, cardVars, fsVars
<1>3. sound /\ ~Misread /\ ~Disturbing' => Volume'
  BY DEF Inv, Protocol, Volume, TypeOK, Answering, Mounted, MountedWell, MountsOnce,
    ReadsSeen, FoundIsSlot, ShellInVolume, WritesKnown, Remembered, Disturbing, Misread,
    FatInFatFs, Insert, fatVars, cardVars, fsVars
<1> QED
  BY <1>1, <1>2, <1>3, SoundLemma DEF Protocol

LEMMA TakeStep ==
  ASSUME Inv, Sounds, NEW t \in Tasks, Take(t)
  PROVE  Inv'
<1>1. TypeOK'
  BY DEF TypeOK, Inv, Protocol, Sounds, Take, Goto, Begin, fatVars, cardVars, fsVars
<1>2. (MutexHeld /\ CallsFit /\ NotBegun /\ Answering /\ FileIsVolume)'
  BY DEF Inv, Protocol, TypeOK, MutexHeld, CallsFit, NotBegun, Answering, FileIsVolume,
    Pin, Mounted, Tasks, CheckPoints, Take, At, Goto, Begin, fatVars, cardVars, fsVars
<1>3. sound /\ ~Misread /\ ~Disturbing' => Volume'
  BY DEF Inv, Protocol, Volume, TypeOK, Mounted, MountedWell, MountsOnce, ReadsSeen,
    FoundIsSlot, ShellInVolume, WritesKnown, Remembered, Disturbing, Misread, FatInFatFs,
    Take, At, Goto, Begin, fatVars, cardVars, fsVars
<1> QED
  BY <1>1, <1>2, <1>3, SoundLemma DEF Protocol

LEMMA TakeTimesOutStep ==
  ASSUME Inv, Sounds, NEW t \in Tasks, TakeTimesOut(t)
  PROVE  Inv'
<1>1. TypeOK'
  BY FirstCallLemma DEF TypeOK, Inv, Protocol, Sounds, Tasks, MountCalls, TakeTimesOut,
    Goto, Begin, Fails, fatVars, cardVars, fsVars
<1>2. (MutexHeld /\ CallsFit /\ NotBegun /\ Answering /\ FileIsVolume)'
  BY FirstCallLemma DEF Inv, Protocol, TypeOK, MutexHeld, CallsFit, NotBegun,
    Answering, FileIsVolume, ShellInFatFs, Pin, Mounted, MountCalls, CheckPoints,
    TakeTimesOut, At, Goto, Begin, Fails, fatVars, cardVars, fsVars
<1>3. sound /\ ~Misread /\ ~Disturbing' => Volume'
  BY DEF Inv, Protocol, Volume, TypeOK, Mounted, MountedWell, MountsOnce, ReadsSeen,
    FoundIsSlot, ShellInVolume, WritesKnown, Remembered, Disturbing, Misread, FatInFatFs,
    TakeTimesOut, At, Goto, Begin, Fails, fatVars, cardVars, fsVars
<1> QED
  BY <1>1, <1>2, <1>3, SoundLemma DEF Protocol

LEMMA NoTransferStep ==
  ASSUME Inv, Sounds, NEW t \in Tasks, NoTransfer(t)
  PROVE  Inv'
<1>1. TypeOK'
  BY FirstCallLemma DEF TypeOK, Inv, Protocol, Sounds, Tasks, MountCalls,
    StateSelected, NoTransfer, Goto, Begin, Fails, fatVars, fsVars
<1>2. (MutexHeld /\ CallsFit /\ NotBegun /\ Answering /\ FileIsVolume)'
  BY FirstCallLemma DEF Inv, Protocol, TypeOK, MutexHeld, CallsFit, NotBegun,
    Answering, FileIsVolume, Pin, Mounted, Tasks, MountCalls, CheckPoints, NoTransfer,
    At, Goto, Begin, Fails, fatVars, fsVars
<1>3. sound /\ ~Misread /\ ~Disturbing' => Volume'
  BY DEF Inv, Protocol, Volume, TypeOK, Mounted, MountedWell, MountsOnce, ReadsSeen,
    FoundIsSlot, ShellInVolume, WritesKnown, Remembered, Disturbing, Misread, FatInFatFs,
    StateSelected, NoTransfer, At, Goto, Begin, Fails, fatVars, fsVars
<1> QED
  BY <1>1, <1>2, <1>3, SoundLemma DEF Protocol

LEMMA StartTransferStep ==
  ASSUME Inv, Sounds, NEW t \in Tasks, StartTransfer(t)
  PROVE  Inv'
<1>1. TypeOK'
  BY DEF TypeOK, Inv, Protocol, Sounds, StartTransfer, Goto, Begin, fatVars, cardVars
<1>2. (MutexHeld /\ CallsFit /\ NotBegun /\ Answering /\ FileIsVolume)'
  BY DEF Inv, Protocol, TypeOK, MutexHeld, CallsFit, NotBegun, Answering, FileIsVolume,
    ShellInFatFs, Pin, Mounted, CheckPoints, StartTransfer, At, Goto, Begin, fatVars,
    cardVars
<1>3. sound /\ ~Misread /\ ~Disturbing' => Volume'
  BY DEF Inv, Protocol, Volume, TypeOK, CallsFit, Answering, ShellInFatFs, Mounted,
    Tasks, MountedWell, MountsOnce, ReadsSeen, FoundIsSlot, ShellInVolume, WritesKnown,
    Remembered, Disturbing, Misread, FatInFatFs, StartTransfer, At, Goto, Begin, fatVars,
    cardVars
<1> QED
  BY <1>1, <1>2, <1>3, SoundLemma DEF Protocol

LEMMA EndTransferStep ==
  ASSUME Inv, Sounds, NEW t \in Tasks, EndTransfer(t)
  PROVE  Inv'
<1>1. TypeOK'
  BY FirstCallLemma DEF TypeOK, Inv, Protocol, Sounds, Tasks, MountCalls, EndTransfer,
    Goto, Begin, Windows, fatVars, cardVars
<1>2. (MutexHeld /\ CallsFit /\ NotBegun /\ Answering /\ FileIsVolume)'
  BY FirstCallLemma DEF Inv, Protocol, TypeOK, MutexHeld, CallsFit, NotBegun,
    Answering, FileIsVolume, Pin, Mounted, Tasks, MountCalls, CheckPoints, EndTransfer,
    At, Goto, Begin, Windows, fatVars, cardVars
<1>3. sound /\ ~Misread /\ ~Disturbing' => Volume'
  BY DEF Inv, Protocol, Volume, TypeOK, CallsFit, Mounted, Tasks, MountCalls,
    MountedWell, MountsOnce, ReadsSeen, FoundIsSlot, ShellInVolume, WritesKnown,
    Remembered, Disturbing, Misread, FatInFatFs, EndTransfer, At, Goto, Begin, Windows,
    fatVars, cardVars
<1> QED
  BY <1>1, <1>2, <1>3, SoundLemma DEF Protocol

LEMMA CheckStep ==
  ASSUME Inv, Sounds, NEW t \in {"fat", "shell"}, Check(t)
  PROVE  Inv'
<1>1. TypeOK'
  BY FirstCallLemma, CardReadyLemma, CardNotReadyLemma DEF TypeOK, Inv, Protocol,
    Sounds, MountCalls, CheckPoints, StateSelected, Check, NotReady, Goto, Begin,
    fatVars, fsVars
<1>2. (MutexHeld /\ CallsFit /\ NotBegun /\ Answering /\ FileIsVolume)'
  BY FirstCallLemma, CardReadyLemma, CardNotReadyLemma DEF Inv, Protocol, TypeOK,
    MutexHeld, CallsFit, NotBegun, Answering, FileIsVolume, ShellInFatFs, Pin, Mounted,
    Tasks, CheckPoints, Check, NotReady, Goto, Begin, fatVars, fsVars
<1>3. sound /\ ~Misread /\ ~Disturbing' => Volume'
  BY CardReadyLemma, CardNotReadyLemma DEF Inv, Protocol, Volume, TypeOK, CallsFit,
    ShellInFatFs, Mounted, Tasks, CheckPoints, MountedWell, MountsOnce, ReadsSeen,
    FoundIsSlot, ShellInVolume, WritesKnown, Remembered, Disturbing, Misread, FatInFatFs,
    StateSelected, SelectOk, Check, NotReady, Goto, Begin, fatVars, fsVars
<1> QED
  BY <1>1, <1>2, <1>3, SoundLemma DEF Protocol

LEMMA CardInitialisedStep ==
  ASSUME Inv, Sounds, NEW t \in {"fat", "shell"}, CardInitialised(t)
  PROVE  Inv'
<1>1. transfer' \in {"good", "spoilt", "dead"} /\ answers' \in BOOLEAN
  BY DEF Inv, Protocol, TypeOK, CardInitialised, NotReady, Interfered, fatVars, fsVars
<1>2. TypeOK'
  BY <1>1, FirstCallLemma, CardNotReadyLemma DEF TypeOK, Inv, Protocol, Sounds,
    CallsFit, MountCalls, CheckPoints, CardInitialised, NotReady, Goto, Begin,
    Interfered, fatVars, fsVars
<1>3. (MutexHeld /\ CallsFit /\ NotBegun /\ Answering /\ FileIsVolume)'
  BY FirstCallLemma, CardNotReadyLemma DEF Inv, Protocol, TypeOK, MutexHeld, CallsFit,
    NotBegun, Answering, FileIsVolume, ShellInFatFs, Pin, Mounted, Tasks, CheckPoints,
    CardInitialised, NotReady, Goto, Begin, Interfered, fatVars, fsVars
<1>4. sound /\ ~Misread /\ ~Disturbing' => Volume'
  BY CardNotReadyLemma DEF Inv, Protocol, Volume, TypeOK, CallsFit, Mounted, Tasks,
    CheckPoints, MountedWell, MountsOnce, ReadsSeen, FoundIsSlot, ShellInVolume,
    WritesKnown, Remembered, Disturbing, Misread, FatInFatFs, CardInitialised, NotReady,
    Goto, Begin, Interfered, fatVars, fsVars
<1> QED
  BY <1>1, <1>2, <1>3, <1>4, SoundLemma DEF Protocol

LEMMA EnterStep ==
  ASSUME Inv, Sounds, NEW t \in {"fat", "shell"}, Enter(t)
  PROVE  Inv'
<1>1. TypeOK'
  BY DEF TypeOK, Inv, Protocol, Sounds, Tasks, Enter, Goto, Begin, fatVars, cardVars,
    fsVars
<1>2. (MutexHeld /\ CallsFit /\ NotBegun /\ Answering /\ FileIsVolume)'
  BY DEF Inv, Protocol, TypeOK, MutexHeld, CallsFit, NotBegun, Answering, FileIsVolume,
    ShellInFatFs, Pin, Mounted, CheckPoints, Enter, At, Goto, Begin, fatVars, cardVars,
    fsVars
<1>3. sound /\ ~Misread /\ ~Disturbing' => Volume'
  BY DEF Inv, Protocol, Volume, TypeOK, Mounted, MountedWell, MountsOnce, ReadsSeen,
    FoundIsSlot, ShellInVolume, WritesKnown, Remembered, Disturbing, Misread, FatInFatFs,
    Enter, At, Goto, Begin, fatVars, cardVars, fsVars
<1> QED
  BY <1>1, <1>2, <1>3, SoundLemma DEF Protocol

LEMMA NoFileSystemStep ==
  ASSUME Inv, Sounds, NEW t \in {"fat", "shell"}, NoFileSystem(t)
  PROVE  Inv'
<1>1. TypeOK'
  BY DEF TypeOK, Inv, Protocol, Sounds, Tasks, NoFileSystem, Goto, Begin, fatVars,
    cardVars, fsVars
<1>2. (MutexHeld /\ CallsFit /\ NotBegun /\ Answering /\ FileIsVolume)'
  BY DEF Inv, Protocol, TypeOK, MutexHeld, CallsFit, NotBegun, Answering, FileIsVolume,
    ShellInFatFs, Pin, Mounted, CheckPoints, NoFileSystem, At, Goto, Begin, fatVars,
    cardVars, fsVars
<1>3. sound /\ ~Misread /\ ~Disturbing' => Volume'
  BY DEF Inv, Protocol, Volume, TypeOK, Mounted, MountedWell, MountsOnce, ReadsSeen,
    FoundIsSlot, ShellInVolume, WritesKnown, Remembered, Disturbing, Misread, FatInFatFs,
    NoFileSystem, At, Goto, Begin, fatVars, cardVars, fsVars
<1> QED
  BY <1>1, <1>2, <1>3, SoundLemma DEF Protocol

LEMMA FoundVolumeStep ==
  ASSUME Inv, Sounds, NEW t \in {"fat", "shell"}, FoundVolume(t)
  PROVE  Inv'
<1>1. TypeOK'
  BY DEF TypeOK, Inv, Protocol, Sounds, FoundVolume, Goto, Begin, fatVars, cardVars
<1>2. (MutexHeld /\ CallsFit /\ NotBegun /\ Answering /\ FileIsVolume)'
  BY DEF Inv, Protocol, TypeOK, MutexHeld, CallsFit, NotBegun, Answering, FileIsVolume,
    ShellInFatFs, Pin, Mounted, CheckPoints, FoundVolume, At, Goto, Begin, fatVars,
    cardVars
<1>3. sound /\ ~Misread /\ ~Disturbing' => Volume'
  BY DEF Inv, Protocol, Volume, TypeOK, NotBegun, ShellInFatFs, Mounted, Tasks,
    MountedWell, MountsOnce, ReadsSeen, FoundIsSlot, ShellInVolume, WritesKnown,
    Remembered, Disturbing, Misread, FatInFatFs, FoundVolume, At, Goto, Begin, fatVars,
    cardVars
<1> QED
  BY <1>1, <1>2, <1>3, SoundLemma DEF Protocol

-----------------------------------------------------------------------------
(* The theorems *)

LEMMA InitLemma ==
  ASSUME Init
  PROVE  Inv
<1>1. TypeOK
  <2>1. call \in [Tasks -> MountCalls \union {"search", "use", "read", "write"}]
    BY DEF Init, Tasks, MountCalls, FirstCall
  <2>2. pc \in [Tasks -> {"start", "idle"}]
    BY DEF Init
  <2>3. updateCountDown \in 0..CountDown
    BY CountDownAssumption DEF Init
  <2>4. lastSdCsPin \in BOOLEAN
    BY DEF Init, Pin
  <2> QED
    BY <2>1, <2>2, <2>3, <2>4 DEF Init, TypeOK
<1>2. MutexHeld /\ CallsFit /\ NotBegun /\ Answering /\ FileIsVolume
  BY FirstCallLemma
     DEF Init, MutexHeld, CallsFit, NotBegun, Answering, FileIsVolume, Mounted, ShellInFatFs, Tasks
<1>3. ~Disturbing
  BY DEF Init, Disturbing, FatInFatFs, ShellInFatFs, Tasks
<1>4. Volume
  BY FirstCallLemma
     DEF Init, Volume, MountedWell, MountsOnce, ReadsSeen, FoundIsSlot, ShellInVolume, WritesKnown,
         Mounted, Tasks
<1> QED
  BY <1>1, <1>2, <1>3, <1>4 DEF Inv, Protocol

LEMMA NextLemma ==
  ASSUME Inv, [Next]_vars
  PROVE  Inv'
<1>1. CASE Next
  <2>1. Sounds
    BY <1>1 DEF Next
  <2>2. ASSUME NEW t \in Tasks, Disk(t)
        PROVE  Inv'
    BY <2>1, <2>2, TakeStep, TakeTimesOutStep, NoTransferStep, StartTransferStep, EndTransferStep
       DEF Disk
  <2>3. ASSUME NEW t \in {"fat", "shell"}, Fs(t)
        PROVE  Inv'
    BY <2>1, <2>3, CheckStep, CardInitialisedStep, EnterStep, NoFileSystemStep, FoundVolumeStep DEF Fs
  <2>4. CASE FatTask
    BY <2>1, <2>2, <2>3, <2>4, CreateStep, LookStep, UnmountStep, MountStep, MountReturnsStep,
       ExternalWriteStep, CountStep, DelayOverStep DEF FatTask, Tasks
  <2>5. CASE Shell
    BY <2>1, <2>2, <2>3, <2>5, OpenStep, OpenSearchesStep, OpenFailsStep, UseFileStep DEF Shell, Tasks
  <2>6. CASE UsbTask
    BY <2>1, <2>2, <2>6, NotifyStep DEF UsbTask, Tasks
  <2>7. CASE Host
    BY <2>1, <2>7, CapacityStep, HostCallsStep DEF Host
  <2>8. CASE User
    BY <2>1, <2>8, RemoveStep, InsertStep DEF User
  <2> QED
    BY <1>1, <2>4, <2>5, <2>6, <2>7, <2>8 DEF Next
<1>2. CASE UNCHANGED vars
  <2>1. Protocol'
    BY <1>2 DEF Inv, Protocol, TypeOK, MutexHeld, CallsFit, NotBegun, Answering, FileIsVolume,
                ShellInFatFs, Pin, Mounted, CheckPoints, vars, stepVars, fatVars, cardVars, fsVars
  <2>2. sound' = sound /\ Disturbing' = Disturbing /\ Volume' = Volume
    BY <1>2 DEF Disturbing, FatInFatFs, ShellInFatFs, Volume, MountedWell, MountsOnce, ReadsSeen,
                FoundIsSlot, ShellInVolume, WritesKnown, Remembered, Pin, Mounted,
                vars, stepVars, fatVars, cardVars, fsVars
  <2> QED
    BY <2>1, <2>2 DEF Inv
<1> QED
  BY <1>1, <1>2

\* The three tasks, the driver, the volume and the file keep to their states.
THEOREM TypeCorrect == Spec => []TypeOK
<1>1. Inv => TypeOK
  BY DEF Inv, Protocol
<1> QED
  BY InitLemma, NextLemma, <1>1, PTL DEF Spec

\* Whatever cards come and go, also within a call, and whichever transfers fail: a
\* search of a directory or a use of a file that brings data is of the card in the
\* slot, unless since the volume was last unmounted its boot sector was mounted
\* unread, or fat_task and the shell were at work together, or FatFs was on a card
\* that fat_task had not seen.
THEOREM CardsNotMixedCorrect == Spec => []CardsNotMixed
<1>1. Inv => CardsNotMixed
  BY DEF Inv, Protocol, Answering, FileIsVolume, Volume, MountedWell, ShellInVolume, CardsNotMixed, Tasks
<1> QED
  BY InitLemma, NextLemma, <1>1, PTL DEF Spec

\* Under the same conditions no write of the host is forgotten while the volume is
\* mounted from what the card held before, for any countdown.
THEOREM HostWritesNotForgottenCorrect == Spec => []HostWritesNotForgotten
<1>1. Inv => HostWritesNotForgotten
  BY DEF Inv, Volume, WritesKnown, HostWritesNotForgotten
<1> QED
  BY InitLemma, NextLemma, <1>1, PTL DEF Spec
=============================================================================
