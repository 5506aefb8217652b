-------------------------------- MODULE Llfs --------------------------------
(***************************************************************************)
(* The Linked List File System (src/llfs/llfs.c) on the EEPROM volume      *)
(* (src/llfs/llfs_vol_eeprom.c).                                           *)
(*                                                                         *)
(* A data sector holds DataSize bytes and a LINK byte.  LINK leads to the  *)
(* next sector of the file; it is LAST in a full last sector; it leads to  *)
(* the sector itself in a last sector that is not full, whose last byte is *)
(* then COUNT; and COUNT and LINK both zero mark a free sector.  An index  *)
(* sector holds records (a name and the first sector of the file) and the  *)
(* number of the next index sector.  Sector LAST never holds data.         *)
(*                                                                         *)
(* Granularity: one write to the media is one step, together with the      *)
(* reads that precede it.  A whole sector is written as two pages, between *)
(* which, as between any two writes, the power may fail; a page is written *)
(* as a whole.  Any read or write may fail if IoErrors; a write that fails *)
(* may have taken effect or not.  The callers (sys_config.c, rshell.c)     *)
(* run one after the other in one task and have one file open at a time.   *)
(***************************************************************************)
EXTENDS Integers, FiniteSets, SequencesExt

CONSTANTS
  Names,        \* file names
  SectorCount,  \* LLFS_SECTOR_COUNT_EEPROM
  DataSize,     \* LLFS_SECTOR_DATA_SIZE
  RecordCount,  \* LLFS_RECORD_COUNT
  Bytes,        \* the values of a byte
  EmptyByte,    \* LLFS_EMPTY_BYTE
  Erased,       \* a record filled with LLFS_EMPTY_BYTE
  NoFile,       \* a null file pointer
  Modes,        \* the modes the callers open files with
  Writes,       \* what one lf_write may be asked to write
  Reads,        \* how much one lf_read may be asked to read
  Deletes,      \* the sets of names that lf_delete may be asked to delete
  Formats,      \* whether lf_format is called
  PowerCuts,    \* whether the power may fail
  IoErrors      \* whether an access to the media may fail

\* MODE_READ, MODE_WRITE, and MODE_WRITE with MODE_CREATE and MODE_APPEND.
CreatingModes == {"create", "append"}
WritingModes == {"write"} \union CreatingModes

ASSUME SizesAssumption ==
  /\ SectorCount \in Nat /\ SectorCount > 2
  /\ DataSize \in Nat /\ DataSize > 1
  /\ RecordCount \in Nat /\ RecordCount > 1
ASSUME BytesAssumption == 0..DataSize-1 \subseteq Bytes /\ EmptyByte \in Bytes \ {0}
ASSUME CallsAssumption ==
  /\ Modes \subseteq {"read"} \union WritingModes
  /\ Writes \subseteq Seq(Bytes) \ {<<>>}
  /\ Reads \subseteq Nat \ {0}
  /\ Deletes \subseteq SUBSET Names
  /\ {Formats, PowerCuts, IoErrors} \subseteq BOOLEAN

VARIABLES
  media,   \* the sectors of the EEPROM
  pc,      \* where the call is; "idle" between calls
  loc,     \* its local variables
  todo,    \* the bytes lf_write has still to write
  file     \* the open file, or NoFile

vars == <<media, pc, loc, todo, file>>

Sectors == 0..SectorCount-1
LAST == SectorCount - 1               \* LLFS_SECTOR_LAST
DataSectors == 1..SectorCount-2
Slots == 0..RecordCount-1
SlotsOf(s) == IF s = 0 THEN Slots \ {0} ELSE Slots   \* lf_phy_t is in sector 0

Records == [name : Names, fptr : Sectors]
CallSet == [op : {"none", "read", "delete", "close", "format"} \union WritingModes,
            names : SUBSET Names, at : Sectors, slot : 0..RecordCount, head : Sectors,
            ptr : Sectors, sect : Sectors, want : Nat]
NoCall == [op |-> "none", names |-> {}, at |-> 0, slot |-> 0, head |-> 0,
           ptr |-> 0, sect |-> 0, want |-> 0]

\* The bytes of a sector: records and data overlap on the real media, but a
\* sector is only ever used as one or the other.
SectorSet == [index : BOOLEAN, recs : [Slots -> Records \union {Erased}],
              next : Sectors, data : [1..DataSize -> Bytes], link : Sectors]

FileSet == [name : Names, mode : {"read"} \union WritingModes, head : DataSectors,
            sect : DataSectors, dataSect : DataSectors, off : 0..DataSize,
            buf : SectorSet, changed : BOOLEAN, intent : Seq(Bytes),
            got : Seq(Bytes), ended : BOOLEAN]

ASSUME NullsAssumption == Erased \notin Records /\ NoFile \notin FileSet

EmptyIndex == [index |-> TRUE, recs |-> [i \in Slots |-> Erased], next |-> 0,
               data |-> [i \in 1..DataSize |-> EmptyByte], link |-> 0]
EmptyData(link) == [EmptyIndex EXCEPT !.index = FALSE, !.data[DataSize] = 0, !.link = link]

Count(b) == b.data[DataSize]
Free(s) == media[s].link = 0 /\ Count(media[s]) = 0
IsIndex(s) == media[s].index /\ media[s].link = 0

\* Mutant: the sector kept for the index is handed out for data.
FreeDataWithLast == {s \in DataSectors \union {LAST} : Free(s)}
FreeData == {s \in DataSectors : Free(s)}

\* What lf_read delivers of a file whose first sector is h, following no more
\* links than there are sectors.
Content(h) ==
  LET from[n \in 0..SectorCount] ==
        [s \in DataSectors |->
           LET b == media[s]
           IN  IF n = 0            THEN <<>>
               ELSE IF b.link = s  THEN SubSeq(b.data, 1, Count(b))
               ELSE IF b.link \in {0, LAST} THEN b.data
               ELSE b.data \o from[n - 1][b.link]]
  IN  from[SectorCount][h]

Init ==
  /\ media = [s \in Sectors |-> IF s = 0 THEN EmptyIndex ELSE EmptyData(0)]
  /\ pc = "idle"
  /\ loc = NoCall
  /\ todo = <<>>
  /\ file = NoFile

-----------------------------------------------------------------------------
(* Access to the media *)

\* eeprom_set_sector_next.
SetNext(s, link, count) ==
  [media EXCEPT ![s].link = link, ![s].data[DataSize] = count]

\* Mutants: a sector is handed out without a claim; the last byte of a full
\* sector is lost when it is linked.
ClaimedNot(s) == media
LinkedLosingCount(s, t) == SetNext(s, t, 0)

\* A sector claimed, or emptied: LINK self, COUNT 0; a full sector s linked to
\* t, its last byte kept.
Claimed(s) == SetNext(s, s, 0)
Linked(s, t) == SetNext(s, t, Count(media[s]))

\* Mutant: a chain ends with every sector.
EndsChainAlways(s) == TRUE

EndsChain(s) == media[s].link \in {LAST, s}

\* A write to the media that makes it m, and what follows when it succeeds and
\* when it, or a read before it, is reported to have failed.
Write(m, Success, Failure) ==
  \/ media' = m /\ Success
  \/ IoErrors /\ media' \in {media, m} /\ Failure

Goto(label) == pc' = label /\ UNCHANGED loc
Finish == pc' = "idle" /\ loc' = NoCall

-----------------------------------------------------------------------------
(* lf_open and lf_delete *)

Open(n, mode) ==
  /\ pc = "idle" /\ file = NoFile
  /\ pc' = "find"
  /\ loc' = [NoCall EXCEPT !.op = mode, !.names = {n}, !.slot = 1]
  /\ UNCHANGED <<media, todo, file>>

Delete(names) ==
  /\ pc = "idle" /\ file = NoFile
  /\ pc' = "find"
  /\ loc' = [NoCall EXCEPT !.op = "delete", !.names = names, !.slot = 1]
  /\ UNCHANGED <<media, todo, file>>

AfterFound ==
  CASE loc.op = "delete"             -> "clean"
    [] loc.op = "read"               -> "load"
    [] loc.op = "append"             -> "eof"
    [] loc.op \in {"write", "create"} -> "truncate"

\* lf_find_record returned 0, because there is no such record or because a
\* read failed.
NotFound ==
  IF loc.op \in CreatingModes
    THEN pc' = "add" /\ loc' = [loc EXCEPT !.at = 0]
    ELSE Finish

\* Mutant: a search ends with the first index sector.
NextIndexNone(b) == 0
NextIndex(b) == b.next

\* One index sector of lf_find_record.
Find ==
  LET b == media[loc.at]
      matching == {i \in Slots : i >= loc.slot /\ b.recs[i] # Erased
                                   /\ b.recs[i].name \in loc.names}
  IN  /\ pc = "find"
      /\ \/ /\ IsIndex(loc.at) /\ matching # {}
            /\ pc' = AfterFound
            /\ LET i == Min(matching)
               IN  loc' = [loc EXCEPT !.slot = i, !.head = b.recs[i].fptr,
                                      !.ptr = b.recs[i].fptr]
         \/ /\ IsIndex(loc.at) /\ matching = {} /\ NextIndex(b) # 0
            /\ loc' = [loc EXCEPT !.at = NextIndex(b), !.slot = 0]
            /\ UNCHANGED pc
         \/ /\ ~IsIndex(loc.at) \/ (matching = {} /\ NextIndex(b) = 0) \/ IoErrors
            /\ NotFound
      /\ UNCHANGED <<media, todo, file>>

\* lf_get_free_sector(true), and lf_get_free_sector(false) in the others.
FreeIndex == IF Free(LAST) THEN {LAST} ELSE FreeData

\* One index sector of lf_add_record, up to the first write: the claim of the
\* data sector, or the link to a new index sector.
Add ==
  LET b == media[loc.at]
      erased == {i \in SlotsOf(loc.at) : b.recs[i] = Erased}
  IN  /\ pc = "add"
      /\ \/ /\ IsIndex(loc.at) /\ erased # {} /\ FreeData # {}
            /\ LET s == Min(FreeData)
               IN  Write(Claimed(s),
                         /\ pc' = "record"
                         /\ loc' = [loc EXCEPT !.slot = Min(erased), !.sect = s],
                         Finish)
         \/ /\ IsIndex(loc.at) /\ erased = {} /\ b.next # 0
            /\ loc' = [loc EXCEPT !.at = b.next]
            /\ UNCHANGED <<media, pc>>
         \/ /\ IsIndex(loc.at) /\ erased = {} /\ b.next = 0 /\ FreeIndex # {}
            /\ LET s == Min(FreeIndex)
               IN  Write([media EXCEPT ![loc.at].next = s],
                         pc' = "page0" /\ loc' = [loc EXCEPT !.at = s],
                         Finish)
         \/ /\ \/ ~IsIndex(loc.at) \/ IoErrors
               \/ erased # {} /\ FreeData = {}
               \/ erased = {} /\ b.next = 0 /\ FreeIndex = {}
            /\ Finish
            /\ UNCHANGED media
      /\ UNCHANGED <<todo, file>>

\* lf_add_record: the index sector with the new record.
AddRecord ==
  LET n == CHOOSE x \in loc.names : TRUE
  IN  /\ pc = "record"
      /\ Write([media EXCEPT ![loc.at].recs[loc.slot] =
                               [name |-> n, fptr |-> loc.sect]],
               /\ pc' = AfterFound
               /\ loc' = [loc EXCEPT !.head = loc.sect, !.ptr = loc.sect],
               Finish)
      /\ UNCHANGED <<todo, file>>

\* Mutant: the old chain is freed before the first sector lets go of it.
TruncateCleanFirst ==
  LET s == loc.ptr
      l == media[s].link
  IN  /\ pc = "truncate"
      /\ IF l \in DataSectors \ {s} /\ ~Free(l)
           THEN media' = SetNext(l, 0, 0) /\ UNCHANGED <<pc, loc>>
           ELSE media' = SetNext(s, s, 0) /\ Goto("load")
      /\ UNCHANGED <<todo, file>>

\* lf_open with MODE_WRITE: the first sector becomes an empty last sector, and
\* the sectors it led to are freed.
Truncate ==
  LET s == loc.ptr
  IN  /\ pc = "truncate"
      /\ Write(Claimed(s),
               IF EndsChain(s) THEN Goto("load")
                 ELSE pc' = "clean" /\ loc' = [loc EXCEPT !.ptr = media[s].link],
               Finish)
      /\ UNCHANGED <<todo, file>>

\* One sector of lf_clean_data, which gives up silently when an access fails.
Clean ==
  LET s == loc.ptr
      Done == /\ pc' = IF loc.op = "delete" THEN "erase" ELSE "load"
              /\ loc' = [loc EXCEPT !.ptr = loc.head]
  IN  /\ pc = "clean"
      /\ IF s \in {0, LAST}
           THEN Done /\ UNCHANGED media
           ELSE Write(SetNext(s, 0, 0),
                      IF EndsChain(s) THEN Done
                        ELSE loc' = [loc EXCEPT !.ptr = media[s].link] /\ UNCHANGED pc,
                      Done)
      /\ UNCHANGED <<todo, file>>

\* lf_del_record; lf_delete then looks for the next record.
DelRecord ==
  LET Continue == pc' = "find" /\ loc' = [loc EXCEPT !.slot = @ + 1]
  IN  /\ pc = "erase"
      /\ IF IsIndex(loc.at)
           THEN Write([media EXCEPT ![loc.at].recs[loc.slot] = Erased], Continue, Continue)
           ELSE Continue /\ UNCHANGED media
      /\ UNCHANGED <<todo, file>>

\* One sector of lf_find_eof.
FindEof ==
  LET s == loc.ptr
  IN  /\ pc = "eof"
      /\ \/ s \in DataSectors /\ EndsChain(s) /\ Goto("load")
         \/ /\ s \in DataSectors /\ ~EndsChain(s)
            /\ loc' = [loc EXCEPT !.ptr = media[s].link] /\ UNCHANGED pc
         \/ (s \notin DataSectors \/ IoErrors) /\ Finish
      /\ UNCHANGED <<media, todo, file>>

\* The end of lf_open: the sector at the file's position is read.  The history
\* in intent is what the file should hold, that in got what was read from it.
Load ==
  LET b == media[loc.ptr]
  IN  /\ pc = "load"
      /\ \/ file' = [name |-> CHOOSE n \in loc.names : TRUE, mode |-> loc.op,
                     head |-> loc.head, sect |-> loc.ptr, dataSect |-> loc.ptr,
                     off |-> IF loc.op # "append" THEN 0
                             ELSE IF b.link = LAST THEN DataSize ELSE Count(b),
                     buf |-> b, changed |-> FALSE, intent |-> Content(loc.head),
                     got |-> <<>>, ended |-> FALSE]
         \/ IoErrors /\ UNCHANGED file
      /\ Finish
      /\ UNCHANGED <<media, todo>>

-----------------------------------------------------------------------------
(* lf_write and lf_close *)

CallWrite(d) ==
  /\ pc = "idle" /\ file # NoFile
  /\ file.mode \in WritingModes
  /\ pc' = "write"
  /\ todo' = d
  /\ UNCHANGED <<media, loc, file>>

GiveUpWriting == Finish /\ todo' = <<>> /\ UNCHANGED file

\* lf_write, the cached sector is full: a free sector is claimed.
ClaimNext ==
  /\ pc = "write" /\ todo # <<>>
  /\ file.buf.link = LAST
  /\ \/ /\ FreeData # {}
        /\ LET s == Min(FreeData)
           IN  Write(Claimed(s),
                     /\ pc' = "chain" /\ loc' = [loc EXCEPT !.sect = s]
                     /\ UNCHANGED <<todo, file>>,
                     GiveUpWriting)
     \/ /\ FreeData = {} \/ IoErrors
        /\ GiveUpWriting /\ UNCHANGED media

\* lf_write: the full sector is linked to the claimed one.
Chain ==
  /\ pc = "chain"
  /\ Write(Linked(file.sect, loc.sect),
           /\ file' = [file EXCEPT !.buf = EmptyData(loc.sect), !.sect = loc.sect,
                                   !.dataSect = loc.sect, !.off = 0]
           /\ pc' = "write" /\ UNCHANGED <<loc, todo>>,
           GiveUpWriting)

\* lf_write: the cached sector takes what it has room for.  Filled up, it is
\* the last sector of the file for now and is written to the media.  Fill marks
\* the file as changed either way.
FillMarking(partly) ==
  LET n == Min({DataSize - file.off, Len(todo)})
      filled == file.off + n
  IN  /\ pc = "write" /\ todo # <<>> /\ file.buf.link # LAST
      /\ file' = [file EXCEPT
           !.buf.data = [i \in 1..DataSize |->
              IF i \in file.off+1 .. filled         THEN todo[i - file.off]
              ELSE IF i = DataSize                  THEN filled
              ELSE @[i]],
           !.buf.link = IF filled = DataSize THEN LAST ELSE @,
           !.off = IF filled = DataSize THEN @ ELSE filled,
           !.changed = partly \/ filled = DataSize,
           !.intent = @ \o SubSeq(todo, 1, n)]
      /\ todo' = IF filled = DataSize THEN SubSeq(todo, n + 1, Len(todo)) ELSE <<>>
      /\ pc' = IF filled = DataSize THEN "page0" ELSE "idle"
      /\ loc' = [loc EXCEPT !.at = IF filled = DataSize THEN file.sect ELSE 0]
      /\ UNCHANGED media

\* Mutant: a partly filled sector is not marked as changed.
FillForgetsChanged == FillMarking(FALSE)
Fill == FillMarking(TRUE)

WriteReturns ==
  /\ pc = "write" /\ todo = <<>>
  /\ Goto("idle")
  /\ UNCHANGED <<media, todo, file>>

\* lf_close, which writes a changed sector if the file was open for writing.
Close ==
  /\ pc = "idle" /\ file # NoFile
  /\ IF file.mode \in WritingModes /\ file.changed
       THEN /\ pc' = "page0"
            /\ loc' = [NoCall EXCEPT !.op = "close", !.at = file.sect]
            /\ UNCHANGED file
       ELSE file' = NoFile /\ UNCHANGED <<pc, loc>>
  /\ UNCHANGED <<media, todo>>

-----------------------------------------------------------------------------
(* Whole sectors: eeprom_write_sector is two page writes *)

\* What is being written: the cached sector of the open file, or an empty
\* index sector of lf_add_record or lf_format.
Image == IF file # NoFile THEN file.buf ELSE EmptyIndex

\* How much of the records, and of the data, lies in the first page; the rest lies in
\* the second one, with LINK, the mark of the index and the link to the next index sector.
FirstPageSize(size) == (size + 1) \div 2

\* Mutant: the second page is written first.
FirstPageTail(old, new) ==
  [new EXCEPT
     !.recs = [i \in Slots |-> IF i < FirstPageSize(RecordCount) THEN old.recs[i] ELSE @[i]],
     !.data = [i \in 1..DataSize |-> IF i <= FirstPageSize(DataSize) THEN old.data[i] ELSE @[i]]]

FirstPage(old, new) ==
  [old EXCEPT
     !.recs = [i \in Slots |-> IF i < FirstPageSize(RecordCount) THEN new.recs[i] ELSE @[i]],
     !.data = [i \in 1..DataSize |-> IF i <= FirstPageSize(DataSize) THEN new.data[i] ELSE @[i]]]

SectorWritten ==
  CASE file = NoFile /\ loc.op = "format" ->
         pc' = "release" /\ loc' = [loc EXCEPT !.ptr = 1] /\ UNCHANGED file
    [] file = NoFile /\ loc.op \in CreatingModes ->
         Goto("add") /\ UNCHANGED file
    [] file # NoFile /\ loc.op = "close" ->
         Finish /\ file' = NoFile
    [] file # NoFile /\ loc.op # "close" ->
         /\ pc' = "write" /\ loc' = NoCall
         /\ file' = [file EXCEPT !.changed = FALSE, !.off = DataSize]

SectorFailed ==
  /\ Finish
  /\ todo' = <<>>
  /\ file' = IF loc.op = "close" THEN NoFile ELSE file

WriteFirstPage ==
  /\ pc = "page0"
  /\ Write([media EXCEPT ![loc.at] = FirstPage(@, Image)],
           Goto("page1") /\ UNCHANGED <<todo, file>>, SectorFailed)

WriteSecondPage ==
  /\ pc = "page1"
  /\ Write([media EXCEPT ![loc.at] = Image],
           SectorWritten /\ UNCHANGED todo, SectorFailed)

-----------------------------------------------------------------------------
(* lf_format *)

Format ==
  /\ Formats
  /\ pc = "idle" /\ file = NoFile
  /\ pc' = "page0"
  /\ loc' = [NoCall EXCEPT !.op = "format"]
  /\ UNCHANGED <<media, todo, file>>

Release ==
  /\ pc = "release"
  /\ Write(SetNext(loc.ptr, 0, 0),
           IF loc.ptr = LAST THEN Finish
             ELSE loc' = [loc EXCEPT !.ptr = @ + 1] /\ UNCHANGED pc,
           Finish)
  /\ UNCHANGED <<todo, file>>

-----------------------------------------------------------------------------
(* lf_read *)

CallRead(k) ==
  /\ pc = "idle" /\ file # NoFile /\ file.mode = "read"
  /\ pc' = "read"
  /\ loc' = [loc EXCEPT !.want = k]
  /\ file' = [file EXCEPT !.ended = FALSE]
  /\ UNCHANGED <<media, todo>>

Cached == IF file.dataSect = file.sect THEN file.buf ELSE media[file.sect]

\* Mutants: a last sector that is not full is read to its end; only LAST ends
\* a file.
ValidAll(b) == DataSize
EndReachedLastOnly(b) == b.link = LAST

\* How many bytes of the sector belong to the file, and whether it is the last.
Valid(b) == IF b.link = file.sect THEN Count(b) ELSE DataSize
EndReached(b) == b.link \in {LAST, file.sect}

\* One round of the loop of lf_read.
ReadStep ==
  LET b == Cached
      n == IF Valid(b) > file.off THEN Min({Valid(b) - file.off, loc.want}) ELSE 0
      cached == [file EXCEPT !.buf = b, !.dataSect = file.sect]
  IN  /\ pc = "read"
      /\ \/ /\ n > 0
            /\ file' = [cached EXCEPT
                 !.off = @ + n,
                 !.got = @ \o SubSeq(b.data, file.off + 1, file.off + n)]
            /\ loc' = [loc EXCEPT !.want = @ - n] /\ UNCHANGED pc
         \/ /\ n = 0 /\ loc.want > 0 /\ ~EndReached(b)
            /\ file' = [cached EXCEPT !.sect = b.link, !.off = 0]
            /\ UNCHANGED <<pc, loc>>
         \/ /\ n = 0 /\ (loc.want = 0 \/ EndReached(b))
            /\ file' = [cached EXCEPT !.ended = (loc.want > 0)]
            /\ Finish
         \/ /\ IoErrors /\ file.dataSect # file.sect
            /\ Finish /\ UNCHANGED file
      /\ UNCHANGED <<media, todo>>

-----------------------------------------------------------------------------

\* The power fails: the media stays as it is, all else starts anew.
PowerCut ==
  /\ PowerCuts
  /\ pc # "idle" \/ file # NoFile
  /\ Finish
  /\ todo' = <<>>
  /\ file' = NoFile
  /\ UNCHANGED media

CallStep ==
  \/ Find \/ Add \/ AddRecord \/ Truncate \/ Clean \/ DelRecord \/ FindEof \/ Load
  \/ ClaimNext \/ Chain \/ Fill \/ WriteReturns
  \/ WriteFirstPage \/ WriteSecondPage \/ Release \/ ReadStep

Next ==
  \/ \E n \in Names, mode \in Modes : Open(n, mode)
  \/ \E names \in Deletes : Delete(names)
  \/ \E d \in Writes : CallWrite(d)
  \/ \E k \in Reads : CallRead(k)
  \/ Close
  \/ Format
  \/ CallStep
  \/ PowerCut

Spec == Init /\ [][Next]_vars

\* A call that was begun executes; nothing obliges a caller to make one.
FairSpec == Spec /\ WF_vars(CallStep)

-----------------------------------------------------------------------------
(* Correctness *)

\* The index sectors that lf_find_record visits from index sector s on: the
\* least set with s that holds where an index sector in it leads.
IndexFrom(s) ==
  {x \in Sectors : IsIndex(x) /\ \A C \in SUBSET Sectors :
     s \in C /\ (\A y \in C : IsIndex(y) /\ media[y].next # 0 => media[y].next \in C)
       => x \in C}
IndexSectors == IndexFrom(0)

\* The records in them.
Positions == {p \in IndexSectors \X Slots :
                p[2] \in SlotsOf(p[1]) /\ media[p[1]].recs[p[2]] # Erased}
RecordAt(p) == media[p[1]].recs[p[2]]

\* The sectors of the file whose first sector is h: the least set with h that
\* holds where a sector in it is linked to.
ChainOf(h) ==
  {s \in DataSectors : \A C \in SUBSET DataSectors :
     h \in C \union {0, LAST} /\ (\A t \in C : media[t].link \in C \union {0, LAST})
       => s \in C}

Exists(p) == ~Free(RecordAt(p).fptr)

FileOf(n) == CHOOSE p \in Positions : RecordAt(p).name = n /\ Exists(p)

\* What the files hold, by their names.
Files == [n \in {RecordAt(p).name : p \in {q \in Positions : Exists(q)}} |->
            Content(RecordAt(FileOf(n)).fptr)]

TypeOK ==
  /\ media \in [Sectors -> SectorSet]
  /\ pc \in {"idle", "find", "add", "record", "truncate", "clean", "erase", "eof",
             "load", "write", "chain", "page0", "page1", "release", "read"}
  /\ loc \in CallSet
  /\ todo \in Seq(Bytes)
  /\ file = NoFile \/ file \in FileSet

\* Two files never share a sector, and none holds a sector of the index, at
\* whatever write the power failed.  (lf_get_free_sector, lf_add_record,
\* lf_write, lf_open)
FilesSeparate ==
  /\ \A p, q \in Positions :
       p # q => ChainOf(RecordAt(p).fptr) \intersect ChainOf(RecordAt(q).fptr) = {}
  /\ \A p \in Positions : ChainOf(RecordAt(p).fptr) \intersect IndexSectors = {}

\* No link of a file leads into a free sector, except while lf_delete is at
\* work on it: a free sector may be handed out again.
NoLinkIntoFreeSector ==
  loc.op # "delete" => \A p \in Positions : \A s \in ChainOf(RecordAt(p).fptr) : ~Free(s)

\* Between calls no sector is lost: every data sector that is not free belongs
\* to a file or to the index.  (lf_clean_data, lf_delete, lf_open)
EverySectorAccountedFor ==
  pc = "idle" =>
    \A s \in DataSectors \ IndexSectors :
      ~Free(s) <=> \E p \in Positions : s \in ChainOf(RecordAt(p).fptr)

\* What was written to the open file is on the media, but for the end of it
\* that the cached sector holds and marks as changed.  (lf_write, lf_flush)
MediaFollowsCache ==
  file # NoFile /\ pc = "idle" =>
    IF file.changed
      THEN file.intent = SubSeq(Content(file.head), 1, Len(file.intent) - file.off)
                           \o SubSeq(file.buf.data, 1, file.off)
      ELSE file.intent = Content(file.head)

\* lf_read delivers the file from its beginning, and stops short only at its
\* end.
ReadDeliversContent ==
  file # NoFile =>
    /\ IsPrefix(file.got, file.intent)
    /\ file.ended => file.got = file.intent

\* A name has one record: lf_open creates a record only for a name that is
\* not there.  (lf_find_record, lf_add_record)
OneRecordPerName ==
  \A p, q \in Positions : RecordAt(p).name = RecordAt(q).name => p = q

\* The media implements FileStore: each write to it creates, empties, extends
\* or removes one file, or leaves every file as it was, and so does a power
\* failure.
Store == INSTANCE FileStore WITH files <- Files
ImplementsFileStore == Store!Spec

\* Every call returns: no chain of sectors or of index sectors is walked for
\* ever, whatever was left behind by power failures before.
CallsReturn == pc # "idle" ~> pc = "idle"
=============================================================================
