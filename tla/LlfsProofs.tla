----------------------------- MODULE LlfsProofs -----------------------------
(***************************************************************************)
(* Proofs about Llfs, for volumes and files of any size, any names and     *)
(* calls: files stay separate whatever fails, no sector is lost and a name *)
(* has one record when nothing does; lf_read delivers what the file holds, *)
(* and what lf_write was given is in the file or in the cached sector;     *)
(* when nothing fails, each write to the media is a step of FileStore.     *)
(***************************************************************************)
EXTENDS Llfs, FiniteSetTheorems, SequenceTheorems, WellFoundedInduction, TLAPS

-----------------------------------------------------------------------------
(* The inductive invariant *)

\* The records on the media, and the sectors that belong to a file.
Recs == {p \in Sectors \X Slots :
           media[p[1]].index /\ p[2] \in SlotsOf(p[1]) /\ RecordAt(p) # Erased}
Used(s) == s \in DataSectors /\ media[s].link # 0

\* No other sector and no record leads to s.
NoLinkTo(s) == \A t \in DataSectors \ {s} : media[t].link # s
NoRecordOf(s) == \A p \in Recs : RecordAt(p).fptr # s
Unreferenced(s) == NoLinkTo(s) /\ NoRecordOf(s)

\* The record that lf_delete has found, whose sectors it frees.
Deleting(p) == loc.op = "delete" /\ pc \in {"clean", "erase"} /\ p = <<loc.at, loc.slot>>

\* An index sector is never free, and a sector is free exactly when it belongs
\* to no file and to no index.
MarksOK ==
  /\ media[0].index
  /\ media[LAST].link = 0
  /\ \A s \in Sectors :
       media[s].index => media[s].link = 0 /\ Count(media[s]) = EmptyByte
  /\ \A s \in Sectors :
       ~media[s].index /\ media[s].link = 0 => Count(media[s]) = 0
  /\ \A s \in DataSectors : media[s].link = s => Count(media[s]) \in 0..DataSize-1

\* A link leads into a sector of a file, and no two lead into the same one.
LinksOK ==
  /\ \A s \in DataSectors : media[s].link \in DataSectors => Used(media[s].link)
  /\ \A s, t \in DataSectors :
       media[s].link = media[t].link /\ media[s].link \in DataSectors \ {s, t} => s = t

\* A record leads to the first sector of a file, another record to another.
RecordsOK ==
  /\ \A p \in Recs :
       /\ RecordAt(p).fptr \in DataSectors
       /\ NoLinkTo(RecordAt(p).fptr)
       /\ ~media[RecordAt(p).fptr].index
  /\ \A p, q \in Recs : RecordAt(p).fptr = RecordAt(q).fptr => p = q

\* It leads to a sector of a file as long as it is not being deleted.
RecordsUsed == \A p \in Recs : Used(RecordAt(p).fptr) \/ Deleting(p)

\* Which operation each step belongs to.
OpsOK ==
  /\ pc \in {"idle", "find", "add", "record", "truncate", "clean", "erase", "eof",
             "load", "write", "chain", "page0", "page1", "read"}
  /\ pc \in {"find", "add", "record", "truncate", "clean", "erase", "eof", "load"} =>
       file = NoFile
  /\ pc \in {"write", "chain", "read"} => file # NoFile
  /\ pc \in {"idle", "write", "chain", "read"} => loc.op = "none"
  /\ pc = "find" => loc.op \in {"delete", "read"} \union WritingModes
  /\ pc \in {"add", "record"} => loc.op \in CreatingModes
  /\ pc = "truncate" => loc.op \in {"write", "create"}
  /\ pc = "clean" => loc.op \in {"delete", "write", "create"}
  /\ pc = "erase" => loc.op = "delete"
  /\ pc = "eof" => loc.op = "append"
  /\ pc = "load" => loc.op \in {"read"} \union WritingModes
  /\ pc \in {"page0", "page1"} =>
       loc.op \in IF file = NoFile THEN CreatingModes ELSE {"none", "close"}
  /\ loc.op \in {"read"} \union WritingModes => \E n \in Names : loc.names = {n}
  /\ loc.op = "delete" => ~PowerCuts /\ ~IoErrors

\* What the local variables of a call say of the media.
CallOK ==
  /\ pc = "find" /\ loc.at = 0 => loc.slot > 0
  /\ pc \in {"truncate", "clean", "erase", "eof", "load"} =>
       <<loc.at, loc.slot>> \in Recs /\ RecordAt(<<loc.at, loc.slot>>).fptr = loc.head
  /\ pc = "truncate" => loc.ptr = loc.head
  /\ pc \in {"eof", "load"} => Used(loc.ptr)
  /\ pc = "load" /\ loc.op \in WritingModes => EndsChain(loc.ptr)
  /\ pc = "clean" =>
       /\ Used(loc.ptr) /\ NoLinkTo(loc.ptr)
       /\ \A p \in Recs : RecordAt(p).fptr = loc.ptr => Deleting(p)
       /\ loc.op # "delete" => media[loc.head].link = loc.head
  /\ pc \in {"record", "chain"} =>
       media[loc.sect].link = loc.sect /\ Used(loc.sect) /\ Unreferenced(loc.sect)
  /\ pc = "record" =>
       /\ IsIndex(loc.at) /\ loc.slot \in SlotsOf(loc.at)
       /\ RecordAt(<<loc.at, loc.slot>>) = Erased
  /\ pc = "chain" => loc.sect # file.sect
  /\ pc \in {"page0", "page1"} =>
       IF file = NoFile THEN loc.at # 0 /\ Free(loc.at) ELSE loc.at = file.sect

\* What the open file says of the media, and the media of it.
FileOK ==
  file # NoFile =>
    /\ file \in FileSet
    /\ Used(file.sect)
    /\ pc \in {"write", "chain", "page0", "page1"} => file.mode \in WritingModes
    /\ pc = "read" => file.mode = "read"
    /\ file.mode = "read" /\ file.dataSect = file.sect => file.buf = media[file.sect]
    /\ file.mode \in WritingModes =>
         /\ ~file.buf.index
         /\ file.buf.link \in {file.sect, LAST}
         /\ file.buf.link = file.sect =>
              Count(file.buf) \in 0..DataSize-1 /\ file.off \in 0..DataSize-1
    /\ pc = "chain" => file.buf.link = LAST
    /\ pc \in {"page0", "page1"} /\ loc.op = "none" => file.buf.link = LAST

StoreOK == media \in [Sectors -> SectorSet] /\ MarksOK /\ LinksOK /\ RecordsOK

IInv ==
  /\ loc \in CallSet /\ todo \in Seq(Bytes)
  /\ StoreOK /\ RecordsUsed /\ OpsOK /\ CallOK /\ FileOK

-----------------------------------------------------------------------------
(* Numbers, sectors and sets *)

LEMMA Sizes ==
  /\ SectorCount \in Nat /\ SectorCount > 2
  /\ DataSize \in Nat /\ DataSize > 1
  /\ RecordCount \in Nat /\ RecordCount > 1
  /\ 0..DataSize-1 \subseteq Bytes /\ EmptyByte \in Bytes /\ EmptyByte # 0 /\ 0 \in Bytes
BY SizesAssumption, BytesAssumption

LEMMA Volume ==
  /\ Sectors = DataSectors \union {0, LAST}
  /\ 0 \notin DataSectors /\ LAST \notin DataSectors /\ LAST # 0
  /\ Sectors \subseteq Nat /\ Slots \subseteq 0..RecordCount
  /\ 1 \in SlotsOf(0) /\ \A s : SlotsOf(s) \subseteq Slots
BY Sizes DEF Sectors, DataSectors, LAST, Slots, SlotsOf

LEMMA LeastLemma ==
  ASSUME NEW W \in SUBSET Nat, W # {}
  PROVE  Min(W) \in W /\ \A x \in W : Min(W) <= x
<1>1. \A x, y : x \in Nat /\ y \in Nat /\ x < y => <<x, y>> \in OpToRel(<, Nat)
  BY DEF OpToRel
<1>2. PICK x \in W : \A y \in W : ~(<<y, x>> \in OpToRel(<, Nat))
  BY NatLessThanWellFounded, WFMin
<1>3. \A y \in W : ~(y < x)
  BY <1>1, <1>2
<1>4. \A y \in W : x <= y
  BY <1>3
<1> QED
  BY <1>4 DEF Min

LEMMA SectorFields ==
  ASSUME NEW b \in SectorSet
  PROVE  /\ b.index \in BOOLEAN /\ b.recs \in [Slots -> Records \union {Erased}]
         /\ b.next \in Sectors /\ b.data \in [1..DataSize -> Bytes] /\ b.link \in Sectors
         /\ Count(b) \in Bytes
BY Sizes DEF SectorSet, Count

LEMMA EmptyTypes ==
  /\ EmptyIndex \in SectorSet /\ EmptyIndex.link = 0 /\ EmptyIndex.index
  /\ Count(EmptyIndex) = EmptyByte /\ \A i \in Slots : EmptyIndex.recs[i] = Erased
  /\ EmptyIndex.next = 0
BY Sizes, Volume DEF EmptyIndex, SectorSet, Count

LEMMA EmptyDataTypes ==
  ASSUME NEW l \in Sectors
  PROVE  /\ EmptyData(l) \in SectorSet /\ EmptyData(l).link = l /\ ~EmptyData(l).index
         /\ Count(EmptyData(l)) = 0
<1> DEFINE e == EmptyIndex
<1>1. e \in SectorSet /\ DataSize \in 1..DataSize /\ 0 \in Bytes
  BY EmptyTypes, Sizes
<1> HIDE DEF e
<1>2. EmptyData(l) = [e EXCEPT !.index = FALSE, !.data[DataSize] = 0, !.link = l]
  BY Zenon DEF EmptyData, e
<1> DEFINE f == [e EXCEPT !.index = FALSE]
<1>6. f \in SectorSet
  BY <1>1 DEF SectorSet
<1>7. EmptyData(l) = [f EXCEPT !.data[DataSize] = 0, !.link = l]
  BY <1>2
<1> HIDE DEF f
<1>3. EmptyData(l) \in SectorSet
  <2> DEFINE g == [f EXCEPT !.data[DataSize] = 0]
  <2>1. g \in SectorSet
    BY <1>1, <1>6 DEF SectorSet
  <2>2. EmptyData(l) = [g EXCEPT !.link = l]
    BY <1>7
  <2> HIDE DEF g
  <2> QED
    BY <2>1, <2>2 DEF SectorSet
<1>4. EmptyData(l).link = l /\ Count(EmptyData(l)) = 0
  BY <1>1, <1>2 DEF SectorSet, Count
<1>5. ~EmptyData(l).index
  BY <1>1, <1>2 DEF SectorSet
<1> QED
  BY <1>3, <1>4, <1>5

-----------------------------------------------------------------------------
(* What a write to the media makes of it *)

\* Sector s of m has LINK l and COUNT c and is none of the index, and the
\* others are as they were.
LinkSet(m, s, l, c) ==
  /\ m \in [Sectors -> SectorSet]
  /\ \A x \in Sectors \ {s} : m[x] = media[x]
  /\ ~m[s].index /\ m[s].link = l /\ Count(m[s]) = c

\* The index, the links and the counts of m are as they were.
SameLinks(m) ==
  /\ m \in [Sectors -> SectorSet]
  /\ \A x \in Sectors : /\ m[x].index = media[x].index /\ m[x].link = media[x].link
                        /\ Count(m[x]) = Count(media[x])

LEMMA SetNextLemma ==
  ASSUME media \in [Sectors -> SectorSet], NEW s \in Sectors, NEW l \in Sectors,
         NEW c \in Bytes, ~media[s].index
  PROVE  LinkSet(SetNext(s, l, c), s, l, c)
<1> DEFINE b == media[s]
           n == [b EXCEPT !.link = l, !.data[DataSize] = c]
<1>1. b \in SectorSet /\ ~b.index /\ DataSize \in 1..DataSize
  BY Sizes
<1>2. SetNext(s, l, c) = [media EXCEPT ![s] = n]
  BY DEF SetNext
<1> HIDE DEF b
<1>3. n \in SectorSet /\ Count(n) = c /\ ~n.index /\ n.link = l
  BY <1>1 DEF SectorSet, Count
<1> HIDE DEF n
<1> QED
  BY <1>2, <1>3 DEF LinkSet

LEMMA FirstPageLemma ==
  ASSUME media \in [Sectors -> SectorSet], NEW s \in Sectors, NEW b \in SectorSet
  PROVE  LET m == [media EXCEPT ![s] = FirstPage(@, b)]
         IN  SameLinks(m) /\ \A x \in Sectors \ {s} : m[x] = media[x]
<1> DEFINE o == media[s]
           n == FirstPage(o, b)
<1>1. o \in SectorSet /\ DataSize \in 1..DataSize /\ ~(DataSize <= FirstPageSize(DataSize))
  BY Sizes DEF FirstPageSize
<1>2. [media EXCEPT ![s] = FirstPage(@, b)] = [media EXCEPT ![s] = n]
  OBVIOUS
<1> HIDE DEF o
<1>3. n \in SectorSet
  BY <1>1, SectorFields DEF SectorSet, FirstPage
<1>4. Count(n) = Count(o) /\ n.index = o.index /\ n.link = o.link
  BY <1>1 DEF SectorSet, FirstPage, Count
<1> HIDE DEF n
<1> QED
  BY <1>2, <1>3, <1>4 DEF SameLinks, o

RecsKept == Recs' = Recs /\ \A p \in Recs : RecordAt(p)' = RecordAt(p)

LEMMA RecsKeptLemma ==
  ASSUME NEW M \in SUBSET Sectors,
         \A x \in Sectors \ M : media'[x] = media[x],
         \A x \in M : ~media[x].index /\ ~media'[x].index
  PROVE  RecsKept
<1>1. \A p \in Recs : p[1] \in Sectors \ M
  BY DEF Recs
<1>2. \A p \in Recs : RecordAt(p)' = RecordAt(p)
  BY <1>1 DEF RecordAt
<1>3. \A p \in Sectors \X Slots : media'[p[1]].index => p[1] \in Sectors \ M
  OBVIOUS
<1>4. \A p \in Sectors \X Slots : media'[p[1]].index => RecordAt(p)' = RecordAt(p)
  BY <1>3 DEF RecordAt
<1>5. \A p \in Sectors \X Slots : media'[p[1]].index <=> media[p[1]].index
  OBVIOUS
<1>6. \A p \in Sectors \X Slots : p \in Recs' <=> p \in Recs
  BY <1>4, <1>5 DEF Recs
<1> QED
  BY <1>2, <1>6 DEF RecsKept, Recs

\* The write of a LINK and a COUNT to a sector of a file or to a free sector.
LEMMA LinkMedia ==
  ASSUME StoreOK, NEW s \in DataSectors, NEW l \in Sectors, NEW c, ~media[s].index,
         LinkSet(media', s, l, c),
         l = 0 => c = 0 /\ NoLinkTo(s),
         l = s => c \in 0..DataSize-1,
         l \in DataSectors \ {s} => Used(l) /\ NoLinkTo(l) /\ NoRecordOf(l)
  PROVE  StoreOK' /\ RecsKept
<1>1. /\ media' \in [Sectors -> SectorSet] /\ s \in Sectors
      /\ \A x \in Sectors \ {s} : media'[x] = media[x]
      /\ ~media'[s].index /\ media'[s].link = l /\ Count(media'[s]) = c
  BY Volume DEF LinkSet
<1>2. RecsKept
  <2>1. {s} \in SUBSET Sectors
    BY <1>1
  <2> QED
    BY <1>1, <2>1, RecsKeptLemma
<1>3. MarksOK'
  <2>1. media'[0].index /\ media'[LAST].link = 0
    BY <1>1, Volume DEF StoreOK, MarksOK
  <2>2. \A x \in Sectors : media'[x].index => media'[x].link = 0 /\ Count(media'[x]) = EmptyByte
    BY <1>1 DEF StoreOK, MarksOK
  <2>3. \A x \in Sectors : ~media'[x].index /\ media'[x].link = 0 => Count(media'[x]) = 0
    BY <1>1 DEF StoreOK, MarksOK
  <2>4. \A x \in DataSectors : media'[x].link = x => Count(media'[x]) \in 0..DataSize-1
    BY <1>1, Volume DEF StoreOK, MarksOK
  <2> QED
    BY <2>1, <2>2, <2>3, <2>4 DEF MarksOK
<1>4. LinksOK'
  <2>1. ASSUME NEW x \in DataSectors, media'[x].link \in DataSectors
        PROVE  Used(media[x].link)'
    <3>1. CASE media'[x].link = s
      <4>1. l # 0
        BY <1>1, <2>1, <3>1, Volume DEF NoLinkTo
      <4> QED
        BY <1>1, <2>1, <3>1, <4>1 DEF Used
    <3>2. CASE media'[x].link # s
      <4>1. Used(media'[x].link)
        BY <1>1, <2>1, <3>2, Volume DEF StoreOK, LinksOK
      <4> QED
        BY <1>1, <2>1, <3>2, <4>1, Volume DEF Used
    <3> QED
      BY <3>1, <3>2
  <2>2. ASSUME NEW x \in DataSectors, NEW y \in DataSectors,
               media'[x].link = media'[y].link, media'[x].link \in DataSectors \ {x, y}
        PROVE  x = y
    <3>1. CASE x = s
      BY <1>1, <2>2, <3>1, Volume DEF NoLinkTo
    <3>2. CASE y = s
      BY <1>1, <2>2, <3>2, Volume DEF NoLinkTo
    <3>3. CASE x # s /\ y # s
      BY <1>1, <2>2, <3>3, Volume DEF StoreOK, LinksOK
    <3> QED
      BY <3>1, <3>2, <3>3
  <2> QED
    BY <2>1, <2>2 DEF LinksOK
<1>5. RecordsOK'
  <2>1. ASSUME NEW p \in Recs
        PROVE  /\ RecordAt(p).fptr \in DataSectors
               /\ NoLinkTo(RecordAt(p).fptr)'
               /\ ~media'[RecordAt(p).fptr].index
    <3>1. /\ RecordAt(p).fptr \in DataSectors /\ NoLinkTo(RecordAt(p).fptr)
          /\ ~media[RecordAt(p).fptr].index
      BY DEF StoreOK, RecordsOK
    <3>2. ~media'[RecordAt(p).fptr].index
      BY <1>1, <3>1, Volume
    <3>3. l = RecordAt(p).fptr => l = s
      BY <3>1 DEF NoRecordOf
    <3>4. \A t \in DataSectors \ {RecordAt(p).fptr} : media'[t].link # RecordAt(p).fptr
      BY <1>1, <3>1, <3>3, Volume DEF NoLinkTo
    <3> QED
      BY <1>2, <3>1, <3>2, <3>4 DEF NoLinkTo, RecsKept
  <2>2. \A p, q \in Recs : RecordAt(p).fptr = RecordAt(q).fptr => p = q
    BY DEF StoreOK, RecordsOK
  <2> QED
    BY <1>2, <2>1, <2>2 DEF RecordsOK, RecsKept
<1> QED
  BY <1>1, <1>2, <1>3, <1>4, <1>5 DEF StoreOK

\* A write that leaves the marks, the links and the counts as they are.
LEMMA SameLinksLemma ==
  ASSUME StoreOK, SameLinks(media')
  PROVE  /\ media' \in [Sectors -> SectorSet] /\ MarksOK' /\ LinksOK'
         /\ \A x : Used(x)' <=> Used(x)
         /\ \A x : NoLinkTo(x)' <=> NoLinkTo(x)
<1>1. /\ media' \in [Sectors -> SectorSet] /\ DataSectors \subseteq Sectors
      /\ 0 \in Sectors /\ LAST \in Sectors
      /\ \A x \in Sectors : media'[x].index = media[x].index /\ media'[x].link = media[x].link
                              /\ Count(media'[x]) = Count(media[x])
  BY Volume DEF SameLinks
<1>2. MarksOK'
  <2>1. media'[0].index /\ media'[LAST].link = 0
    BY <1>1 DEF StoreOK, MarksOK
  <2>2. \A x \in Sectors : media'[x].index => media'[x].link = 0 /\ Count(media'[x]) = EmptyByte
    BY <1>1 DEF StoreOK, MarksOK
  <2>3. \A x \in Sectors : ~media'[x].index /\ media'[x].link = 0 => Count(media'[x]) = 0
    BY <1>1 DEF StoreOK, MarksOK
  <2>4. \A x \in DataSectors : media'[x].link = x => Count(media'[x]) \in 0..DataSize-1
    BY <1>1 DEF StoreOK, MarksOK
  <2> QED
    BY <2>1, <2>2, <2>3, <2>4 DEF MarksOK
<1>3. \A x \in DataSectors : media'[x].link = media[x].link
  BY <1>1
<1>4. \A x : Used(x)' <=> Used(x)
  BY <1>3 DEF Used
<1>5. \A x : NoLinkTo(x)' <=> NoLinkTo(x)
  BY <1>3 DEF NoLinkTo
<1>6. LinksOK'
  BY <1>3, <1>4 DEF StoreOK, LinksOK
<1> QED
  BY <1>1, <1>2, <1>4, <1>5, <1>6

-----------------------------------------------------------------------------
(* What a file holds *)

\* A function of the numbers up to N can be built up step by step.
BuiltUp(T, z, step, N) ==
  \E f \in [0..N -> T] : f[0] = z /\ \A n \in 1..N : f[n] = step[f[n-1]]

LEMMA StepByStep ==
  ASSUME NEW T, NEW z \in T, NEW step \in [T -> T], NEW N \in Nat
  PROVE  BuiltUp(T, z, step, N)
<1> DEFINE Built(m) == \E f \in [0..m -> T] : f[0] = z /\ \A n \in 1..m : f[n] = step[f[n-1]]
           W == {m \in Nat : ~Built(m)}
<1>1. Built(0)
  <2> DEFINE f == [n \in 0..0 |-> z]
  <2>1. f \in [0..0 -> T] /\ f[0] = z
    OBVIOUS
  <2>2. \A n \in 1..0 : f[n] = step[f[n-1]]
    OBVIOUS
  <2> HIDE DEF f
  <2> QED
    BY <2>1, <2>2
<1>2. ASSUME NEW m \in Nat, Built(m) PROVE Built(m + 1)
  <2>1. PICK f \in [0..m -> T] : f[0] = z /\ \A n \in 1..m : f[n] = step[f[n-1]]
    BY <1>2
  <2> DEFINE g == [n \in 0..m+1 |-> IF n = m + 1 THEN step[f[m]] ELSE f[n]]
  <2>2. g \in [0..m+1 -> T]
    OBVIOUS
  <2>3. g[0] = z
    BY <2>1
  <2>4. \A n \in 1..m+1 : g[n] = step[g[n-1]]
    BY <2>1
  <2> HIDE DEF g
  <2> QED
    BY <2>2, <2>3, <2>4
<1> HIDE DEF Built
<1>3. W = {}
  <2> SUFFICES ASSUME W # {} PROVE FALSE
    OBVIOUS
  <2>1. Min(W) \in W /\ \A x \in W : Min(W) <= x
    BY LeastLemma
  <2>2. Min(W) # 0 /\ Min(W) \in Nat
    BY <1>1, <2>1
  <2> DEFINE m == Min(W)
  <2> HIDE DEF m
  <2>3. m - 1 \in Nat /\ Built(m - 1)
    BY <2>1, <2>2 DEF m
  <2>4. Built(m - 1 + 1)
    BY <1>2, <2>3
  <2>5. m - 1 + 1 = m
    BY <2>2 DEF m
  <2> QED
    BY <2>1, <2>4, <2>5 DEF m
<1>4. Built(N)
  BY <1>3
<1> QED
  BY <1>4 DEF Built, BuiltUp

\* A sector of a file as a sequence of bytes, and one step of Content.
Bytewise(s) == IF media[s].link = s THEN SubSeq(media[s].data, 1, Count(media[s]))
                                    ELSE media[s].data
LongerBy(g) == [s \in DataSectors |->
                  IF media[s].link \in {s, 0, LAST} THEN Bytewise(s)
                    ELSE Bytewise(s) \o g[media[s].link]]

\* The function that Content is defined by: f[n] is what n sectors hold from each one on.
ContentUpTo(f) ==
  /\ f \in [0..SectorCount -> [DataSectors -> Seq(Bytes)]]
  /\ f[0] = [s \in DataSectors |-> <<>>]
  /\ \A n \in 1..SectorCount : f[n] = LongerBy(f[n - 1])

LEMMA BytewiseTypes ==
  ASSUME StoreOK, NEW s \in DataSectors
  PROVE  Bytewise(s) \in Seq(Bytes)
<1>1. media[s] \in SectorSet /\ media[s].data \in [1..DataSize -> Bytes]
  BY Volume, SectorFields DEF StoreOK
<1>2. media[s].data \in Seq(Bytes) /\ Len(media[s].data) = DataSize
  BY <1>1, Sizes
<1>3. media[s].link = s => Count(media[s]) \in 0..DataSize-1
  BY DEF StoreOK, MarksOK
<1>4. ASSUME Count(media[s]) \in 0..DataSize-1
      PROVE  SubSeq(media[s].data, 1, Count(media[s])) \in Seq(Bytes)
  <2>1. \A i \in 1..Count(media[s]) : i \in 1..Len(media[s].data)
    BY <1>2, <1>4, Sizes
  <2> QED
    BY <1>2, <1>4, <2>1, Sizes, SubSeqProperties
<1> QED
  BY <1>2, <1>3, <1>4 DEF Bytewise

LEMMA LongerByTypes ==
  ASSUME StoreOK, NEW g \in [DataSectors -> Seq(Bytes)]
  PROVE  LongerBy(g) \in [DataSectors -> Seq(Bytes)]
<1>1. ASSUME NEW s \in DataSectors, media[s].link \notin {s, 0, LAST}
      PROVE  Bytewise(s) \o g[media[s].link] \in Seq(Bytes)
  <2>1. media[s].link \in DataSectors
    BY <1>1, Volume, SectorFields DEF StoreOK
  <2>2. Bytewise(s) \in Seq(Bytes) /\ g[media[s].link] \in Seq(Bytes)
    BY <2>1, BytewiseTypes
  <2> QED
    BY <2>2
<1> QED
  BY <1>1, BytewiseTypes DEF LongerBy

LEMMA ContentLemma ==
  ASSUME StoreOK
  PROVE  \E f : ContentUpTo(f) /\ \A h \in DataSectors : Content(h) = f[SectorCount][h]
<1> DEFINE T == [DataSectors -> Seq(Bytes)]
           z == [s \in DataSectors |-> <<>>]
           step == [g \in T |-> LongerBy(g)]
           Body(from, n, s) ==
             LET b == media[s]
             IN  IF n = 0            THEN <<>>
                 ELSE IF b.link = s  THEN SubSeq(b.data, 1, Count(b))
                 ELSE IF b.link \in {0, LAST} THEN b.data
                 ELSE b.data \o from[n - 1][b.link]
           Q(from) == from = [n \in 0..SectorCount |-> [s \in DataSectors |-> Body(from, n, s)]]
<1>1. z \in T
  OBVIOUS
<1>2. step \in [T -> T]
  BY LongerByTypes
<1>3. PICK f \in [0..SectorCount -> T] : f[0] = z /\ \A n \in 1..SectorCount : f[n] = step[f[n-1]]
  <2> HIDE DEF T, z, step
  <2>1. SectorCount \in Nat
    BY Sizes
  <2>2. BuiltUp(T, z, step, SectorCount)
    BY <1>1, <1>2, <2>1, StepByStep, Zenon
  <2> QED
    BY <2>2 DEF BuiltUp
<1>4. ASSUME NEW n \in 1..SectorCount
      PROVE  f[n - 1] \in T /\ f[n] = LongerBy(f[n - 1])
  <2>1. n - 1 \in 0..SectorCount
    BY Sizes
  <2>2. f[n - 1] \in T /\ f[n] = step[f[n - 1]]
    BY <1>3, <2>1
  <2> HIDE DEF T
  <2> QED
    BY <2>2
<1>5. ASSUME NEW n \in 1..SectorCount, NEW g, NEW s \in DataSectors
      PROVE  Body(g, n, s) = IF media[s].link \in {s, 0, LAST} THEN Bytewise(s)
                               ELSE Bytewise(s) \o g[n - 1][media[s].link]
  BY <1>5, Volume DEF Bytewise
<1>6. ASSUME NEW n \in 0..SectorCount
      PROVE  f[n] = [s \in DataSectors |-> Body(f, n, s)]
  <2>1. CASE n = 0
    BY <1>3, <2>1
  <2>2. CASE n # 0
    <3>1. n \in 1..SectorCount
      BY <1>6, <2>2, Sizes
    <3>2. f[n] = LongerBy(f[n - 1])
      BY <1>4, <3>1
    <3>3. \A s \in DataSectors :
            Body(f, n, s) = IF media[s].link \in {s, 0, LAST} THEN Bytewise(s)
                              ELSE Bytewise(s) \o f[n - 1][media[s].link]
      BY <1>5, <3>1
    <3> HIDE DEF Body
    <3> QED
      BY <3>2, <3>3 DEF LongerBy
  <2> QED
    BY <2>1, <2>2
<1>7. Q(f)
  <2> HIDE DEF Body
  <2> QED
    BY <1>3, <1>6
<1> DEFINE c == CHOOSE from : Q(from)
<1>8. Q(c)
  <2> HIDE DEF Q
  <2> QED
    BY <1>7
<1>9. \A h : Content(h) = c[SectorCount][h]
  BY DEF Content
<1>10. c = f
  <2> HIDE DEF c
  <2> DEFINE W == {n \in 0..SectorCount : c[n] # f[n]}
  <2>1. \A n \in 0..SectorCount : c[n] = [s \in DataSectors |-> Body(c, n, s)]
    <3> HIDE DEF Body
    <3> QED
      BY <1>8
  <2>2. W = {}
    <3> SUFFICES ASSUME W # {} PROVE FALSE
      OBVIOUS
    <3>1. W \in SUBSET Nat
      OBVIOUS
    <3>2. PICK m \in W : \A x \in W : m <= x
      <4> HIDE DEF W
      <4> QED
        BY <3>1, LeastLemma
    <3>3. m # 0
      <4>1. c[0] = [s \in DataSectors |-> Body(c, 0, s)]
        <5> HIDE DEF Body
        <5>1. 0 \in 0..SectorCount
          BY Sizes
        <5> QED
          BY <2>1, <5>1
      <4>2. c[0] = z
        BY <4>1
      <4> QED
        BY <1>3, <3>2, <4>2
    <3>4. m \in 1..SectorCount /\ m - 1 \in 0..SectorCount /\ c[m - 1] = f[m - 1]
      BY <3>2, <3>3, Sizes
    <3>5. ASSUME NEW s \in DataSectors PROVE Body(c, m, s) = Body(f, m, s)
      <4>1. Body(c, m, s) = IF media[s].link \in {s, 0, LAST} THEN Bytewise(s)
                              ELSE Bytewise(s) \o c[m - 1][media[s].link]
        BY <1>5, <3>4
      <4>2. Body(f, m, s) = IF media[s].link \in {s, 0, LAST} THEN Bytewise(s)
                              ELSE Bytewise(s) \o f[m - 1][media[s].link]
        BY <1>5, <3>4
      <4> HIDE DEF Body
      <4> QED
        BY <3>4, <4>1, <4>2
    <3> HIDE DEF Body
    <3>6. c[m] = f[m]
      BY <1>6, <2>1, <3>4, <3>5, Sizes
    <3> QED
      BY <3>2, <3>6
  <2> QED
    <3> HIDE DEF Body
    <3>1. \A n \in 0..SectorCount : c[n] = f[n]
      BY <2>2
    <3> QED
      BY <1>3, <1>8, <3>1
<1>11. ContentUpTo(f)
  BY <1>3, <1>4 DEF ContentUpTo
<1> HIDE DEF c
<1> QED
  BY <1>9, <1>10, <1>11

LEMMA ContentTypes ==
  ASSUME StoreOK, NEW h \in DataSectors
  PROVE  Content(h) \in Seq(Bytes)
<1>1. PICK f : ContentUpTo(f) /\ Content(h) = f[SectorCount][h]
  BY ContentLemma
<1>2. f[SectorCount] \in [DataSectors -> Seq(Bytes)]
  BY <1>1, Sizes DEF ContentUpTo
<1> QED
  BY <1>1, <1>2

-----------------------------------------------------------------------------
(* What the other writes make of the media *)

\* Who is linked to, who has a record and what the records are stays the same.
StoreKept ==
  /\ StoreOK' /\ RecsKept
  /\ \A x : Used(x)' <=> Used(x)
  /\ \A x : NoLinkTo(x)' <=> NoLinkTo(x)

LEMMA StoreKeptLemma ==
  ASSUME StoreOK, SameLinks(media'), RecsKept
  PROVE  StoreKept
<1>1. /\ media' \in [Sectors -> SectorSet] /\ MarksOK' /\ LinksOK'
      /\ \A x : Used(x)' <=> Used(x)
      /\ \A x : NoLinkTo(x)' <=> NoLinkTo(x)
  BY SameLinksLemma
<1>2. \A x \in Sectors : media'[x].index = media[x].index
  BY DEF SameLinks
<1>3. ASSUME NEW p \in Recs
      PROVE  /\ RecordAt(p).fptr \in DataSectors
             /\ NoLinkTo(RecordAt(p).fptr)'
             /\ ~media'[RecordAt(p).fptr].index
  <2>1. /\ RecordAt(p).fptr \in DataSectors /\ NoLinkTo(RecordAt(p).fptr)
        /\ ~media[RecordAt(p).fptr].index
    BY DEF StoreOK, RecordsOK
  <2>2. RecordAt(p)' = RecordAt(p)
    BY DEF RecsKept
  <2> QED
    BY <1>1, <1>2, <2>1, <2>2, Volume
<1>4. \A p, q \in Recs : RecordAt(p).fptr = RecordAt(q).fptr => p = q
  BY DEF StoreOK, RecordsOK
<1>5. RecordsOK'
  BY <1>3, <1>4 DEF RecordsOK, RecsKept, NoLinkTo
<1> QED
  BY <1>1, <1>5 DEF StoreKept, StoreOK

\* An index sector gets a next one.
LEMMA NextMedia ==
  ASSUME StoreOK, NEW a \in Sectors, NEW n \in Sectors,
         media' = [media EXCEPT ![a].next = n]
  PROVE  StoreKept
<1>1. /\ media' \in [Sectors -> SectorSet]
      /\ \A x \in Sectors :
           /\ media'[x].index = media[x].index /\ media'[x].link = media[x].link
           /\ media'[x].data = media[x].data /\ media'[x].recs = media[x].recs
  BY DEF StoreOK, SectorSet
<1>2. SameLinks(media')
  BY <1>1 DEF SameLinks, Count
<1>3. \A p \in Sectors \X Slots : media'[p[1]].index = media[p[1]].index
  BY <1>1
<1>4. \A p \in Sectors \X Slots : RecordAt(p)' = RecordAt(p)
  BY <1>1 DEF RecordAt
<1>5. RecsKept
  BY <1>3, <1>4 DEF RecsKept, Recs
<1> QED
  BY <1>2, <1>5, StoreKeptLemma

\* The first page of a sector that is none of the index.
LEMMA FirstPageMedia ==
  ASSUME StoreOK, NEW s \in Sectors, ~media[s].index, NEW b \in SectorSet,
         media' = [media EXCEPT ![s] = FirstPage(@, b)]
  PROVE  StoreKept
<1>1. SameLinks(media') /\ \A x \in Sectors \ {s} : media'[x] = media[x]
  BY FirstPageLemma DEF StoreOK
<1>2. ~media'[s].index
  BY <1>1 DEF SameLinks
<1>3. {s} \in SUBSET Sectors
  OBVIOUS
<1>4. RecsKept
  BY <1>1, <1>2, <1>3, RecsKeptLemma
<1> QED
  BY <1>1, <1>4, StoreKeptLemma

\* A free sector becomes an index sector.
LEMMA NewIndexMedia ==
  ASSUME StoreOK, RecordsUsed, \A p : ~Deleting(p),
         NEW s \in Sectors \ {0}, Free(s), media' = [media EXCEPT ![s] = EmptyIndex]
  PROVE  /\ StoreOK' /\ RecsKept /\ media'[s].index
         /\ \A x : Used(x)' <=> Used(x)
         /\ \A x : NoLinkTo(x)' <=> NoLinkTo(x)
<1>1. /\ media' \in [Sectors -> SectorSet] /\ media'[s].index /\ media'[s].link = 0
      /\ Count(media'[s]) = EmptyByte /\ \A i \in Slots : media'[s].recs[i] = Erased
      /\ \A x \in Sectors \ {s} : media'[x] = media[x]
  BY EmptyTypes DEF StoreOK
<1>2. media[s].link = 0 /\ ~media[s].index
  BY Sizes DEF Free, StoreOK, MarksOK
<1>3. \A x \in Sectors : media'[x].link = media[x].link
  BY <1>1, <1>2
<1>4. \A x : Used(x)' <=> Used(x)
  BY <1>3, Volume DEF Used
<1>5. \A x : NoLinkTo(x)' <=> NoLinkTo(x)
  BY <1>3, Volume DEF NoLinkTo
<1>6. RecsKept
  <2>1. \A p \in Recs : p[1] # s
    BY <1>2 DEF Recs
  <2>2. \A p \in Recs : RecordAt(p)' = RecordAt(p) /\ media'[p[1]].index
    BY <1>1, <2>1 DEF RecordAt, Recs
  <2>3. ASSUME NEW p \in Sectors \X Slots, media'[p[1]].index, RecordAt(p)' # Erased
        PROVE  media[p[1]].index /\ RecordAt(p)' = RecordAt(p)
    <3>1. p[1] \in Sectors \ {s}
      BY <1>1, <2>3 DEF RecordAt
    <3> QED
      BY <1>1, <2>3, <3>1 DEF RecordAt
  <2>4. \A p \in Sectors \X Slots : p \in Recs' <=> p \in Recs
    BY <2>2, <2>3 DEF Recs
  <2> QED
    BY <2>2, <2>4 DEF RecsKept, Recs
<1>7. MarksOK'
  <2>1. media'[0].index /\ media'[LAST].link = 0
    BY <1>1, <1>3, Volume DEF StoreOK, MarksOK
  <2>2. \A x \in Sectors : media'[x].index => media'[x].link = 0 /\ Count(media'[x]) = EmptyByte
    BY <1>1 DEF StoreOK, MarksOK
  <2>3. \A x \in Sectors : ~media'[x].index /\ media'[x].link = 0 => Count(media'[x]) = 0
    BY <1>1 DEF StoreOK, MarksOK
  <2>4. \A x \in DataSectors : media'[x].link = x => Count(media'[x]) \in 0..DataSize-1
    BY <1>1, <1>2, Volume DEF StoreOK, MarksOK
  <2> QED
    BY <2>1, <2>2, <2>3, <2>4 DEF MarksOK
<1>8. LinksOK'
  BY <1>3, <1>4, Volume DEF StoreOK, LinksOK
<1>9. ASSUME NEW p \in Recs
      PROVE  /\ RecordAt(p).fptr \in DataSectors
             /\ NoLinkTo(RecordAt(p).fptr)'
             /\ ~media'[RecordAt(p).fptr].index
  <2>1. /\ RecordAt(p).fptr \in DataSectors /\ NoLinkTo(RecordAt(p).fptr)
        /\ ~media[RecordAt(p).fptr].index
    BY DEF StoreOK, RecordsOK
  <2>2. Used(RecordAt(p).fptr)
    BY DEF RecordsUsed
  <2>3. RecordAt(p).fptr # s
    BY <1>2, <2>2 DEF Used
  <2>4. RecordAt(p)' = RecordAt(p)
    BY <1>6 DEF RecsKept
  <2> QED
    BY <1>1, <1>5, <2>1, <2>3, <2>4, Volume
<1>10. \A p, q \in Recs : RecordAt(p).fptr = RecordAt(q).fptr => p = q
  BY DEF StoreOK, RecordsOK
<1>11. RecordsOK'
  BY <1>6, <1>9, <1>10 DEF RecordsOK, RecsKept, NoLinkTo
<1> QED
  BY <1>1, <1>4, <1>5, <1>6, <1>7, <1>8, <1>11 DEF StoreOK

\* A record is written into an erased slot, and one is erased.
LEMMA AddedRecordMedia ==
  ASSUME StoreOK, NEW a \in Sectors, NEW i \in SlotsOf(a), media[a].index,
         RecordAt(<<a, i>>) = Erased, NEW r \in Records, Used(r.fptr), Unreferenced(r.fptr),
         media' = [media EXCEPT ![a].recs[i] = r]
  PROVE  /\ StoreOK' /\ Recs' = Recs \union {<<a, i>>}
         /\ RecordAt(<<a, i>>)' = r /\ \A p \in Recs : RecordAt(p)' = RecordAt(p)
         /\ SameLinks(media')
<1>1. i \in Slots
  BY Volume
<1>2. /\ media' \in [Sectors -> SectorSet]
      /\ \A x \in Sectors :
           /\ media'[x].index = media[x].index /\ media'[x].link = media[x].link
           /\ media'[x].data = media[x].data
  BY <1>1 DEF StoreOK, SectorSet
<1>3. SameLinks(media')
  BY <1>2 DEF SameLinks, Count
<1>4. /\ \A x \in Sectors, j \in Slots : <<x, j>> # <<a, i>> => media'[x].recs[j] = media[x].recs[j]
      /\ media'[a].recs[i] = r
  BY <1>1 DEF StoreOK, SectorSet
<1>5. \A p \in Sectors \X Slots : p # <<a, i>> => RecordAt(p)' = RecordAt(p)
  BY <1>4 DEF RecordAt
<1>6. RecordAt(<<a, i>>)' = r /\ r # Erased
  BY <1>4, NullsAssumption DEF RecordAt
<1>7. <<a, i>> \notin Recs
  BY DEF Recs
<1>8. \A p \in Sectors \X Slots : p \in Recs' <=> p \in Recs \/ p = <<a, i>>
  <2>1. ASSUME NEW p \in Sectors \X Slots, p = <<a, i>> PROVE p \in Recs'
    BY <1>1, <1>2, <1>6, <2>1 DEF Recs
  <2>2. ASSUME NEW p \in Sectors \X Slots, p # <<a, i>> PROVE p \in Recs' <=> p \in Recs
    BY <1>2, <1>5, <2>2 DEF Recs
  <2> QED
    BY <2>1, <2>2
<1>9. Recs' = Recs \union {<<a, i>>}
  <2>1. <<a, i>> \in Sectors \X Slots
    BY <1>1
  <2> QED
    BY <1>8, <2>1 DEF Recs
<1>10. \A p \in Recs : RecordAt(p)' = RecordAt(p)
  BY <1>5, <1>7 DEF Recs
<1>11. /\ media' \in [Sectors -> SectorSet] /\ MarksOK' /\ LinksOK'
       /\ \A x : NoLinkTo(x)' <=> NoLinkTo(x)
  BY <1>3, SameLinksLemma
<1>12. ~media[r.fptr].index /\ r.fptr \in DataSectors
  BY Volume DEF StoreOK, MarksOK, Used
<1>13. ASSUME NEW p \in Recs'
       PROVE  /\ RecordAt(p)'.fptr \in DataSectors
              /\ NoLinkTo(RecordAt(p)'.fptr)
              /\ ~media[RecordAt(p)'.fptr].index
  <2>1. CASE p = <<a, i>>
    BY <1>6, <1>12, <2>1 DEF Unreferenced
  <2>2. CASE p # <<a, i>>
    BY <1>9, <1>10, <1>13, <2>2 DEF StoreOK, RecordsOK
  <2> QED
    BY <2>1, <2>2
<1>14. ASSUME NEW p \in Recs', NEW q \in Recs', RecordAt(p)'.fptr = RecordAt(q)'.fptr
       PROVE  p = q
  <2>1. \A t \in Recs : RecordAt(t)'.fptr # r.fptr
    BY <1>10 DEF Unreferenced, NoRecordOf
  <2>2. CASE p = <<a, i>> \/ q = <<a, i>>
    BY <1>6, <1>9, <1>14, <2>1, <2>2
  <2>3. CASE p # <<a, i>> /\ q # <<a, i>>
    BY <1>9, <1>10, <1>14, <2>3 DEF StoreOK, RecordsOK
  <2> QED
    BY <2>2, <2>3
<1>15. RecordsOK'
  <2>1. ASSUME NEW p \in Recs'
        PROVE  /\ RecordAt(p)'.fptr \in DataSectors
               /\ \A t \in DataSectors \ {RecordAt(p)'.fptr} : media'[t].link # RecordAt(p)'.fptr
               /\ ~media'[RecordAt(p)'.fptr].index
    BY <1>2, <1>13, Volume DEF NoLinkTo
  <2> QED
    BY <1>14, <2>1 DEF RecordsOK, NoLinkTo
<1> QED
  BY <1>3, <1>6, <1>9, <1>10, <1>11, <1>15 DEF StoreOK

LEMMA ErasedRecordMedia ==
  ASSUME StoreOK, NEW a \in Sectors, NEW i \in SlotsOf(a),
         media' = [media EXCEPT ![a].recs[i] = Erased]
  PROVE  /\ StoreOK' /\ Recs' = Recs \ {<<a, i>>}
         /\ \A p \in Recs' : RecordAt(p)' = RecordAt(p)
         /\ SameLinks(media')
<1>1. i \in Slots
  BY Volume
<1>2. /\ media' \in [Sectors -> SectorSet]
      /\ \A x \in Sectors :
           /\ media'[x].index = media[x].index /\ media'[x].link = media[x].link
           /\ media'[x].data = media[x].data
  <2>1. PICK e \in Records \union {Erased} : e = Erased
    OBVIOUS
  <2>2. media' = [media EXCEPT ![a].recs[i] = e]
    BY <2>1
  <2> DEFINE T == Records \union {Erased}
  <2>3. e \in T /\ media \in [Sectors -> [index : BOOLEAN, recs : [Slots -> T],
                              next : Sectors, data : [1..DataSize -> Bytes], link : Sectors]]
    BY DEF StoreOK, SectorSet
  <2> HIDE DEF T
  <2>4. /\ media' \in [Sectors -> [index : BOOLEAN, recs : [Slots -> T],
                              next : Sectors, data : [1..DataSize -> Bytes], link : Sectors]]
        /\ \A x \in Sectors :
             /\ media'[x].index = media[x].index /\ media'[x].link = media[x].link
             /\ media'[x].data = media[x].data
    BY <1>1, <2>2, <2>3
  <2> QED
    BY <2>4 DEF SectorSet, T
<1>3. SameLinks(media')
  BY <1>2 DEF SameLinks, Count
<1>4. /\ \A x \in Sectors, j \in Slots : <<x, j>> # <<a, i>> => media'[x].recs[j] = media[x].recs[j]
      /\ media'[a].recs[i] = Erased
  BY <1>1 DEF StoreOK, SectorSet
<1>5. \A p \in Sectors \X Slots : p # <<a, i>> => RecordAt(p)' = RecordAt(p)
  BY <1>4 DEF RecordAt
<1>6. RecordAt(<<a, i>>)' = Erased
  BY <1>4 DEF RecordAt
<1>7. \A p \in Sectors \X Slots : p \in Recs' <=> p \in Recs /\ p # <<a, i>>
  BY <1>2, <1>5, <1>6 DEF Recs
<1>8. Recs' = Recs \ {<<a, i>>}
  BY <1>7 DEF Recs
<1>9. \A p \in Recs' : RecordAt(p)' = RecordAt(p) /\ p \in Recs
  BY <1>5, <1>8 DEF Recs
<1>10. /\ media' \in [Sectors -> SectorSet] /\ MarksOK' /\ LinksOK'
       /\ \A x : NoLinkTo(x)' <=> NoLinkTo(x)
  BY <1>3, SameLinksLemma
<1>11. RecordsOK'
  <2>1. ASSUME NEW p \in Recs'
        PROVE  /\ RecordAt(p)'.fptr \in DataSectors
               /\ NoLinkTo(RecordAt(p)'.fptr)
               /\ ~media[RecordAt(p)'.fptr].index
    BY <1>9 DEF StoreOK, RecordsOK
  <2>2. ASSUME NEW p \in Recs'
        PROVE  /\ RecordAt(p)'.fptr \in DataSectors
               /\ \A t \in DataSectors \ {RecordAt(p)'.fptr} : media'[t].link # RecordAt(p)'.fptr
               /\ ~media'[RecordAt(p)'.fptr].index
    BY <1>2, <2>1, Volume DEF NoLinkTo
  <2>3. ASSUME NEW p \in Recs', NEW q \in Recs', RecordAt(p)'.fptr = RecordAt(q)'.fptr
        PROVE  p = q
    BY <1>9, <2>3 DEF StoreOK, RecordsOK
  <2> QED
    BY <2>2, <2>3 DEF RecordsOK, NoLinkTo
<1> QED
  BY <1>3, <1>8, <1>9, <1>10, <1>11 DEF StoreOK

-----------------------------------------------------------------------------
(* The steps: opening, searching and creating *)

LEMMA NoCallTypes ==
  /\ NoCall \in CallSet /\ NoCall.op = "none" /\ NoCall.at = 0
  /\ DOMAIN NoCall = {"op", "names", "at", "slot", "head", "ptr", "sect", "want"}
BY Sizes, Volume DEF NoCall, CallSet

LEMMA CallsLemma ==
  /\ Modes \subseteq {"read"} \union WritingModes
  /\ Writes \subseteq Seq(Bytes) /\ Reads \subseteq Nat
  /\ Deletes \subseteq SUBSET Names
  /\ CreatingModes = {"create", "append"} /\ WritingModes = {"write", "create", "append"}
BY CallsAssumption DEF WritingModes, CreatingModes

LEMMA StillMedia ==
  ASSUME StoreOK, media' = media
  PROVE  StoreKept
<1>1. SameLinks(media')
  BY DEF SameLinks, StoreOK
<1>2. RecsKept
  BY DEF RecsKept, Recs, RecordAt
<1> QED
  BY <1>1, <1>2, StoreKeptLemma

LEMMA KeptLemma ==
  ASSUME StoreKept
  PROVE  /\ StoreOK' /\ Recs' = Recs /\ \A p \in Recs : RecordAt(p)' = RecordAt(p)
         /\ \A x : Used(x)' <=> Used(x)
         /\ \A x : NoLinkTo(x)' <=> NoLinkTo(x)
         /\ \A x : NoRecordOf(x)' <=> NoRecordOf(x)
BY DEF StoreKept, RecsKept, NoRecordOf

\* Nothing is being deleted: every record leads to a sector of a file.
LEMMA NotDeleting ==
  ASSUME pc \notin {"clean", "erase"} \/ loc.op # "delete"
  PROVE  \A p : ~Deleting(p)
BY DEF Deleting

LEMMA RecordsStayUsed ==
  ASSUME StoreKept, RecordsUsed, pc \notin {"clean", "erase"} \/ loc.op # "delete"
  PROVE  RecordsUsed'
<1>1. ASSUME NEW p \in Recs' PROVE Used(RecordAt(p).fptr)'
  <2>1. p \in Recs /\ RecordAt(p)' = RecordAt(p) /\ \A x : Used(x)' <=> Used(x)
    BY KeptLemma
  <2>2. Used(RecordAt(p).fptr)
    BY <2>1, NotDeleting DEF RecordsUsed
  <2> QED
    BY <2>1, <2>2
<1> QED
  BY <1>1 DEF RecordsUsed

LEMMA InitIInv == Init => IInv
<1> SUFFICES ASSUME Init PROVE IInv
  OBVIOUS
<1>1. media \in [Sectors -> SectorSet]
  BY EmptyTypes, EmptyDataTypes, Volume DEF Init
<1>2. \A s \in Sectors : media[s].link = 0 /\ (media[s].index <=> s = 0)
  BY EmptyTypes, EmptyDataTypes, Volume DEF Init
<1>3. \A s \in Sectors : Count(media[s]) = IF s = 0 THEN EmptyByte ELSE 0
  BY EmptyTypes, EmptyDataTypes, Volume DEF Init
<1>4. MarksOK
  BY <1>2, <1>3, Volume DEF MarksOK
<1>5. LinksOK
  BY <1>2, Volume DEF LinksOK
<1>6. Recs = {}
  BY <1>2, EmptyTypes, Volume DEF Recs, RecordAt, Init
<1>7. RecordsOK /\ RecordsUsed
  BY <1>6 DEF RecordsOK, RecordsUsed
<1>8. pc = "idle" /\ file = NoFile /\ loc.op = "none" /\ loc \in CallSet /\ todo \in Seq(Bytes)
  BY NoCallTypes DEF Init
<1>9. OpsOK
  BY <1>8, CallsLemma DEF OpsOK
<1>10. CallOK /\ FileOK
  BY <1>8 DEF CallOK, FileOK
<1> QED
  BY <1>1, <1>4, <1>5, <1>7, <1>8, <1>9, <1>10 DEF IInv, StoreOK

LEMMA OpenStep ==
  ASSUME IInv, NEW n \in Names, NEW mode \in Modes, Open(n, mode)
  PROVE  IInv'
<1>1. /\ pc = "idle" /\ file = NoFile /\ file' = NoFile /\ pc' = "find" /\ media' = media
      /\ todo' = todo /\ loc' = [NoCall EXCEPT !.op = mode, !.names = {n}, !.slot = 1]
  BY DEF Open
<1>2. StoreKept /\ RecordsUsed /\ StoreOK'
  BY <1>1, StillMedia, KeptLemma DEF IInv
<1>3. RecordsUsed'
  BY <1>1, <1>2, RecordsStayUsed
<1>4. loc' \in CallSet /\ loc'.op = mode /\ loc'.names = {n} /\ loc'.slot = 1
  <2>1. mode \in {"read"} \union WritingModes /\ 1 \in 0..RecordCount /\ NoCall \in CallSet
    BY CallsLemma, NoCallTypes, Sizes
  <2> QED
    BY <1>1, <2>1 DEF CallSet
<1>5. OpsOK'
  BY <1>1, <1>4, CallsLemma DEF OpsOK
<1>6. CallOK' /\ FileOK'
  BY <1>1, <1>4 DEF CallOK, FileOK
<1> QED
  BY <1>1, <1>2, <1>3, <1>4, <1>5, <1>6 DEF IInv

LEMMA DeleteStep ==
  ASSUME IInv, ~PowerCuts, ~IoErrors, NEW names \in Deletes, Delete(names)
  PROVE  IInv'
<1>1. /\ pc = "idle" /\ file = NoFile /\ file' = NoFile /\ pc' = "find" /\ media' = media
      /\ todo' = todo /\ loc' = [NoCall EXCEPT !.op = "delete", !.names = names, !.slot = 1]
  BY DEF Delete
<1>2. StoreKept /\ RecordsUsed /\ StoreOK'
  BY <1>1, StillMedia, KeptLemma DEF IInv
<1>3. RecordsUsed'
  BY <1>1, <1>2, RecordsStayUsed
<1>4. loc' \in CallSet /\ loc'.op = "delete" /\ loc'.slot = 1
  <2>1. names \in SUBSET Names /\ 1 \in 0..RecordCount /\ NoCall \in CallSet
    BY CallsLemma, NoCallTypes, Sizes
  <2> QED
    BY <1>1, <2>1 DEF CallSet
<1>5. OpsOK'
  BY <1>1, <1>4, CallsLemma DEF OpsOK
<1>6. CallOK' /\ FileOK'
  BY <1>1, <1>4 DEF CallOK, FileOK
<1> QED
  BY <1>1, <1>2, <1>3, <1>4, <1>5, <1>6 DEF IInv

\* A call that ends leaves nothing to say of its local variables.
FileKept ==
  /\ file' = file /\ FileOK /\ Used(file.sect)'
  /\ file.mode = "read" => media'[file.sect] = media[file.sect]

LEMMA IdleCall ==
  ASSUME pc' = "idle", loc' = NoCall
  PROVE  loc' \in CallSet /\ OpsOK' /\ CallOK'
<1>1. loc' \in CallSet /\ loc'.op = "none"
  BY NoCallTypes
<1>2. OpsOK'
  BY <1>1, CallsLemma DEF OpsOK
<1>3. CallOK'
  BY DEF CallOK
<1> QED
  BY <1>1, <1>2, <1>3

LEMMA IdleLemma ==
  ASSUME StoreOK', RecordsUsed', pc' = "idle", loc' = NoCall, todo' \in Seq(Bytes),
         file' = NoFile \/ FileKept
  PROVE  IInv'
<1>1. loc' \in CallSet /\ OpsOK' /\ CallOK'
  BY IdleCall
<1>4. FileOK'
  <2>1. CASE file' = NoFile
    BY <2>1 DEF FileOK
  <2>2. CASE file' # NoFile
    BY <2>2 DEF FileOK, FileKept
  <2> QED
    BY <2>1, <2>2
<1> QED
  BY <1>1, <1>4 DEF IInv

\* Where a call goes on once it has its record.
LEMMA FoundLemma ==
  ASSUME StoreOK', \A p \in Recs' : Used(RecordAt(p).fptr)', pc' = AfterFound,
         loc' \in CallSet, loc'.op = loc.op, todo' \in Seq(Bytes), file' = NoFile,
         <<loc'.at, loc'.slot>> \in Recs',
         RecordAt(<<loc.at, loc.slot>>)'.fptr = loc'.head, loc'.ptr = loc'.head,
         loc.op \in {"delete", "read"} \union WritingModes,
         loc.op # "delete" => \E n \in Names : loc'.names = {n},
         loc.op = "delete" => ~PowerCuts /\ ~IoErrors
  PROVE  IInv'
<1>1. Used(loc.head)'
  OBVIOUS
<1>2. RecordsUsed'
  BY DEF RecordsUsed
<1>3. /\ NoLinkTo(loc.head)'
      /\ \A p \in Recs' : RecordAt(p)'.fptr = loc'.head => p = <<loc'.at, loc'.slot>>
  BY DEF StoreOK, RecordsOK
<1>4. FileOK'
  BY DEF FileOK
<1>5. CASE loc.op = "delete"
  <2>1. pc' = "clean"
    BY <1>5 DEF AfterFound
  <2>2. OpsOK'
    BY <1>5, <2>1, CallsLemma DEF OpsOK
  <2>3. CallOK'
    BY <1>1, <1>3, <1>5, <2>1 DEF CallOK, Deleting
  <2> QED
    BY <1>2, <1>4, <2>2, <2>3 DEF IInv
<1>6. CASE loc.op = "read"
  <2>1. pc' = "load"
    BY <1>6 DEF AfterFound
  <2>2. OpsOK'
    BY <1>6, <2>1, CallsLemma DEF OpsOK
  <2>3. CallOK'
    BY <1>1, <1>3, <1>6, <2>1, CallsLemma DEF CallOK
  <2> QED
    BY <1>2, <1>4, <2>2, <2>3 DEF IInv
<1>7. CASE loc.op = "append"
  <2>1. pc' = "eof"
    BY <1>7 DEF AfterFound
  <2>2. OpsOK'
    BY <1>7, <2>1, CallsLemma DEF OpsOK
  <2>3. CallOK'
    BY <1>1, <1>3, <1>7, <2>1, CallsLemma DEF CallOK
  <2> QED
    BY <1>2, <1>4, <2>2, <2>3 DEF IInv
<1>8. CASE loc.op \in {"write", "create"}
  <2>1. pc' = "truncate"
    BY <1>8 DEF AfterFound
  <2>2. OpsOK'
    BY <1>8, <2>1, CallsLemma DEF OpsOK
  <2>3. CallOK'
    BY <1>1, <1>3, <1>8, <2>1, CallsLemma DEF CallOK
  <2> QED
    BY <1>2, <1>4, <2>2, <2>3 DEF IInv
<1> QED
  BY <1>5, <1>6, <1>7, <1>8, CallsLemma

LEMMA FindStep ==
  ASSUME IInv, Find
  PROVE  IInv'
<1> DEFINE b == media[loc.at]
           matching == {i \in Slots : i >= loc.slot /\ b.recs[i] # Erased
                                        /\ b.recs[i].name \in loc.names}
<1>1. pc = "find" /\ media' = media /\ todo' = todo /\ file' = file
  BY DEF Find
<1>2. /\ file = NoFile /\ loc \in CallSet /\ loc.at \in Sectors /\ todo \in Seq(Bytes)
      /\ loc.op \in {"delete", "read"} \union WritingModes
      /\ loc.op \in {"read"} \union WritingModes => \E n \in Names : loc.names = {n}
      /\ loc.op = "delete" => ~PowerCuts /\ ~IoErrors
      /\ loc.at = 0 => loc.slot > 0
  BY <1>1 DEF IInv, OpsOK, CallOK, CallSet
<1>3. StoreKept /\ RecordsUsed' /\ StoreOK'
  BY <1>1, StillMedia, KeptLemma, RecordsStayUsed DEF IInv
<1>4. \A p \in Recs' : Used(RecordAt(p).fptr)'
  <2>1. \A p \in Recs : Used(RecordAt(p).fptr)
    BY <1>1, NotDeleting DEF IInv, RecordsUsed
  <2>2. \A p \in Recs' : p \in Recs /\ RecordAt(p)' = RecordAt(p) /\ \A x : Used(x)' <=> Used(x)
    BY <1>3, KeptLemma
  <2> QED
    BY <2>1, <2>2
<1>5. CASE /\ IsIndex(loc.at) /\ matching # {} /\ pc' = AfterFound
           /\ LET i == Min(matching)
              IN  loc' = [loc EXCEPT !.slot = i, !.head = b.recs[i].fptr,
                                     !.ptr = b.recs[i].fptr]
  <2>1. Min(matching) \in matching
    <3>1. matching \in SUBSET Nat
      <4>1. Slots \subseteq Nat /\ matching \subseteq Slots
        BY Volume, Sizes
      <4> QED
        BY <4>1
    <3> HIDE DEF matching
    <3> QED
      BY <1>5, <3>1, LeastLemma
  <2> DEFINE i == Min(matching)
  <2>2. i \in Slots /\ i >= loc.slot /\ b.recs[i] # Erased
    BY <2>1
  <2>3. loc' = [loc EXCEPT !.slot = i, !.head = b.recs[i].fptr, !.ptr = b.recs[i].fptr]
    BY <1>5
  <2> HIDE DEF matching, i
  <2>4. i \in SlotsOf(loc.at)
    BY <1>2, <2>2, Sizes DEF SlotsOf, Slots, CallSet
  <2>5. <<loc.at, i>> \in Recs
    BY <1>2, <1>5, <2>2, <2>4 DEF Recs, RecordAt, IsIndex
  <2>6. RecordAt(<<loc.at, i>>) = b.recs[i] /\ b.recs[i].fptr \in Sectors
    <3>1. RecordAt(<<loc.at, i>>) = b.recs[i]
      BY DEF RecordAt
    <3> QED
      BY <2>5, <3>1, Volume DEF IInv, StoreOK, RecordsOK
  <2>7. /\ loc' \in CallSet /\ loc'.op = loc.op /\ loc'.names = loc.names
        /\ loc'.at = loc.at /\ loc'.slot = i
        /\ loc'.head = b.recs[i].fptr /\ loc'.ptr = loc'.head
    <3>1. i \in 0..RecordCount
      BY <2>2, Volume
    <3> HIDE DEF b
    <3> QED
      BY <1>2, <2>3, <2>6, <3>1 DEF CallSet
  <2>8. <<loc'.at, loc'.slot>> \in Recs' /\ RecordAt(<<loc.at, loc.slot>>)' = b.recs[i]
    BY <1>3, <2>5, <2>6, <2>7, KeptLemma
  <2> QED
    BY <1>1, <1>2, <1>3, <1>4, <1>5, <2>7, <2>8, FoundLemma
<1>6. CASE /\ IsIndex(loc.at) /\ matching = {} /\ NextIndex(b) # 0
           /\ loc' = [loc EXCEPT !.at = NextIndex(b), !.slot = 0] /\ UNCHANGED pc
  <2>1. b.next \in Sectors /\ b.next # 0 /\ NextIndex(b) = b.next
    BY <1>2, <1>6, SectorFields DEF NextIndex, IInv, StoreOK
  <2>2. loc' \in CallSet /\ loc'.op = loc.op /\ loc'.names = loc.names /\ loc'.at = b.next
    <3>1. loc' = [loc EXCEPT !.at = b.next, !.slot = 0] /\ 0 \in 0..RecordCount
      BY <1>6, <2>1, Sizes
    <3> HIDE DEF b
    <3> QED
      BY <1>2, <2>1, <3>1 DEF CallSet
  <2>3. OpsOK'
    BY <1>1, <1>2, <1>6, <2>2, CallsLemma DEF OpsOK
  <2>4. CallOK' /\ FileOK'
    BY <1>1, <1>2, <1>6, <2>1, <2>2 DEF CallOK, FileOK
  <2> QED
    BY <1>1, <1>2, <1>3, <2>2, <2>3, <2>4 DEF IInv
<1>7. CASE NotFound
  <2>1. CASE loc.op \in CreatingModes
    <3>1. pc' = "add" /\ loc' = [loc EXCEPT !.at = 0]
      BY <1>7, <2>1 DEF NotFound
    <3>2. loc' \in CallSet /\ loc'.op = loc.op /\ loc'.names = loc.names
      BY <1>2, <3>1, Volume DEF CallSet
    <3>3. OpsOK'
      BY <1>1, <1>2, <2>1, <3>1, <3>2, CallsLemma DEF OpsOK
    <3>4. CallOK' /\ FileOK'
      BY <1>1, <1>2, <3>1 DEF CallOK, FileOK
    <3> QED
      BY <1>1, <1>2, <1>3, <3>2, <3>3, <3>4 DEF IInv
  <2>2. CASE loc.op \notin CreatingModes
    BY <1>1, <1>2, <1>3, <1>7, <2>2, IdleLemma DEF NotFound, Finish
  <2> QED
    BY <2>1, <2>2
<1> QED
  BY <1>5, <1>6, <1>7 DEF Find

\* A free sector is linked to by nobody, and the claim of it changes nothing else.
LEMMA FreeLemma ==
  ASSUME StoreOK, RecordsUsed, \A p : ~Deleting(p), NEW s \in DataSectors, Free(s)
  PROVE  ~Used(s) /\ ~media[s].index /\ Unreferenced(s)
<1>1. media[s].link = 0 /\ Count(media[s]) = 0
  BY DEF Free
<1>2. ~media[s].index
  BY <1>1, Sizes, Volume DEF StoreOK, MarksOK
<1>3. NoLinkTo(s)
  BY <1>1, Volume DEF NoLinkTo, StoreOK, LinksOK, Used
<1>4. NoRecordOf(s)
  BY <1>1 DEF NoRecordOf, RecordsUsed, Used
<1> QED
  BY <1>1, <1>2, <1>3, <1>4 DEF Used, Unreferenced

FreshlyClaimed(s) ==
  /\ StoreOK' /\ RecsKept
  /\ \A x : Used(x)' <=> Used(x) \/ x = s
  /\ \A x \in DataSectors : NoLinkTo(x)' <=> NoLinkTo(x)
  /\ media'[s].link = s /\ Unreferenced(s)'
  /\ \A x \in Sectors \ {s} : media'[x] = media[x]

LEMMA ClaimMedia ==
  ASSUME StoreOK, RecordsUsed, \A p : ~Deleting(p), NEW s \in DataSectors, Free(s),
         media' = Claimed(s)
  PROVE  FreshlyClaimed(s)
<1>1. ~Used(s) /\ ~media[s].index /\ Unreferenced(s) /\ s \in Sectors /\ s # 0
      /\ media[s].link = 0
  BY FreeLemma, Volume DEF Free
<1>2. LinkSet(media', s, s, 0)
  BY <1>1, SetNextLemma, Sizes DEF Claimed, StoreOK
<1>3. StoreOK' /\ RecsKept
  BY <1>1, <1>2, LinkMedia, Sizes
<1>4. media'[s].link = s /\ \A x \in Sectors \ {s} : media'[x] = media[x]
  BY <1>2 DEF LinkSet
<1>5. \A x : Used(x)' <=> Used(x) \/ x = s
  BY <1>1, <1>4, Volume DEF Used
<1>6. \A x \in DataSectors : NoLinkTo(x)' <=> NoLinkTo(x)
  BY <1>1, <1>4, Volume DEF NoLinkTo
<1>7. Unreferenced(s)'
  BY <1>1, <1>3, <1>6 DEF Unreferenced, RecsKept, NoRecordOf
<1> QED
  BY <1>3, <1>4, <1>5, <1>6, <1>7 DEF FreshlyClaimed

LEMMA ClaimedRecordsUsed ==
  ASSUME NEW s, FreshlyClaimed(s), RecordsUsed, \A p : ~Deleting(p)
  PROVE  RecordsUsed' /\ \A p \in Recs' : Used(RecordAt(p).fptr)'
<1>1. ASSUME NEW p \in Recs' PROVE Used(RecordAt(p).fptr)'
  <2>1. p \in Recs /\ RecordAt(p)' = RecordAt(p) /\ \A x : Used(x)' <=> Used(x) \/ x = s
    BY DEF FreshlyClaimed, RecsKept
  <2>2. Used(RecordAt(p).fptr)
    BY <2>1 DEF RecordsUsed
  <2> QED
    BY <2>1, <2>2
<1> QED
  BY <1>1 DEF RecordsUsed

LEMMA FreeDataLemma ==
  ASSUME FreeData # {}
  PROVE  Min(FreeData) \in DataSectors /\ Free(Min(FreeData))
<1>1. FreeData \in SUBSET Nat
  <2>1. DataSectors \subseteq Nat /\ FreeData \subseteq DataSectors
    BY Volume DEF FreeData
  <2> QED
    BY <2>1
<1>2. Min(FreeData) \in FreeData
  BY <1>1, LeastLemma
<1> QED
  BY <1>2 DEF FreeData

LEMMA AddStep ==
  ASSUME IInv, Add
  PROVE  IInv'
<1> DEFINE b == media[loc.at]
           erased == {i \in SlotsOf(loc.at) : b.recs[i] = Erased}
<1>1. pc = "add" /\ todo' = todo /\ file' = file
  BY DEF Add
<1>2. /\ file = NoFile /\ loc \in CallSet /\ loc.at \in Sectors /\ todo \in Seq(Bytes)
      /\ loc.op \in CreatingModes /\ \E n \in Names : loc.names = {n}
      /\ StoreOK /\ RecordsUsed /\ \A p : ~Deleting(p)
  BY <1>1, NotDeleting, CallsLemma DEF IInv, OpsOK, CallSet
<1>3. ASSUME media' = media
      PROVE  StoreKept /\ RecordsUsed' /\ StoreOK'
  BY <1>1, <1>2, <1>3, StillMedia, KeptLemma, RecordsStayUsed
<1>4. ASSUME Finish, StoreOK', RecordsUsed'
      PROVE  IInv'
  BY <1>1, <1>2, <1>4, IdleLemma DEF Finish
<1>5. CASE /\ IsIndex(loc.at) /\ erased # {} /\ FreeData # {}
           /\ LET s == Min(FreeData)
              IN  Write(Claimed(s),
                        /\ pc' = "record"
                        /\ loc' = [loc EXCEPT !.slot = Min(erased), !.sect = s],
                        Finish)
  <2>1. PICK s \in DataSectors : s = Min(FreeData) /\ Free(s)
    BY <1>5, FreeDataLemma
  <2>2. PICK i \in SlotsOf(loc.at) : i = Min(erased) /\ i \in erased
    <3>1. erased \in SUBSET Nat
      <4>1. SlotsOf(loc.at) \subseteq Nat
        BY Sizes DEF SlotsOf, Slots
      <4> QED
        BY <4>1
    <3>2. Min(erased) \in erased
      <4> HIDE DEF erased
      <4> QED
        BY <1>5, <3>1, LeastLemma
    <3> QED
      BY <3>2
  <2>3. RecordAt(<<loc.at, i>>) = Erased
    BY <2>2 DEF RecordAt
  <2>4. \/ media' = Claimed(s) /\ pc' = "record" /\ loc' = [loc EXCEPT !.slot = i, !.sect = s]
        \/ media' \in {media, Claimed(s)} /\ Finish
    BY <1>5, <2>1, <2>2 DEF Write
  <2> HIDE DEF erased
  <2>5. ASSUME media' = Claimed(s)
        PROVE  FreshlyClaimed(s) /\ RecordsUsed' /\ StoreOK'
    <3>1. FreshlyClaimed(s)
      BY <1>2, <2>1, <2>5, ClaimMedia
    <3>2. StoreOK'
      BY <3>1 DEF FreshlyClaimed
    <3>3. RecordsUsed'
      BY <1>2, <3>1, ClaimedRecordsUsed, Zenon
    <3> QED
      BY <3>1, <3>2, <3>3
  <2>6. CASE media' \in {media, Claimed(s)} /\ Finish
    BY <1>3, <1>4, <2>5, <2>6
  <2>7. CASE media' = Claimed(s) /\ pc' = "record" /\ loc' = [loc EXCEPT !.slot = i, !.sect = s]
    <3>1. /\ loc' \in CallSet /\ loc'.op = loc.op /\ loc'.names = loc.names /\ loc'.at = loc.at
          /\ loc'.slot = i /\ loc'.sect = s
      <4>1. s \in Sectors /\ i \in 0..RecordCount
        BY <2>1, <2>2, Volume
      <4> QED
        BY <1>2, <2>7, <4>1 DEF CallSet
    <3>2. OpsOK'
      BY <1>1, <1>2, <2>7, <3>1, CallsLemma DEF OpsOK
    <3>3. loc.at # s /\ media'[loc.at] = media[loc.at]
      <4>1. ~media[s].index
        BY <1>2, <2>1, FreeLemma
      <4> QED
        BY <1>2, <1>5, <2>5, <2>7, <4>1 DEF IsIndex, FreshlyClaimed
    <3>4. IsIndex(loc.at)' /\ RecordAt(<<loc.at, loc.slot>>)' = Erased
      BY <1>5, <2>3, <3>1, <3>3 DEF IsIndex, RecordAt
    <3>5. media'[loc'.sect].link = loc'.sect /\ Used(loc.sect)' /\ Unreferenced(loc.sect)'
      <4>1. media'[s].link = s /\ Used(s)' /\ Unreferenced(s)'
        BY <2>5, <2>7 DEF FreshlyClaimed
      <4> QED
        BY <3>1, <4>1
    <3>6. CallOK'
      BY <2>2, <2>7, <3>1, <3>4, <3>5 DEF CallOK
    <3>7. FileOK'
      BY <1>1, <1>2 DEF FileOK
    <3> QED
      BY <1>1, <1>2, <2>5, <2>7, <3>1, <3>2, <3>6, <3>7 DEF IInv
  <2> QED
    BY <2>4, <2>6, <2>7
<1>6. CASE /\ IsIndex(loc.at) /\ erased = {} /\ b.next # 0
           /\ loc' = [loc EXCEPT !.at = b.next] /\ UNCHANGED <<media, pc>>
  <2>1. b.next \in Sectors
    BY <1>2, SectorFields DEF StoreOK
  <2>2. loc' \in CallSet /\ loc'.op = loc.op /\ loc'.names = loc.names
    <3> HIDE DEF b, erased
    <3> QED
      BY <1>2, <1>6, <2>1 DEF CallSet
  <2>3. OpsOK'
    BY <1>1, <1>2, <1>6, <2>2, CallsLemma DEF OpsOK
  <2>4. CallOK' /\ FileOK'
    BY <1>1, <1>2, <1>6 DEF CallOK, FileOK
  <2> QED
    BY <1>1, <1>2, <1>3, <1>6, <2>2, <2>3, <2>4 DEF IInv
<1>7. CASE /\ IsIndex(loc.at) /\ erased = {} /\ b.next = 0 /\ FreeIndex # {}
           /\ LET s == Min(FreeIndex)
              IN  Write([media EXCEPT ![loc.at].next = s],
                        pc' = "page0" /\ loc' = [loc EXCEPT !.at = s],
                        Finish)
  <2> DEFINE s == Min(FreeIndex)
             m == [media EXCEPT ![loc.at].next = s]
  <2>1. s \in Sectors \ {0} /\ Free(s)
    <3>1. CASE Free(LAST)
      <4>1. FreeIndex = {LAST} /\ LAST \in Sectors /\ LAST # 0 /\ {LAST} \in SUBSET Nat
        BY <3>1, Volume DEF FreeIndex
      <4>2. Min({LAST}) = LAST
        BY <4>1, LeastLemma
      <4> QED
        BY <3>1, <4>1, <4>2
    <3>2. CASE ~Free(LAST)
      <4>1. FreeIndex = FreeData
        BY <3>2 DEF FreeIndex
      <4> QED
        BY <1>7, <4>1, FreeDataLemma, Volume
    <3> QED
      BY <3>1, <3>2
  <2>2. \/ media' = m /\ pc' = "page0" /\ loc' = [loc EXCEPT !.at = s]
        \/ media' \in {media, m} /\ Finish
    BY <1>7 DEF Write
  <2> HIDE DEF s, erased, b
  <2>3. ASSUME media' = m
        PROVE  StoreKept /\ RecordsUsed' /\ StoreOK'
    <3>1. StoreKept
      BY <1>2, <2>1, <2>3, NextMedia
    <3> QED
      BY <1>1, <1>2, <3>1, KeptLemma, RecordsStayUsed
  <2>4. CASE media' \in {media, m} /\ Finish
    BY <1>3, <1>4, <2>3, <2>4
  <2>5. CASE media' = m /\ pc' = "page0" /\ loc' = [loc EXCEPT !.at = s]
    <3>1. loc' \in CallSet /\ loc'.op = loc.op /\ loc'.names = loc.names /\ loc'.at = s
      BY <1>2, <2>1, <2>5 DEF CallSet
    <3>2. OpsOK'
      BY <1>1, <1>2, <2>5, <3>1, CallsLemma DEF OpsOK
    <3>3. Free(loc.at)'
      <4>1. media'[s].link = media[s].link /\ media'[s].data = media[s].data
        BY <1>2, <2>1, <2>5 DEF StoreOK, SectorSet
      <4> QED
        BY <2>1, <3>1, <4>1 DEF Free, Count
    <3>4. CallOK' /\ FileOK'
      BY <1>1, <1>2, <2>1, <2>5, <3>1, <3>3 DEF CallOK, FileOK
    <3> QED
      BY <1>1, <1>2, <2>3, <2>5, <3>1, <3>2, <3>4 DEF IInv
  <2> QED
    BY <2>2, <2>4, <2>5
<1>8. CASE Finish /\ UNCHANGED media
  BY <1>3, <1>4, <1>8
<1> QED
  BY <1>5, <1>6, <1>7, <1>8 DEF Add

LEMMA AddRecordStep ==
  ASSUME IInv, AddRecord
  PROVE  IInv'
<1>1. pc = "record" /\ todo' = todo /\ file' = file
  BY DEF AddRecord
<1>2. /\ file = NoFile /\ loc \in CallSet /\ todo \in Seq(Bytes)
      /\ loc.op \in CreatingModes /\ StoreOK /\ RecordsUsed /\ \A p : ~Deleting(p)
  BY <1>1, NotDeleting, CallsLemma DEF IInv, OpsOK
<1>3. PICK n \in Names : loc.names = {n}
  BY <1>1, <1>2, CallsLemma DEF IInv, OpsOK
<1>4. PICK a \in Sectors, i \in Slots, c \in Sectors :
        /\ a = loc.at /\ i = loc.slot /\ c = loc.sect /\ i \in SlotsOf(a)
  BY <1>1, <1>2, Volume DEF IInv, CallOK, CallSet
<1>5. /\ media[a].index /\ RecordAt(<<a, i>>) = Erased /\ Used(c) /\ Unreferenced(c)
  BY <1>1, <1>4 DEF IInv, CallOK, IsIndex
<1>6. PICK r \in Records : r = [name |-> n, fptr |-> c]
  BY DEF Records
<1> DEFINE m == [media EXCEPT ![a].recs[i] = r]
<1>7. \/ media' = m /\ pc' = AfterFound /\ loc' = [loc EXCEPT !.head = c, !.ptr = c]
      \/ media' \in {media, m} /\ Finish
  <2>1. (CHOOSE x \in loc.names : TRUE) = n
    BY <1>3
  <2> QED
    BY <1>4, <1>6, <2>1 DEF AddRecord, Write
<1>8. ASSUME media' = m
      PROVE  /\ StoreOK' /\ RecordsUsed' /\ \A p \in Recs' : Used(RecordAt(p).fptr)'
             /\ <<a, i>> \in Recs' /\ RecordAt(<<a, i>>)' = r
  <2>1. /\ StoreOK' /\ Recs' = Recs \union {<<a, i>>}
        /\ RecordAt(<<a, i>>)' = r /\ \A p \in Recs : RecordAt(p)' = RecordAt(p)
        /\ SameLinks(media')
    <3>1. r.fptr = c
      BY <1>6
    <3>2. Used(r.fptr) /\ Unreferenced(r.fptr)
      BY <1>5, <3>1
    <3> QED
      BY <1>2, <1>4, <1>5, <1>8, <3>2, AddedRecordMedia
  <2>2. \A x : Used(x)' <=> Used(x)
    BY <1>2, <2>1, SameLinksLemma
  <2>3. ASSUME NEW p \in Recs' PROVE Used(RecordAt(p).fptr)'
    <3>1. CASE p = <<a, i>>
      BY <1>5, <1>6, <2>1, <2>2, <3>1
    <3>2. CASE p # <<a, i>>
      <4>1. p \in Recs /\ RecordAt(p)' = RecordAt(p) /\ Used(RecordAt(p).fptr)
        BY <1>2, <2>1, <3>2 DEF RecordsUsed
      <4> QED
        BY <2>2, <4>1
    <3> QED
      BY <3>1, <3>2
  <2> QED
    BY <2>1, <2>3 DEF RecordsUsed
<1>9. ASSUME media' = media PROVE StoreOK' /\ RecordsUsed'
  BY <1>1, <1>2, <1>9, StillMedia, KeptLemma, RecordsStayUsed
<1>10. CASE media' \in {media, m} /\ Finish
  BY <1>1, <1>2, <1>8, <1>9, <1>10, IdleLemma DEF Finish
<1>11. CASE media' = m /\ pc' = AfterFound /\ loc' = [loc EXCEPT !.head = c, !.ptr = c]
  <2>1. /\ loc' \in CallSet /\ loc'.op = loc.op /\ loc'.names = {n} /\ loc'.at = a
        /\ loc'.slot = i /\ loc'.head = c /\ loc'.ptr = c
    BY <1>2, <1>3, <1>4, <1>11 DEF CallSet
  <2>2. <<loc'.at, loc'.slot>> \in Recs' /\ RecordAt(<<loc.at, loc.slot>>)'.fptr = loc'.head
    BY <1>6, <1>8, <1>11, <2>1
  <2>3. \E x \in Names : loc'.names = {x}
    BY <2>1
  <2>4. loc.op \in {"delete", "read"} \union WritingModes /\ loc.op # "delete" /\ file' = NoFile
        /\ todo' \in Seq(Bytes) /\ loc'.ptr = loc'.head
    BY <1>1, <1>2, <2>1, CallsLemma
  <2> HIDE DEF m
  <2> QED
    BY <1>8, <1>11, <2>1, <2>2, <2>3, <2>4, FoundLemma
<1> QED
  BY <1>7, <1>10, <1>11

\* While the first sector of a file is at hand: its record, which nothing deletes.
LEMMA HeadLemma ==
  ASSUME IInv, pc \in {"truncate", "clean", "erase", "eof", "load"}
  PROVE  /\ file = NoFile /\ loc \in CallSet /\ todo \in Seq(Bytes) /\ StoreOK /\ RecordsUsed
         /\ loc.at \in Sectors /\ loc.slot \in SlotsOf(loc.at) /\ media[loc.at].index
         /\ <<loc.at, loc.slot>> \in Recs /\ RecordAt(<<loc.at, loc.slot>>).fptr = loc.head
         /\ loc.head \in DataSectors /\ NoLinkTo(loc.head) /\ ~media[loc.head].index
         /\ \A p \in Recs : RecordAt(p).fptr = loc.head => p = <<loc.at, loc.slot>>
         /\ loc.op # "delete" => Used(loc.head)
<1>1. /\ file = NoFile /\ loc \in CallSet /\ todo \in Seq(Bytes) /\ StoreOK /\ RecordsUsed
      /\ <<loc.at, loc.slot>> \in Recs /\ RecordAt(<<loc.at, loc.slot>>).fptr = loc.head
  BY DEF IInv, OpsOK, CallOK
<1>2. loc.at \in Sectors /\ loc.slot \in SlotsOf(loc.at) /\ media[loc.at].index
  BY <1>1 DEF Recs
<1>3. /\ loc.head \in DataSectors /\ NoLinkTo(loc.head) /\ ~media[loc.head].index
      /\ \A p \in Recs : RecordAt(p).fptr = loc.head => p = <<loc.at, loc.slot>>
  BY <1>1 DEF StoreOK, RecordsOK
<1>4. loc.op # "delete" => Used(loc.head)
  BY <1>1 DEF RecordsUsed, Deleting
<1> QED
  BY <1>1, <1>2, <1>3, <1>4

LEMMA TruncateStep ==
  ASSUME IInv, Truncate
  PROVE  IInv'
<1>1. pc = "truncate" /\ todo' = todo /\ file' = file
  BY DEF Truncate
<1>2. /\ file = NoFile /\ loc \in CallSet /\ todo \in Seq(Bytes) /\ StoreOK /\ RecordsUsed
      /\ <<loc.at, loc.slot>> \in Recs /\ RecordAt(<<loc.at, loc.slot>>).fptr = loc.head
      /\ loc.op \in {"write", "create"} /\ loc.ptr = loc.head /\ \A p : ~Deleting(p)
      /\ \E n \in Names : loc.names = {n}
  BY <1>1, HeadLemma, NotDeleting, CallsLemma DEF IInv, OpsOK, CallOK
<1>3. PICK s \in DataSectors : /\ s = loc.ptr /\ s = loc.head /\ Used(s) /\ NoLinkTo(s)
                              /\ ~media[s].index
  BY <1>1, <1>2, HeadLemma
<1> DEFINE t == media[s].link
<1>4. s \in Sectors /\ s # 0 /\ t # 0 /\ t \in Sectors
  BY <1>2, <1>3, Volume, SectorFields DEF Used, StoreOK
<1>5. ASSUME media' = Claimed(s)
      PROVE  /\ StoreOK' /\ RecsKept /\ RecordsUsed' /\ \A x : Used(x)' <=> Used(x)
             /\ media'[s].link = s /\ \A x \in Sectors \ {s} : media'[x] = media[x]
  <2>1. LinkSet(media', s, s, 0)
    BY <1>2, <1>3, <1>4, <1>5, SetNextLemma, Sizes DEF Claimed, StoreOK
  <2>2. StoreOK' /\ RecsKept
    BY <1>2, <1>3, <1>4, <2>1, LinkMedia, Sizes
  <2>3. media'[s].link = s /\ \A x \in Sectors \ {s} : media'[x] = media[x]
    BY <2>1 DEF LinkSet
  <2>4. \A x : Used(x)' <=> Used(x)
    BY <1>3, <1>4, <2>3, Volume DEF Used
  <2>5. RecordsUsed'
    BY <1>2, <2>2, <2>4 DEF RecordsUsed, RecsKept
  <2> QED
    BY <2>2, <2>3, <2>4, <2>5
<1>6. ASSUME media' = media PROVE StoreOK' /\ RecordsUsed'
  BY <1>1, <1>2, <1>6, StillMedia, KeptLemma, RecordsStayUsed
<1>7. \/ media' = Claimed(s) /\ EndsChain(s) /\ pc' = "load" /\ loc' = loc
      \/ media' = Claimed(s) /\ ~EndsChain(s) /\ pc' = "clean" /\ loc' = [loc EXCEPT !.ptr = t]
      \/ media' \in {media, Claimed(s)} /\ Finish
  BY <1>3 DEF Truncate, Write, Goto
<1>8. CASE media' \in {media, Claimed(s)} /\ Finish
  BY <1>1, <1>2, <1>5, <1>6, <1>8, IdleLemma DEF Finish
<1>9. CASE media' = Claimed(s) /\ EndsChain(s) /\ pc' = "load" /\ loc' = loc
  <2>1. <<loc'.at, loc'.slot>> \in Recs' /\ RecordAt(<<loc.at, loc.slot>>)'.fptr = loc'.head
    BY <1>2, <1>5, <1>9 DEF RecsKept
  <2>2. Used(loc.ptr)' /\ EndsChain(loc.ptr)'
    BY <1>3, <1>5, <1>9 DEF EndsChain
  <2>3. OpsOK'
    BY <1>1, <1>2, <1>9, CallsLemma DEF OpsOK
  <2>4. CallOK' /\ FileOK'
    BY <1>1, <1>2, <1>9, <2>1, <2>2 DEF CallOK, FileOK
  <2> QED
    BY <1>1, <1>2, <1>5, <1>9, <2>3, <2>4 DEF IInv
<1>10. CASE media' = Claimed(s) /\ ~EndsChain(s) /\ pc' = "clean" /\ loc' = [loc EXCEPT !.ptr = t]
  <2>1. PICK l \in DataSectors : l = t /\ l # s
    BY <1>3, <1>4, <1>10, Volume DEF EndsChain
  <2>2. Used(l)'
    BY <1>2, <1>5, <1>10, <2>1 DEF StoreOK, LinksOK
  <2>3. NoLinkTo(l)'
    BY <1>2, <1>5, <1>10, <2>1, Volume DEF NoLinkTo, StoreOK, LinksOK
  <2>4. \A p \in Recs' : RecordAt(p)'.fptr # l
    BY <1>2, <1>5, <1>10, <2>1 DEF StoreOK, RecordsOK, NoLinkTo, RecsKept
  <2>5. /\ loc' \in CallSet /\ loc'.op = loc.op /\ loc'.names = loc.names /\ loc'.at = loc.at
        /\ loc'.slot = loc.slot /\ loc'.head = s /\ loc'.ptr = l
    BY <1>2, <1>3, <1>4, <1>10, <2>1 DEF CallSet
  <2>6. <<loc'.at, loc'.slot>> \in Recs' /\ RecordAt(<<loc.at, loc.slot>>)'.fptr = loc'.head
    BY <1>2, <1>3, <1>5, <1>10, <2>5 DEF RecsKept
  <2>7. OpsOK'
    BY <1>1, <1>2, <1>10, <2>5, CallsLemma DEF OpsOK
  <2>8. FileOK'
    BY <1>1, <1>2 DEF FileOK
  <2>9. Used(loc.ptr)' /\ NoLinkTo(loc.ptr)' /\ \A p \in Recs' : RecordAt(p)'.fptr # loc'.ptr
    BY <2>2, <2>3, <2>4, <2>5
  <2>10. CallOK'
    BY <1>5, <1>10, <2>5, <2>6, <2>9 DEF CallOK
  <2> QED
    BY <1>1, <1>2, <1>5, <1>10, <2>5, <2>7, <2>8, <2>10 DEF IInv
<1> QED
  BY <1>7, <1>8, <1>9, <1>10

\* Where lf_clean_data is: the sector it frees is linked to by nobody, and only
\* the record that is being deleted leads to it.
CleanAt(s) ==
  /\ s = loc.ptr /\ s \in Sectors \ {0, LAST} /\ Used(s) /\ NoLinkTo(s) /\ ~media[s].index
  /\ \A p \in Recs : RecordAt(p).fptr = s => Deleting(p)
  /\ loc.op # "delete" => s # loc.head /\ media[loc.head].link = loc.head

LEMMA CleanAtLemma ==
  ASSUME IInv, pc = "clean"
  PROVE  \E s \in DataSectors : CleanAt(s)
<1>1. PICK s \in DataSectors : s = loc.ptr /\ Used(s) /\ NoLinkTo(s)
  BY DEF IInv, CallOK, Used
<1>2. ~media[s].index /\ s \in Sectors \ {0, LAST}
  BY <1>1, Volume DEF IInv, StoreOK, MarksOK, Used
<1>3. \A p \in Recs : RecordAt(p).fptr = s => Deleting(p)
  BY <1>1 DEF IInv, CallOK
<1>4. ASSUME loc.op # "delete" PROVE s # loc.head /\ media[loc.head].link = loc.head
  <2>1. <<loc.at, loc.slot>> \in Recs /\ RecordAt(<<loc.at, loc.slot>>).fptr = loc.head
    BY HeadLemma
  <2>2. \A p \in Recs : RecordAt(p).fptr # s
    BY <1>3, <1>4 DEF Deleting
  <2> QED
    BY <1>4, <2>1, <2>2 DEF IInv, CallOK
<1> QED
  BY <1>1, <1>2, <1>3, <1>4 DEF CleanAt

Freed(s) ==
  /\ StoreOK' /\ RecsKept
  /\ \A x : Used(x)' <=> Used(x) /\ x # s
  /\ media'[s].link = 0 /\ \A x \in Sectors \ {s} : media'[x] = media[x]

LEMMA FreedMedia ==
  ASSUME StoreOK, NEW s \in DataSectors, NoLinkTo(s), ~media[s].index,
         media' = SetNext(s, 0, 0)
  PROVE  Freed(s)
<1>1. s \in Sectors /\ s # 0 /\ 0 \in Sectors /\ 0 \notin DataSectors
  BY Volume
<1>2. LinkSet(media', s, 0, 0)
  BY <1>1, SetNextLemma, Sizes DEF StoreOK
<1>3. StoreOK' /\ RecsKept
  BY <1>1, <1>2, LinkMedia
<1>4. media'[s].link = 0 /\ \A x \in Sectors \ {s} : media'[x] = media[x]
  BY <1>2 DEF LinkSet
<1>5. \A x : Used(x)' <=> Used(x) /\ x # s
  BY <1>4, Volume DEF Used
<1> QED
  BY <1>3, <1>4, <1>5 DEF Freed

LEMMA CleanStep ==
  ASSUME IInv, Clean
  PROVE  IInv'
<1>1. pc = "clean" /\ todo' = todo /\ file' = file
  BY DEF Clean
<1>2. /\ file = NoFile /\ loc \in CallSet /\ todo \in Seq(Bytes) /\ StoreOK /\ RecordsUsed
      /\ <<loc.at, loc.slot>> \in Recs /\ RecordAt(<<loc.at, loc.slot>>).fptr = loc.head
      /\ loc.head \in DataSectors /\ loc.op \in {"delete", "write", "create"}
      /\ loc.op # "delete" => Used(loc.head)
      /\ loc.op = "delete" => ~PowerCuts /\ ~IoErrors
      /\ loc.op # "delete" => \E n \in Names : loc.names = {n}
  BY <1>1, HeadLemma, CallsLemma DEF IInv, OpsOK
<1>3. PICK s \in DataSectors : CleanAt(s)
  BY <1>1, CleanAtLemma
<1>10. PICK h \in DataSectors : h = loc.head
  BY <1>2
<1> DEFINE t == media[s].link
           Done == /\ pc' = IF loc.op = "delete" THEN "erase" ELSE "load"
                   /\ loc' = [loc EXCEPT !.ptr = loc.head]
<1>4. s \in Sectors /\ s # 0 /\ t # 0 /\ t \in Sectors
  BY <1>2, <1>3, Volume, SectorFields DEF Used, StoreOK, CleanAt
<1>5. ASSUME media' = SetNext(s, 0, 0) PROVE Freed(s)
  BY <1>2, <1>3, <1>5, FreedMedia DEF CleanAt
<1>6. ASSUME media' = media \/ media' = SetNext(s, 0, 0),
             media' = media => ~(loc.op = "delete")
      PROVE  /\ StoreOK' /\ RecsKept
             /\ \A p \in Recs' : Used(RecordAt(p).fptr)' \/ Deleting(p)
             /\ loc.op # "delete" => Used(h)' /\ media'[h].link = h
  <2>1. CASE media' = media
    <3>1. StoreKept
      BY <1>2, <2>1, StillMedia
    <3>2. \A x : Used(x)' <=> Used(x)
      BY <3>1, KeptLemma
    <3>3. RecsKept /\ StoreOK'
      BY <3>1 DEF StoreKept
    <3>4. \A p \in Recs' : Used(RecordAt(p).fptr)' \/ Deleting(p)
      BY <1>2, <3>2, <3>3 DEF RecordsUsed, RecsKept
    <3>5. loc.op # "delete" => media'[h].link = h
      BY <1>3, <1>10, <2>1 DEF CleanAt
    <3>6. loc.op # "delete" => Used(h)'
      BY <1>2, <1>10, <3>2
    <3> QED
      BY <3>3, <3>4, <3>5, <3>6
  <2>2. CASE media' = SetNext(s, 0, 0)
    <3>1. Freed(s)
      BY <1>5, <2>2
    <3>2. \A p \in Recs' : Used(RecordAt(p).fptr)' \/ Deleting(p)
      BY <1>2, <1>3, <3>1 DEF RecordsUsed, RecsKept, CleanAt, Freed
    <3>3. loc.op # "delete" => Used(h)'
      BY <1>2, <1>3, <1>10, <3>1 DEF CleanAt, Freed
    <3>4. loc.op # "delete" => media'[h].link = h
      BY <1>3, <1>10, <3>1, Volume DEF CleanAt, Freed
    <3> QED
      BY <3>1, <3>2, <3>3, <3>4 DEF Freed
  <2> QED
    BY <1>6, <2>1, <2>2
<1>7. \/ media' \in {media, SetNext(s, 0, 0)} /\ IoErrors /\ Done
      \/ media' = SetNext(s, 0, 0) /\ EndsChain(s) /\ Done
      \/ /\ media' = SetNext(s, 0, 0) /\ ~EndsChain(s)
         /\ loc' = [loc EXCEPT !.ptr = t] /\ pc' = pc
  BY <1>3 DEF Clean, Write, CleanAt
<1>8. CASE /\ Done
           /\ media' = media \/ media' = SetNext(s, 0, 0)
           /\ media' = media => ~(loc.op = "delete")
  <2>1. /\ loc' \in CallSet /\ loc'.op = loc.op /\ loc'.names = loc.names /\ loc'.at = loc.at
        /\ loc'.slot = loc.slot /\ loc'.head = h /\ loc'.ptr = h
    BY <1>2, <1>8, <1>10, Volume DEF CallSet
  <2>2. <<loc'.at, loc'.slot>> \in Recs' /\ RecordAt(<<loc.at, loc.slot>>)'.fptr = loc'.head
    BY <1>2, <1>6, <1>8, <1>10, <2>1 DEF RecsKept
  <2>3. OpsOK'
    BY <1>1, <1>2, <1>8, <2>1, CallsLemma DEF OpsOK
  <2>4. FileOK'
    BY <1>1, <1>2 DEF FileOK
  <2>5. RecordsUsed'
    BY <1>1, <1>6, <1>8, <2>1 DEF RecordsUsed, Deleting
  <2>6. CallOK'
    <3>1. CASE loc.op = "delete"
      BY <1>8, <2>1, <2>2, <3>1 DEF CallOK
    <3>2. CASE loc.op # "delete"
      <4>1. Used(loc.ptr)' /\ EndsChain(loc.ptr)'
        BY <1>6, <1>8, <2>1, <3>2 DEF EndsChain
      <4> QED
        BY <1>8, <2>1, <2>2, <3>2, <4>1 DEF CallOK
    <3> QED
      BY <3>1, <3>2
  <2> QED
    BY <1>1, <1>2, <1>6, <1>8, <2>1, <2>3, <2>4, <2>5, <2>6 DEF IInv
<1>9. CASE /\ media' = SetNext(s, 0, 0) /\ ~EndsChain(s)
           /\ loc' = [loc EXCEPT !.ptr = t] /\ pc' = pc
  <2>1. Freed(s)
    BY <1>5, <1>9
  <2>2. PICK l \in DataSectors : l = t /\ l # s
    BY <1>3, <1>4, <1>9, Volume DEF EndsChain
  <2>3. Used(l)'
    BY <1>2, <2>1, <2>2 DEF StoreOK, LinksOK, Freed
  <2>4. NoLinkTo(l)'
    BY <1>2, <2>1, <2>2, Volume DEF NoLinkTo, StoreOK, LinksOK, Freed
  <2>5. \A p \in Recs' : RecordAt(p)'.fptr # l
    BY <1>2, <2>1, <2>2 DEF StoreOK, RecordsOK, NoLinkTo, RecsKept, Freed
  <2>6. /\ loc' \in CallSet /\ loc'.op = loc.op /\ loc'.names = loc.names /\ loc'.at = loc.at
        /\ loc'.slot = loc.slot /\ loc'.head = h /\ loc'.ptr = l
    BY <1>2, <1>4, <1>9, <1>10, <2>2 DEF CallSet
  <2>7. <<loc'.at, loc'.slot>> \in Recs' /\ RecordAt(<<loc.at, loc.slot>>)'.fptr = loc'.head
    BY <1>2, <1>9, <1>10, <2>1, <2>6 DEF RecsKept, Freed
  <2>8. OpsOK'
    BY <1>1, <1>2, <1>9, <2>6, CallsLemma DEF OpsOK
  <2>9. FileOK'
    BY <1>1, <1>2 DEF FileOK
  <2>10. Used(loc.ptr)' /\ NoLinkTo(loc.ptr)' /\ \A p \in Recs' : RecordAt(p)'.fptr # loc'.ptr
    BY <2>3, <2>4, <2>5, <2>6
  <2>11. loc'.op # "delete" => media'[loc'.head].link = loc'.head
    <3>1. media' = media => ~(loc.op = "delete")
      BY <1>3, <1>4, <2>1, <2>2 DEF Freed
    <3> QED
      BY <1>6, <1>9, <2>6, <3>1
  <2>12. CallOK'
    BY <1>1, <1>9, <2>6, <2>7, <2>10, <2>11 DEF CallOK
  <2>13. RecordsUsed'
    <3>1. media' = media => ~(loc.op = "delete")
      BY <1>3, <1>4, <2>1, <2>2 DEF Freed
    <3> QED
      BY <1>1, <1>6, <1>9, <2>6, <3>1 DEF RecordsUsed, Deleting
  <2> QED
    BY <1>1, <1>2, <2>1, <2>6, <2>8, <2>9, <2>12, <2>13 DEF IInv, Freed
<1>11. media' = media => ~(loc.op = "delete") \/ media' = SetNext(s, 0, 0)
  BY <1>2, <1>7
<1>12. ASSUME media' = SetNext(s, 0, 0) PROVE media' # media
  <2>1. Freed(s)
    BY <1>5, <1>12
  <2> QED
    BY <1>4, <2>1 DEF Freed
<1> QED
  <2>1. media' = media => ~(loc.op = "delete")
    BY <1>11, <1>12
  <2> HIDE DEF Done
  <2> QED
    BY <1>7, <1>8, <1>9, <2>1

LEMMA DelRecordStep ==
  ASSUME IInv, DelRecord
  PROVE  IInv'
<1>1. pc = "erase" /\ todo' = todo /\ file' = file
  BY DEF DelRecord
<1>2. /\ file = NoFile /\ loc \in CallSet /\ todo \in Seq(Bytes) /\ StoreOK /\ RecordsUsed
      /\ loc.op = "delete" /\ ~PowerCuts /\ ~IoErrors
  BY <1>1, HeadLemma DEF IInv, OpsOK
<1>3. PICK a \in Sectors, i \in Slots :
        a = loc.at /\ i = loc.slot /\ i \in SlotsOf(a) /\ media[a].index
  BY <1>1, HeadLemma, Volume
<1>4. /\ pc' = "find" /\ loc' = [loc EXCEPT !.slot = i + 1]
      /\ media' = [media EXCEPT ![a].recs[i] = Erased]
  <2>1. IsIndex(a)
    BY <1>2, <1>3 DEF IsIndex, StoreOK, MarksOK
  <2> QED
    BY <1>2, <1>3, <2>1 DEF DelRecord, Write
<1>5. /\ StoreOK' /\ Recs' = Recs \ {<<a, i>>}
      /\ \A p \in Recs' : RecordAt(p)' = RecordAt(p)
      /\ SameLinks(media')
  BY <1>2, <1>3, <1>4, ErasedRecordMedia
<1>6. RecordsUsed'
  <2>1. \A x : Used(x)' <=> Used(x)
    BY <1>2, <1>5, SameLinksLemma
  <2>2. ASSUME NEW p \in Recs' PROVE Used(RecordAt(p).fptr)'
    <3>1. p \in Recs /\ p # <<a, i>> /\ RecordAt(p)' = RecordAt(p)
      BY <1>5
    <3>2. Used(RecordAt(p).fptr)
      BY <1>2, <1>3, <3>1 DEF RecordsUsed, Deleting
    <3> QED
      BY <2>1, <3>1, <3>2
  <2> QED
    BY <2>2 DEF RecordsUsed
<1>7. /\ loc' \in CallSet /\ loc'.op = loc.op /\ loc'.names = loc.names /\ loc'.at = a
      /\ loc'.slot = i + 1 /\ i + 1 > 0
  <2>1. i + 1 \in 0..RecordCount /\ i + 1 > 0
    BY <1>3, Sizes DEF SlotsOf, Slots
  <2> QED
    BY <1>2, <1>3, <1>4, <2>1 DEF CallSet
<1>8. OpsOK'
  BY <1>1, <1>2, <1>4, <1>7, CallsLemma DEF OpsOK
<1>9. CallOK' /\ FileOK'
  BY <1>1, <1>2, <1>4, <1>7 DEF CallOK, FileOK
<1> QED
  BY <1>1, <1>2, <1>5, <1>6, <1>7, <1>8, <1>9 DEF IInv

LEMMA FindEofStep ==
  ASSUME IInv, FindEof
  PROVE  IInv'
<1>1. pc = "eof" /\ media' = media /\ todo' = todo /\ file' = file
  BY DEF FindEof
<1>2. /\ file = NoFile /\ loc \in CallSet /\ todo \in Seq(Bytes) /\ StoreOK /\ RecordsUsed
      /\ <<loc.at, loc.slot>> \in Recs /\ RecordAt(<<loc.at, loc.slot>>).fptr = loc.head
      /\ loc.op = "append" /\ \E n \in Names : loc.names = {n}
  BY <1>1, HeadLemma, CallsLemma DEF IInv, OpsOK
<1>3. PICK s \in DataSectors : s = loc.ptr /\ Used(s)
  BY <1>1 DEF IInv, CallOK, Used
<1>4. StoreKept /\ RecordsUsed' /\ StoreOK' /\ RecsKept /\ \A x : Used(x)' <=> Used(x)
  BY <1>1, <1>2, StillMedia, KeptLemma, RecordsStayUsed DEF StoreKept
<1>5. FileOK'
  BY <1>1, <1>2 DEF FileOK
<1>6. CASE Finish
  BY <1>1, <1>2, <1>4, <1>6, IdleLemma DEF Finish
<1>7. CASE EndsChain(s) /\ Goto("load")
  <2>1. pc' = "load" /\ loc' = loc
    BY <1>7 DEF Goto
  <2>2. <<loc'.at, loc'.slot>> \in Recs' /\ RecordAt(<<loc.at, loc.slot>>)'.fptr = loc'.head
    BY <1>2, <1>4, <2>1 DEF RecsKept
  <2>3. Used(loc.ptr)' /\ EndsChain(loc.ptr)'
    BY <1>1, <1>3, <1>4, <1>7, <2>1 DEF EndsChain
  <2>4. OpsOK'
    BY <1>1, <1>2, <2>1, CallsLemma DEF OpsOK
  <2>5. CallOK'
    BY <2>1, <2>2, <2>3 DEF CallOK
  <2> QED
    BY <1>1, <1>2, <1>4, <1>5, <2>1, <2>4, <2>5 DEF IInv
<1>8. CASE ~EndsChain(s) /\ loc' = [loc EXCEPT !.ptr = media[s].link] /\ pc' = pc
  <2>1. PICK l \in DataSectors : l = media[s].link
    BY <1>2, <1>3, <1>8, Volume, SectorFields DEF EndsChain, StoreOK, Used
  <2>2. Used(l)'
    BY <1>2, <1>3, <1>4, <2>1 DEF StoreOK, LinksOK
  <2>3. /\ loc' \in CallSet /\ loc'.op = loc.op /\ loc'.names = loc.names /\ loc'.at = loc.at
        /\ loc'.slot = loc.slot /\ loc'.head = loc.head /\ loc'.ptr = l
    <3>1. l \in Sectors
      BY Volume
    <3> QED
      BY <1>2, <1>8, <2>1, <3>1 DEF CallSet
  <2>4. <<loc'.at, loc'.slot>> \in Recs' /\ RecordAt(<<loc.at, loc.slot>>)'.fptr = loc'.head
    BY <1>2, <1>4, <2>3 DEF RecsKept
  <2>5. OpsOK'
    BY <1>1, <1>2, <1>8, <2>3, CallsLemma DEF OpsOK
  <2>6. Used(loc.ptr)'
    BY <2>2, <2>3
  <2>7. CallOK'
    BY <1>1, <1>8, <2>4, <2>6 DEF CallOK
  <2> QED
    BY <1>1, <1>2, <1>4, <1>5, <2>3, <2>5, <2>7 DEF IInv
<1> QED
  BY <1>3, <1>6, <1>7, <1>8 DEF FindEof

LEMMA LoadStep ==
  ASSUME IInv, Load
  PROVE  IInv'
<1>1. pc = "load" /\ media' = media /\ todo' = todo /\ pc' = "idle" /\ loc' = NoCall
  BY DEF Load, Finish
<1>2. /\ file = NoFile /\ loc \in CallSet /\ todo \in Seq(Bytes) /\ StoreOK /\ RecordsUsed
      /\ loc.head \in DataSectors /\ loc.op \in {"read"} \union WritingModes
      /\ \E n \in Names : loc.names = {n}
  BY <1>1, HeadLemma DEF IInv, OpsOK
<1>3. PICK s \in DataSectors : s = loc.ptr /\ Used(s)
  BY <1>1 DEF IInv, CallOK, Used
<1>4. StoreKept /\ RecordsUsed' /\ StoreOK' /\ \A x : Used(x)' <=> Used(x)
  BY <1>1, <1>2, StillMedia, KeptLemma, RecordsStayUsed
<1>5. CASE file' = NoFile
  BY <1>1, <1>2, <1>4, <1>5, IdleLemma
<1>6. CASE file' # NoFile
  <2> DEFINE b == media[s]
             off == IF loc.op # "append" THEN 0
                      ELSE IF b.link = LAST THEN DataSize ELSE Count(b)
  <2>1. PICK n \in Names : loc.names = {n} /\ n = CHOOSE x \in loc.names : TRUE
    BY <1>2
  <2>2. file' = [name |-> n, mode |-> loc.op, head |-> loc.head, sect |-> s, dataSect |-> s,
                 off |-> off, buf |-> b, changed |-> FALSE, intent |-> Content(loc.head),
                 got |-> <<>>, ended |-> FALSE]
    BY <1>2, <1>3, <1>6, <2>1 DEF Load
  <2>3. b \in SectorSet /\ ~b.index /\ b.link # 0
    BY <1>2, <1>3, Volume DEF StoreOK, MarksOK, Used
  <2>4. loc.op \in WritingModes => b.link \in {s, LAST}
    BY <1>1, <1>3 DEF IInv, CallOK, EndsChain
  <2>5. b.link = s => Count(b) \in 0..DataSize-1
    BY <1>2 DEF StoreOK, MarksOK
  <2>6. off \in 0..DataSize
    BY <1>2, <2>4, <2>5, Sizes, CallsLemma
  <2>7. Content(loc.head) \in Seq(Bytes) /\ <<>> \in Seq(Bytes)
    BY <1>2, ContentTypes
  <2>13. b.link = s => off \in 0..DataSize-1
    BY <1>3, <2>5, Sizes, Volume
  <2> HIDE DEF off
  <2>8. file' \in FileSet
    BY <1>2, <1>3, <2>1, <2>2, <2>3, <2>6, <2>7 DEF FileSet
  <2>9. file'.sect = s /\ file'.mode = loc.op /\ file'.buf = b /\ file'.dataSect = s
    BY <2>2
  <2>10. Used(file.sect)'
    BY <1>3, <1>4, <2>9
  <2>11. FileOK'
    <3>1. file'.mode \in {"read"} \union WritingModes /\ ~file'.buf.index
      BY <1>2, <2>3, <2>9
    <3>2. file'.mode \in WritingModes => file'.buf.link \in {file'.sect, LAST}
      BY <2>4, <2>9
    <3>3. file'.buf.link = file'.sect => Count(file'.buf) \in 0..DataSize-1
      BY <2>5, <2>9
    <3>4. file'.buf = media'[file'.sect]
      BY <1>1, <2>9
    <3>5. file'.buf.link = file'.sect => file'.off \in 0..DataSize-1
      BY <2>2, <2>13
    <3> HIDE DEF b
    <3> QED
      BY <1>1, <2>8, <2>10, <3>1, <3>2, <3>3, <3>4, <3>5 DEF FileOK
  <2>12. loc' \in CallSet /\ OpsOK' /\ CallOK'
    BY <1>1, IdleCall
  <2> QED
    BY <1>1, <1>2, <1>4, <2>11, <2>12 DEF IInv
<1> QED
  BY <1>5, <1>6

-----------------------------------------------------------------------------
(* The steps: writing and reading *)

LEMMA PartTypes ==
  ASSUME NEW q \in Seq(Bytes), NEW i \in Nat \ {0}, NEW j \in Nat, j <= Len(q)
  PROVE  SubSeq(q, i, j) \in Seq(Bytes)
<1>1. Len(q) \in Nat
  OBVIOUS
<1>2. ASSUME NEW k \in i..j PROVE q[k] \in Bytes
  <2>1. k \in 1..Len(q)
    BY <1>1
  <2> QED
    BY <2>1, ElementOfSeq
<1> QED
  BY <1>2, SubSeqProperties

\* What is known while a file is open.
LEMMA FileLemma ==
  ASSUME IInv, file # NoFile
  PROVE  /\ loc \in CallSet /\ todo \in Seq(Bytes) /\ StoreOK /\ RecordsUsed
         /\ file \in FileSet /\ file.mode \in {"read"} \union WritingModes
         /\ file.sect \in DataSectors /\ Used(file.sect) /\ ~media[file.sect].index
         /\ file.buf \in SectorSet /\ file.off \in 0..DataSize
         /\ file.intent \in Seq(Bytes) /\ file.got \in Seq(Bytes)
<1>1. loc \in CallSet /\ todo \in Seq(Bytes) /\ StoreOK /\ RecordsUsed
  BY DEF IInv
<1>2. file \in FileSet /\ Used(file.sect)
  BY DEF IInv, FileOK
<1>3. /\ file.mode \in {"read"} \union WritingModes /\ file.sect \in DataSectors
      /\ file.buf \in SectorSet /\ file.off \in 0..DataSize
      /\ file.intent \in Seq(Bytes) /\ file.got \in Seq(Bytes)
  BY <1>2 DEF FileSet
<1>4. ~media[file.sect].index
  BY <1>1, <1>2, Volume DEF StoreOK, MarksOK, Used
<1> QED
  BY <1>1, <1>2, <1>3, <1>4

\* A call on a file that goes on says of its local variables only its operation.
LEMMA GoesOnLemma ==
  ASSUME StoreOK', RecordsUsed', loc' \in CallSet, loc'.op = "none", todo' \in Seq(Bytes),
         file' # NoFile, pc' \in {"idle", "write", "read"}, FileOK'
  PROVE  IInv'
<1>1. OpsOK'
  BY CallsLemma DEF OpsOK
<1>2. CallOK'
  BY DEF CallOK
<1> QED
  BY <1>1, <1>2 DEF IInv

LEMMA FileStays ==
  ASSUME file # NoFile, FileKept, pc' \in {"idle", "write"},
         pc' = "write" => file.mode \in WritingModes
  PROVE  FileOK' /\ file' # NoFile
<1>1. file' = file /\ FileOK /\ Used(file.sect)' /\ pc' # "read" /\ pc' # "chain"
      /\ pc' \notin {"page0", "page1"}
  BY DEF FileKept
<1> QED
  BY <1>1 DEF FileOK, FileKept

LEMMA StillFile ==
  ASSUME IInv, file # NoFile, media' = media,
         pc \notin {"clean", "erase"} \/ loc.op # "delete"
  PROVE  /\ StoreOK' /\ RecordsUsed' /\ \A x : Used(x)' <=> Used(x)
         /\ file' = file => FileKept
<1>1. StoreKept
  BY FileLemma, StillMedia
<1>2. StoreOK' /\ RecordsUsed' /\ \A x : Used(x)' <=> Used(x)
  BY <1>1, KeptLemma, FileLemma, RecordsStayUsed
<1>3. ASSUME file' = file PROVE FileKept
  <2>1. Used(file.sect)' /\ FileOK
    BY <1>2, <1>3, FileLemma DEF IInv
  <2> QED
    BY <1>3, <2>1 DEF FileKept
<1> QED
  BY <1>2, <1>3

LEMMA CallWriteStep ==
  ASSUME IInv, NEW d \in Writes, CallWrite(d)
  PROVE  IInv'
<1>1. /\ pc = "idle" /\ file # NoFile /\ file.mode \in WritingModes /\ pc' = "write"
      /\ todo' = d /\ media' = media /\ loc' = loc /\ file' = file
  BY DEF CallWrite
<1>2. StoreOK' /\ RecordsUsed' /\ FileKept
  BY <1>1, StillFile
<1>3. FileOK' /\ file' # NoFile
  BY <1>1, <1>2, FileStays
<1>4. loc \in CallSet /\ loc.op = "none" /\ d \in Seq(Bytes)
  BY <1>1, CallsLemma DEF IInv, OpsOK
<1> QED
  BY <1>1, <1>2, <1>3, <1>4, GoesOnLemma

LEMMA WriteReturnsStep ==
  ASSUME IInv, WriteReturns
  PROVE  IInv'
<1>1. /\ pc = "write" /\ pc' = "idle" /\ loc' = loc /\ media' = media /\ todo' = todo
      /\ file' = file
  BY DEF WriteReturns, Goto
<1>2. file # NoFile /\ loc \in CallSet /\ loc.op = "none" /\ todo \in Seq(Bytes)
  BY <1>1 DEF IInv, OpsOK
<1>3. StoreOK' /\ RecordsUsed' /\ FileKept
  BY <1>1, <1>2, StillFile
<1>4. FileOK' /\ file' # NoFile
  BY <1>1, <1>2, <1>3, FileStays
<1> QED
  BY <1>1, <1>2, <1>3, <1>4, GoesOnLemma

LEMMA CallReadStep ==
  ASSUME IInv, NEW k \in Reads, CallRead(k)
  PROVE  IInv'
<1>1. /\ pc = "idle" /\ file # NoFile /\ file.mode = "read" /\ pc' = "read"
      /\ loc' = [loc EXCEPT !.want = k] /\ file' = [file EXCEPT !.ended = FALSE]
      /\ media' = media /\ todo' = todo
  BY DEF CallRead
<1>2. StoreOK' /\ RecordsUsed' /\ \A x : Used(x)' <=> Used(x)
  BY <1>1, StillFile
<1>3. loc' \in CallSet /\ loc'.op = "none"
  <2>1. loc \in CallSet /\ loc.op = "none" /\ k \in Nat
    BY <1>1, CallsLemma DEF IInv, OpsOK
  <2> QED
    BY <1>1, <2>1 DEF CallSet
<1>4. /\ file' \in FileSet /\ file'.mode = file.mode /\ file'.sect = file.sect
      /\ file'.dataSect = file.dataSect /\ file'.buf = file.buf
  BY <1>1, FileLemma DEF FileSet
<1>5. FileOK'
  <2>1. file'.mode = "read" /\ "read" \notin WritingModes
    BY <1>1, <1>4, CallsLemma
  <2>2. file'.dataSect = file'.sect => file'.buf = media'[file'.sect]
    BY <1>1, <1>4 DEF IInv, FileOK
  <2>3. Used(file.sect)'
    BY <1>2, <1>4, FileLemma, <1>1
  <2> QED
    BY <1>1, <1>4, <2>1, <2>2, <2>3 DEF FileOK
<1>6. file' # NoFile /\ todo \in Seq(Bytes)
  BY <1>1, <1>4, FileLemma, NullsAssumption
<1> QED
  BY <1>1, <1>2, <1>3, <1>5, <1>6, GoesOnLemma

LEMMA CloseStep ==
  ASSUME IInv, Close
  PROVE  IInv'
<1>1. pc = "idle" /\ file # NoFile /\ media' = media /\ todo' = todo
  BY DEF Close
<1>2. StoreOK' /\ RecordsUsed' /\ (file' = file => FileKept)
  BY <1>1, StillFile
<1>3. loc \in CallSet /\ loc.op = "none" /\ todo \in Seq(Bytes) /\ file.sect \in Sectors
  BY <1>1, FileLemma, Volume DEF IInv, OpsOK
<1>4. CASE /\ file.mode \in WritingModes /\ pc' = "page0" /\ file' = file
           /\ loc' = [NoCall EXCEPT !.op = "close", !.at = file.sect]
  <2>1. loc' \in CallSet /\ loc'.op = "close" /\ loc'.at = file.sect
    BY <1>3, <1>4, NoCallTypes DEF CallSet
  <2>2. OpsOK'
    BY <1>1, <1>4, <2>1, CallsLemma DEF OpsOK
  <2>3. CallOK'
    BY <1>1, <1>4, <2>1 DEF CallOK
  <2>4. FileOK'
    BY <1>1, <1>2, <1>4, <2>1, CallsLemma DEF FileOK, FileKept
  <2> QED
    BY <1>1, <1>2, <1>3, <2>1, <2>2, <2>3, <2>4 DEF IInv
<1>5. CASE file' = NoFile /\ pc' = pc /\ loc' = loc
  <2>1. OpsOK'
    BY <1>1, <1>3, <1>5, CallsLemma DEF OpsOK
  <2>2. CallOK' /\ FileOK'
    BY <1>1, <1>5 DEF CallOK, FileOK
  <2> QED
    BY <1>1, <1>2, <1>3, <1>5, <2>1, <2>2 DEF IInv
<1> QED
  BY <1>4, <1>5 DEF Close

LEMMA ClaimNextStep ==
  ASSUME IInv, ClaimNext
  PROVE  IInv'
<1>1. pc = "write" /\ file' = file /\ file.buf.link = LAST
  BY DEF ClaimNext, Write, GiveUpWriting
<1>2. /\ file # NoFile /\ loc \in CallSet /\ loc.op = "none" /\ todo \in Seq(Bytes)
      /\ file.mode \in WritingModes /\ StoreOK /\ RecordsUsed /\ Used(file.sect)
      /\ file.sect \in DataSectors /\ FileOK /\ \A p : ~Deleting(p)
  BY <1>1, FileLemma, NotDeleting DEF IInv, OpsOK, FileOK
<1>3. ASSUME media' = media
      PROVE  StoreOK' /\ RecordsUsed' /\ FileKept
  BY <1>1, <1>2, <1>3, StillFile
<1>4. ASSUME GiveUpWriting, StoreOK', RecordsUsed', FileKept
      PROVE  IInv'
  <2>1. pc' = "idle" /\ loc' = NoCall /\ todo' = <<>>
    BY <1>4 DEF GiveUpWriting, Finish
  <2> QED
    BY <1>4, <2>1, IdleLemma
<1>5. CASE GiveUpWriting /\ UNCHANGED media
  BY <1>3, <1>4, <1>5
<1>6. CASE /\ FreeData # {}
           /\ LET s == Min(FreeData)
              IN  Write(Claimed(s),
                        /\ pc' = "chain" /\ loc' = [loc EXCEPT !.sect = s]
                        /\ UNCHANGED <<todo, file>>,
                        GiveUpWriting)
  <2>1. PICK s \in DataSectors : s = Min(FreeData) /\ Free(s)
    BY <1>6, FreeDataLemma
  <2>2. \/ media' = Claimed(s) /\ pc' = "chain" /\ loc' = [loc EXCEPT !.sect = s]
           /\ todo' = todo
        \/ media' \in {media, Claimed(s)} /\ GiveUpWriting
    BY <1>6, <2>1 DEF Write
  <2>3. ~Used(s) /\ s # file.sect
    BY <1>2, <2>1, FreeLemma
  <2>4. ASSUME media' = Claimed(s)
        PROVE  FreshlyClaimed(s) /\ RecordsUsed' /\ StoreOK' /\ FileKept
    <3>1. FreshlyClaimed(s)
      BY <1>2, <2>1, <2>4, ClaimMedia
    <3>2. StoreOK' /\ Used(file.sect)'
      BY <1>1, <1>2, <3>1 DEF FreshlyClaimed
    <3>3. RecordsUsed'
      BY <1>2, <3>1, ClaimedRecordsUsed, Zenon
    <3>4. FileKept
      BY <1>1, <1>2, <3>2, CallsLemma DEF FileKept
    <3> QED
      BY <3>1, <3>2, <3>3, <3>4
  <2>5. CASE media' \in {media, Claimed(s)} /\ GiveUpWriting
    BY <1>3, <1>4, <2>4, <2>5
  <2>6. CASE /\ media' = Claimed(s) /\ pc' = "chain" /\ loc' = [loc EXCEPT !.sect = s]
             /\ todo' = todo
    <3>1. loc' \in CallSet /\ loc'.op = "none" /\ loc'.sect = s
      BY <1>2, <2>1, <2>6, Volume DEF CallSet
    <3>2. OpsOK'
      BY <1>1, <1>2, <2>6, <3>1, CallsLemma DEF OpsOK
    <3>3. media'[loc'.sect].link = loc'.sect /\ Used(loc.sect)' /\ Unreferenced(loc.sect)'
      <4>1. media'[s].link = s /\ Used(s)' /\ Unreferenced(s)'
        BY <2>4, <2>6 DEF FreshlyClaimed
      <4> QED
        BY <3>1, <4>1
    <3>4. CallOK'
      BY <1>1, <2>3, <2>6, <3>1, <3>3 DEF CallOK
    <3>5. FileOK'
      BY <1>1, <1>2, <2>4, <2>6, <3>1, CallsLemma DEF FileOK, FileKept
    <3> QED
      BY <1>2, <2>4, <2>6, <3>1, <3>2, <3>4, <3>5 DEF IInv
  <2> QED
    BY <2>2, <2>5, <2>6
<1> QED
  BY <1>5, <1>6 DEF ClaimNext

LEMMA ChainStep ==
  ASSUME IInv, Chain
  PROVE  IInv'
<1>1. pc = "chain"
  BY DEF Chain
<1>2. /\ file # NoFile /\ loc \in CallSet /\ loc.op = "none" /\ todo \in Seq(Bytes)
      /\ file.mode \in WritingModes /\ StoreOK /\ RecordsUsed /\ FileOK /\ \A p : ~Deleting(p)
  BY <1>1, FileLemma, NotDeleting DEF IInv, OpsOK, FileOK
<1>3. PICK s \in DataSectors : s = file.sect /\ Used(s) /\ ~media[s].index
  BY <1>2, FileLemma
<1>4. PICK l \in DataSectors : l = loc.sect /\ l # s /\ Used(l) /\ Unreferenced(l)
  BY <1>1, <1>3 DEF IInv, CallOK, Used
<1>5. \/ /\ media' = Linked(s, l) /\ pc' = "write" /\ loc' = loc /\ todo' = todo
         /\ file' = [file EXCEPT !.buf = EmptyData(l), !.sect = l, !.dataSect = l, !.off = 0]
      \/ media' \in {media, Linked(s, l)} /\ GiveUpWriting
  BY <1>3, <1>4 DEF Chain, Write
<1>6. ASSUME media' = Linked(s, l)
      PROVE  StoreOK' /\ RecordsUsed' /\ Used(l)' /\ Used(s)'
  <2>1. PICK c \in Bytes : c = Count(media[s])
    BY <1>2, <1>3, Volume, SectorFields DEF StoreOK
  <2>2. LinkSet(media', s, l, c)
    BY <1>2, <1>3, <1>4, <1>6, <2>1, SetNextLemma, Volume DEF Linked, StoreOK
  <2>3. StoreOK' /\ RecsKept
    BY <1>2, <1>3, <1>4, <2>2, LinkMedia, Volume DEF Unreferenced
  <2>4. \A x : Used(x)' <=> Used(x)
    BY <1>3, <1>4, <2>2, Volume DEF LinkSet, Used
  <2>5. RecordsUsed'
    BY <1>2, <2>3, <2>4 DEF RecordsUsed, RecsKept
  <2> QED
    BY <1>3, <1>4, <2>3, <2>4, <2>5
<1>7. ASSUME media' = media
      PROVE  StoreOK' /\ RecordsUsed' /\ Used(s)'
  BY <1>1, <1>2, <1>3, <1>7, StillFile
<1>8. CASE media' \in {media, Linked(s, l)} /\ GiveUpWriting
  <2>1. pc' = "idle" /\ loc' = NoCall /\ todo' = <<>> /\ file' = file
    BY <1>8 DEF GiveUpWriting, Finish
  <2>2. StoreOK' /\ RecordsUsed' /\ Used(s)'
    BY <1>6, <1>7, <1>8
  <2>3. FileKept
    BY <1>2, <1>3, <2>1, <2>2, CallsLemma DEF FileKept
  <2> QED
    BY <2>1, <2>2, <2>3, IdleLemma
<1>9. CASE /\ media' = Linked(s, l) /\ pc' = "write" /\ loc' = loc /\ todo' = todo
           /\ file' = [file EXCEPT !.buf = EmptyData(l), !.sect = l, !.dataSect = l, !.off = 0]
  <2>1. /\ EmptyData(l) \in SectorSet /\ EmptyData(l).link = l /\ ~EmptyData(l).index
        /\ Count(EmptyData(l)) = 0 /\ 0 \in 0..DataSize /\ 0 \in 0..DataSize-1
    BY EmptyDataTypes, Volume, Sizes
  <2>2. /\ file' \in FileSet /\ file'.mode = file.mode /\ file'.sect = l /\ file'.off = 0
        /\ file'.buf = EmptyData(l)
    BY <1>2, <1>9, <2>1, FileLemma DEF FileSet
  <2>3. FileOK'
    BY <1>2, <1>6, <1>9, <2>1, <2>2, CallsLemma DEF FileOK
  <2>4. file' # NoFile
    BY <2>2, NullsAssumption
  <2> QED
    BY <1>2, <1>6, <1>9, <2>3, <2>4, GoesOnLemma
<1> QED
  BY <1>5, <1>8, <1>9

\* What Fill makes of the cached sector, and how far it gets.
LEMMA FillLemma ==
  ASSUME IInv, Fill
  PROVE  \E n \in Nat : /\ n = Min({DataSize - file.off, Len(todo)})
                        /\ file.off + n \in 0..DataSize /\ n <= Len(todo)
<1>1. file # NoFile /\ file.off \in 0..DataSize /\ Len(todo) \in Nat
  <2>1. file # NoFile
    BY DEF IInv, OpsOK, Fill, FillMarking
  <2> QED
    BY <2>1, FileLemma
<1> DEFINE W == {DataSize - file.off, Len(todo)}
<1>2. W \in SUBSET Nat /\ W # {}
  BY <1>1, Sizes
<1>3. Min(W) \in W /\ \A x \in W : Min(W) <= x
  <2> HIDE DEF W
  <2> QED
    BY <1>2, LeastLemma
<1>4. Min(W) \in Nat /\ Min(W) <= DataSize - file.off /\ Min(W) <= Len(todo)
  BY <1>1, <1>2, <1>3
<1> HIDE DEF W
<1>5. file.off + Min(W) \in 0..DataSize
  BY <1>1, <1>4, Sizes
<1> QED
  BY <1>4, <1>5 DEF W

LEMMA FillStep ==
  ASSUME IInv, Fill
  PROVE  IInv'
<1>1. pc = "write" /\ media' = media /\ file.buf.link # LAST
  BY DEF Fill, FillMarking
<1>2. /\ file # NoFile /\ loc \in CallSet /\ loc.op = "none" /\ file.mode \in WritingModes
      /\ file.buf.link = file.sect /\ file.off \in 0..DataSize-1 /\ ~file.buf.index
  BY <1>1 DEF IInv, OpsOK, FileOK
<1>3. StoreOK' /\ RecordsUsed' /\ Used(file.sect) /\ \A x : Used(x)' <=> Used(x)
  BY <1>1, <1>2, StillFile, FileLemma
<1>4. PICK n \in Nat : /\ n = Min({DataSize - file.off, Len(todo)})
                       /\ file.off + n \in 0..DataSize /\ n <= Len(todo)
  BY FillLemma
<1> DEFINE filled == file.off + n
           data == [i \in 1..DataSize |->
                      IF i \in file.off+1 .. filled THEN todo[i - file.off]
                      ELSE IF i = DataSize          THEN filled
                      ELSE file.buf.data[i]]
           link == IF filled = DataSize THEN LAST ELSE file.buf.link
           rest == IF filled = DataSize THEN SubSeq(todo, n + 1, Len(todo)) ELSE <<>>
           off == IF filled = DataSize THEN file.off ELSE filled
           added == SubSeq(todo, 1, n)
           changed == TRUE \/ filled = DataSize
<1>5. /\ file' = [file EXCEPT !.buf.data = data, !.buf.link = link, !.off = off,
                              !.changed = changed, !.intent = @ \o added]
      /\ todo' = rest /\ pc' = (IF filled = DataSize THEN "page0" ELSE "idle")
      /\ loc' = [loc EXCEPT !.at = IF filled = DataSize THEN file.sect ELSE 0]
  BY <1>4 DEF Fill, FillMarking
<1>6. data \in [1..DataSize -> Bytes]
  <2>1. ASSUME NEW i \in 1..DataSize, i \in file.off+1 .. filled
        PROVE  todo[i - file.off] \in Bytes
    <3>1. i - file.off \in 1..Len(todo)
      BY <1>2, <1>4, <2>1, FileLemma, Sizes
    <3> QED
      BY <1>2, <3>1, FileLemma
  <2>2. filled \in 0..DataSize-1 \/ DataSize \in file.off+1 .. filled
    BY <1>2, <1>4, Sizes
  <2>3. file.buf.data \in [1..DataSize -> Bytes]
    BY <1>2, FileLemma, SectorFields
  <2> HIDE DEF filled
  <2> QED
    BY <2>1, <2>2, <2>3, Sizes
<1>7. link \in Sectors /\ link \in {file.sect, LAST} /\ LAST # file.sect
  BY <1>2, FileLemma, Volume
<1>8. off \in 0..DataSize-1
  BY <1>2, <1>4, Sizes
<1>9. rest \in Seq(Bytes) /\ added \in Seq(Bytes)
  <2>1. todo \in Seq(Bytes)
    BY <1>2, FileLemma
  <2>2. 1 \in Nat \ {0} /\ n + 1 \in Nat \ {0} /\ Len(todo) \in Nat /\ Len(todo) <= Len(todo)
    BY <2>1
  <2>3. added \in Seq(Bytes)
    BY <1>4, <2>1, <2>2, PartTypes
  <2>4. SubSeq(todo, n + 1, Len(todo)) \in Seq(Bytes)
    BY <2>1, <2>2, PartTypes
  <2> QED
    BY <2>3, <2>4
<1>10. filled # DataSize => data[DataSize] = filled /\ filled \in 0..DataSize-1
  BY <1>2, <1>4, Sizes
<1> DEFINE buf == [file.buf EXCEPT !.data = data, !.link = link]
<1>11. /\ file' = [file EXCEPT !.buf = buf, !.off = off, !.changed = changed,
                               !.intent = @ \o added]
       /\ changed \in BOOLEAN
  <2> HIDE DEF data, link, off, added, changed
  <2>1. file' = [file EXCEPT !.buf = buf, !.off = off, !.changed = changed,
                             !.intent = @ \o added]
    BY <1>2, <1>5, FileLemma DEF FileSet, SectorSet
  <2> QED
    BY <2>1 DEF changed
<1>12. buf \in SectorSet /\ ~buf.index /\ buf.link = link /\ Count(buf) = data[DataSize]
  <2>1. file.buf \in SectorSet
    BY <1>2, FileLemma
  <2> HIDE DEF data, link
  <2> QED
    BY <1>2, <1>6, <1>7, <2>1 DEF SectorSet, Count
<1> HIDE DEF buf, data, off, added, changed
<1>13. /\ file' \in FileSet /\ file'.mode = file.mode /\ file'.sect = file.sect
       /\ file'.buf = buf /\ file'.off = off
  <2>1. file.intent \o added \in Seq(Bytes) /\ off \in 0..DataSize
    BY <1>2, <1>8, <1>9, FileLemma, Sizes
  <2> QED
    BY <1>2, <1>11, <1>12, <2>1, FileLemma DEF FileSet
<1>14. FileOK'
  <2>1. Used(file.sect)'
    BY <1>3, <1>13
  <2>2. buf.link = file.sect => Count(buf) \in 0..DataSize-1
    BY <1>7, <1>10, <1>12
  <2>3. pc' = "page0" => buf.link = LAST
    BY <1>5, <1>12
  <2>4. pc' \in {"page0", "idle"}
    BY <1>5
  <2> HIDE DEF filled, link
  <2> QED
    BY <1>2, <1>7, <1>8, <1>12, <1>13, <2>1, <2>2, <2>3, <2>4, CallsLemma DEF FileOK
<1>15. file' # NoFile
  BY <1>13, NullsAssumption
<1>16. /\ loc' \in CallSet /\ loc'.op = "none"
       /\ filled = DataSize => loc'.at = file'.sect
  <2>1. (IF filled = DataSize THEN file.sect ELSE 0) \in Sectors
    BY <1>2, FileLemma, Volume
  <2> HIDE DEF filled
  <2> QED
    BY <1>2, <1>5, <1>13, <2>1 DEF CallSet
<1>17. CASE filled = DataSize
  <2>1. OpsOK'
    BY <1>5, <1>15, <1>16, <1>17, CallsLemma DEF OpsOK
  <2>2. CallOK'
    BY <1>5, <1>15, <1>16, <1>17 DEF CallOK
  <2> QED
    BY <1>3, <1>5, <1>9, <1>14, <1>16, <2>1, <2>2 DEF IInv
<1>18. CASE filled # DataSize
  <2>1. pc' = "idle" /\ todo' \in Seq(Bytes)
    BY <1>5, <1>9, <1>18
  <2> QED
    BY <1>3, <1>14, <1>15, <1>16, <2>1, GoesOnLemma
<1> QED
  BY <1>17, <1>18

LEMMA PowerCutStep ==
  ASSUME IInv, PowerCut
  PROVE  IInv'
<1>1. /\ PowerCuts /\ pc' = "idle" /\ loc' = NoCall /\ todo' = <<>> /\ file' = NoFile
      /\ media' = media
  BY DEF PowerCut, Finish
<1>2. loc.op # "delete" /\ StoreOK /\ RecordsUsed
  BY <1>1 DEF IInv, OpsOK
<1>3. StoreOK' /\ RecordsUsed'
  BY <1>1, <1>2, StillMedia, KeptLemma, RecordsStayUsed
<1> QED
  BY <1>1, <1>3, IdleLemma

LEMMA ReadStepStep ==
  ASSUME IInv, ReadStep
  PROVE  IInv'
<1>1. pc = "read" /\ media' = media /\ todo' = todo
  BY DEF ReadStep
<1>2. /\ file # NoFile /\ loc \in CallSet /\ loc.op = "none" /\ file.mode = "read"
      /\ todo \in Seq(Bytes) /\ "read" \notin WritingModes
  BY <1>1, CallsLemma DEF IInv, OpsOK, FileOK
<1>3. /\ StoreOK' /\ RecordsUsed' /\ \A x : Used(x)' <=> Used(x)
      /\ file' = file => FileKept
  BY <1>1, <1>2, StillFile
<1>4. PICK s \in DataSectors : s = file.sect /\ Used(s)
  BY <1>2, FileLemma
<1>5. Cached = media[s]
  BY <1>2, <1>4 DEF Cached, IInv, FileOK
<1> DEFINE b == media[s]
           valid == Valid(b)
           n == IF valid > file.off THEN Min({valid - file.off, loc.want}) ELSE 0
           cached == [file EXCEPT !.buf = b, !.dataSect = s]
<1>6. b \in SectorSet /\ b.link \in Sectors /\ b.link # 0 /\ b.data \in [1..DataSize -> Bytes]
  BY <1>2, <1>4, Volume, FileLemma, SectorFields DEF StoreOK, Used
<1>7. valid \in 0..DataSize
  BY <1>2, <1>4, FileLemma, Sizes DEF Valid, StoreOK, MarksOK
<1>8. n \in Nat /\ file.off + n \in 0..DataSize /\ n <= loc.want /\ loc.want \in Nat
  <2>1. loc.want \in Nat /\ file.off \in 0..DataSize
    BY <1>2, FileLemma DEF CallSet
  <2>2. CASE valid > file.off
    <3> DEFINE W == {valid - file.off, loc.want}
    <3>1. W \in SUBSET Nat /\ W # {}
      BY <1>7, <2>1, <2>2, Sizes
    <3>2. Min(W) \in W /\ \A x \in W : Min(W) <= x
      <4> HIDE DEF W
      <4> QED
        BY <3>1, LeastLemma
    <3>3. Min(W) \in Nat /\ Min(W) <= valid - file.off /\ Min(W) <= loc.want
      BY <3>1, <3>2
    <3>4. n = Min(W)
      BY <2>2
    <3> HIDE DEF n, W, valid
    <3> QED
      BY <1>7, <2>1, <2>2, <3>3, <3>4, Sizes
  <2>3. CASE ~(valid > file.off)
    BY <2>1, <2>3, Sizes
  <2> QED
    BY <2>2, <2>3
<1>9. ASSUME NEW f, f \in FileSet, file' = f, f.mode = "read", Used(f.sect),
             f.dataSect = f.sect => f.buf = media[f.sect],
             pc' \in {"idle", "read"}, loc' \in CallSet, loc'.op = "none"
      PROVE  IInv'
  <2>1. FileOK' /\ file' # NoFile
    BY <1>1, <1>2, <1>3, <1>9, NullsAssumption DEF FileOK
  <2> QED
    BY <1>1, <1>2, <1>3, <1>9, <2>1, GoesOnLemma
<1>10. /\ cached \in FileSet /\ cached.mode = "read" /\ cached.sect = s
       /\ cached.buf = media[s] /\ cached.dataSect = s /\ cached.off = file.off
       /\ cached.got = file.got
  <2> HIDE DEF b
  <2> QED
    BY <1>2, <1>4, <1>6, FileLemma DEF FileSet, b
<1> HIDE DEF cached, valid
<1>11. CASE /\ file' = [cached EXCEPT
                 !.off = @ + n,
                 !.got = @ \o SubSeq(b.data, file.off + 1, file.off + n)]
            /\ loc' = [loc EXCEPT !.want = @ - n] /\ UNCHANGED pc
  <2> DEFINE some == SubSeq(b.data, file.off + 1, file.off + n)
  <2>1. some \in Seq(Bytes)
    <3>1. b.data \in Seq(Bytes) /\ Len(b.data) = DataSize
      BY <1>6, Sizes
    <3>2. file.off \in 0..DataSize
      BY <1>2, FileLemma
    <3> HIDE DEF b, n
    <3>3. file.off + 1 \in Nat \ {0} /\ file.off + n \in Nat /\ file.off + n <= DataSize
      BY <1>8, <3>2, Sizes
    <3> QED
      BY <3>1, <3>3, PartTypes
  <2>2. loc' \in CallSet /\ loc'.op = "none"
    <3>1. loc.want - n \in Nat
      BY <1>8
    <3> HIDE DEF n
    <3> QED
      BY <1>2, <1>11, <3>1 DEF CallSet
  <2> DEFINE f == [cached EXCEPT !.off = @ + n, !.got = @ \o some]
  <2>3. /\ f \in FileSet /\ f.mode = "read" /\ f.sect = s /\ f.dataSect = s
        /\ f.buf = media[s]
    <3> HIDE DEF n, some, b
    <3>1. cached.got \o some \in Seq(Bytes)
      BY <1>2, <1>10, <2>1, FileLemma
    <3>2. cached.off + n \in 0..DataSize
      BY <1>8, <1>10
    <3> QED
      BY <1>10, <3>1, <3>2 DEF FileSet
  <2>4. file' = f
    BY <1>11
  <2> HIDE DEF f
  <2> QED
    BY <1>1, <1>4, <1>9, <1>11, <2>2, <2>3, <2>4
<1>12. CASE /\ ~EndReached(b)
            /\ file' = [cached EXCEPT !.sect = b.link, !.off = 0]
            /\ UNCHANGED <<pc, loc>>
  <2>1. PICK t \in DataSectors : t = b.link /\ t # s
    BY <1>4, <1>6, <1>12, Volume DEF EndReached
  <2>2. Used(t)
    BY <1>2, <1>4, <2>1, FileLemma DEF StoreOK, LinksOK
  <2> DEFINE f == [cached EXCEPT !.sect = t, !.off = 0]
  <2>3. f \in FileSet /\ f.mode = "read" /\ f.sect = t /\ f.dataSect = s
    <3>1. 0 \in 0..DataSize
      BY Sizes
    <3> QED
      BY <1>10, <2>1, <3>1 DEF FileSet
  <2>4. file' = f
    BY <1>12, <2>1
  <2> HIDE DEF f
  <2> QED
    BY <1>1, <1>2, <1>9, <1>12, <2>1, <2>2, <2>3, <2>4
<1>13. CASE file' = [cached EXCEPT !.ended = (loc.want > 0)] /\ Finish
  <2>3. PICK e \in BOOLEAN : e = (loc.want > 0)
    <3>1. (loc.want > 0) \in BOOLEAN
      OBVIOUS
    <3> QED
      BY <3>1, Zenon
  <2> DEFINE f == [cached EXCEPT !.ended = e]
  <2>1. /\ f \in FileSet /\ f.mode = "read" /\ f.sect = s /\ f.dataSect = s
        /\ f.buf = media[s]
    BY <1>10 DEF FileSet
  <2>2. file' = f /\ loc' = NoCall /\ pc' = "idle"
    BY <1>13, <2>3 DEF Finish
  <2> HIDE DEF f
  <2> QED
    BY <1>4, <1>9, <2>1, <2>2, NoCallTypes
<1>14. CASE Finish /\ UNCHANGED file
  <2>1. pc' = "idle" /\ loc' = NoCall /\ FileKept
    BY <1>3, <1>14 DEF Finish
  <2> QED
    BY <1>1, <1>2, <1>3, <2>1, IdleLemma
<1> QED
  BY <1>4, <1>5, <1>11, <1>12, <1>13, <1>14 DEF ReadStep, cached, valid

\* The call that writes a sector failed: nothing is said of what it wrote.
LEMMA SectorFailedLemma ==
  ASSUME IInv, pc \in {"page0", "page1"}, SectorFailed, StoreOK', RecordsUsed',
         file' # NoFile => Used(file.sect)'
  PROVE  IInv'
<1>1. pc' = "idle" /\ loc' = NoCall /\ todo' = <<>> /\ file' \in {NoFile, file}
  BY DEF SectorFailed, Finish
<1>2. ASSUME file' # NoFile PROVE FileKept
  <2>1. file' = file /\ file # NoFile /\ FileOK
    BY <1>1, <1>2 DEF IInv
  <2>2. file.mode \in WritingModes
    BY <2>1 DEF FileOK
  <2> QED
    BY <2>1, <2>2, CallsLemma DEF FileKept
<1> QED
  BY <1>1, <1>2, IdleLemma

\* A new index sector, which no one holds in a cache.
LEMMA NewIndexLemma ==
  ASSUME IInv, pc \in {"page0", "page1"}, file = NoFile
  PROVE  /\ loc \in CallSet /\ todo \in Seq(Bytes) /\ StoreOK /\ RecordsUsed
         /\ loc.op \in CreatingModes /\ \A p : ~Deleting(p)
         /\ loc.at \in Sectors \ {0} /\ Free(loc.at) /\ ~media[loc.at].index
         /\ Image = EmptyIndex
<1>1. /\ loc \in CallSet /\ todo \in Seq(Bytes) /\ StoreOK /\ RecordsUsed
      /\ loc.op \in CreatingModes /\ \A p : ~Deleting(p)
  BY NotDeleting DEF IInv, OpsOK
<1>2. loc.at \in Sectors /\ loc.at # 0 /\ Free(loc.at)
  BY <1>1 DEF IInv, CallOK, CallSet
<1>3. ~media[loc.at].index
  BY <1>1, <1>2, Sizes DEF Free, StoreOK, MarksOK
<1> QED
  BY <1>1, <1>2, <1>3 DEF Image

\* The cached sector of the open file.
LEMMA FlushLemma ==
  ASSUME IInv, pc \in {"page0", "page1"}, file # NoFile
  PROVE  /\ loc.at = file.sect /\ loc.op \in {"none", "close"} /\ Image = file.buf
         /\ file.mode \in WritingModes /\ \A p : ~Deleting(p)
         /\ ~file.buf.index /\ file.buf.link \in {file.sect, LAST}
         /\ file.buf.link = file.sect => Count(file.buf) \in 0..DataSize-1
         /\ loc.op = "none" => file.buf.link = LAST
<1>1. loc.at = file.sect /\ loc.op \in {"none", "close"} /\ \A p : ~Deleting(p)
  BY NotDeleting DEF IInv, OpsOK, CallOK
<1>2. /\ file.mode \in WritingModes
      /\ ~file.buf.index /\ file.buf.link \in {file.sect, LAST}
      /\ file.buf.link = file.sect => Count(file.buf) \in 0..DataSize-1
      /\ loc.op = "none" => file.buf.link = LAST
  BY DEF IInv, FileOK
<1> QED
  BY <1>1, <1>2 DEF Image

LEMMA WriteFirstPageStep ==
  ASSUME IInv, WriteFirstPage
  PROVE  IInv'
<1>1. pc = "page0"
  BY DEF WriteFirstPage
<1>2. /\ loc \in CallSet /\ todo \in Seq(Bytes) /\ StoreOK /\ RecordsUsed
      /\ loc.at \in Sectors /\ ~media[loc.at].index /\ Image \in SectorSet
      /\ file # NoFile => Used(file.sect)
  <2>1. CASE file = NoFile
    BY <1>1, <2>1, NewIndexLemma, EmptyTypes
  <2>2. CASE file # NoFile
    BY <1>1, <2>2, FlushLemma, FileLemma, Volume
  <2> QED
    BY <2>1, <2>2
<1>3. PICK s \in Sectors, b \in SectorSet : s = loc.at /\ b = Image
  BY <1>2
<1> DEFINE m == [media EXCEPT ![s] = FirstPage(@, b)]
<1>4. \/ media' = m /\ pc' = "page1" /\ loc' = loc /\ todo' = todo /\ file' = file
      \/ media' \in {media, m} /\ SectorFailed
  BY <1>3 DEF WriteFirstPage, Write, Goto
<1>5. ASSUME media' = m
      PROVE  StoreOK' /\ RecordsUsed' /\ (\A x : Used(x)' <=> Used(x)) /\ SameLinks(media')
  <2>1. StoreKept
    BY <1>2, <1>3, <1>5, FirstPageMedia
  <2>2. SameLinks(media')
    BY <1>2, <1>3, <1>5, FirstPageLemma DEF StoreOK
  <2> QED
    BY <1>1, <1>2, <2>1, <2>2, KeptLemma, RecordsStayUsed
<1>6. ASSUME media' = media
      PROVE  StoreOK' /\ RecordsUsed' /\ \A x : Used(x)' <=> Used(x)
  BY <1>1, <1>2, <1>6, StillMedia, KeptLemma, RecordsStayUsed
<1> HIDE DEF m
<1>7. CASE media' \in {media, m} /\ SectorFailed
  <2>1. StoreOK' /\ RecordsUsed' /\ \A x : Used(x)' <=> Used(x)
    BY <1>5, <1>6, <1>7
  <2>2. file' # NoFile => Used(file.sect)'
    <3>1. SectorFailed => file' \in {NoFile, file}
      BY DEF SectorFailed
    <3> QED
      BY <1>2, <1>7, <2>1, <3>1
  <2> QED
    BY <1>1, <1>7, <2>1, <2>2, SectorFailedLemma
<1>8. CASE media' = m /\ pc' = "page1" /\ loc' = loc /\ todo' = todo /\ file' = file
  <2>1. OpsOK'
    BY <1>1, <1>8, CallsLemma DEF IInv, OpsOK
  <2>2. CallOK'
    <3>1. CASE file = NoFile
      <4>1. Free(loc.at)'
        BY <1>1, <1>5, <1>8, <3>1, NewIndexLemma DEF SameLinks, Free
      <4> QED
        BY <1>1, <1>8, <3>1, <4>1, NewIndexLemma DEF CallOK
    <3>2. CASE file # NoFile
      BY <1>1, <1>8, <3>2, FlushLemma DEF CallOK
    <3> QED
      BY <3>1, <3>2
  <2>3. FileOK'
    <3>1. CASE file = NoFile
      BY <1>8, <3>1 DEF FileOK
    <3>2. CASE file # NoFile
      <4>1. Used(file.sect)' /\ file.mode \in WritingModes /\ FileOK
        BY <1>1, <1>2, <1>5, <1>8, <3>2, FlushLemma DEF IInv
      <4> QED
        BY <1>1, <1>8, <3>2, <4>1, CallsLemma DEF FileOK
    <3> QED
      BY <3>1, <3>2
  <2> QED
    BY <1>2, <1>5, <1>8, <2>1, <2>2, <2>3 DEF IInv
<1> QED
  BY <1>4, <1>7, <1>8

LEMMA WriteSecondPageStep ==
  ASSUME IInv, WriteSecondPage
  PROVE  IInv'
<1>1. pc = "page1"
  BY DEF WriteSecondPage
<1>2. \/ media' = [media EXCEPT ![loc.at] = Image] /\ SectorWritten /\ todo' = todo
      \/ media' \in {media, [media EXCEPT ![loc.at] = Image]} /\ SectorFailed
  BY DEF WriteSecondPage, Write
<1>3. loc \in CallSet /\ todo \in Seq(Bytes) /\ StoreOK /\ RecordsUsed
  BY DEF IInv
<1>4. ASSUME media' = media
      PROVE  StoreOK' /\ RecordsUsed' /\ \A x : Used(x)' <=> Used(x)
  BY <1>1, <1>3, <1>4, StillMedia, KeptLemma, RecordsStayUsed
<1>5. CASE file = NoFile
  <2>1. PICK s \in Sectors \ {0} : s = loc.at /\ Free(s)
    BY <1>1, <1>5, NewIndexLemma
  <2> DEFINE m == [media EXCEPT ![s] = EmptyIndex]
  <2>2. loc.op \in CreatingModes /\ Image = EmptyIndex /\ \A p : ~Deleting(p)
    BY <1>1, <1>5, NewIndexLemma
  <2>3. ASSUME media' = m PROVE StoreOK' /\ RecordsUsed'
    <3>1. StoreOK' /\ RecsKept /\ \A x : Used(x)' <=> Used(x)
      BY <1>3, <2>1, <2>2, <2>3, NewIndexMedia
    <3> QED
      BY <1>3, <2>2, <3>1 DEF RecordsUsed, RecsKept
  <2>4. \/ media' = m /\ SectorWritten /\ todo' = todo
        \/ media' \in {media, m} /\ SectorFailed
    BY <1>2, <2>1, <2>2
  <2> HIDE DEF m
  <2>5. CASE media' \in {media, m} /\ SectorFailed
    <3>1. StoreOK' /\ RecordsUsed' /\ file' = NoFile
      BY <1>4, <1>5, <2>3, <2>5 DEF SectorFailed
    <3> QED
      BY <1>1, <2>5, <3>1, SectorFailedLemma
  <2>6. CASE media' = m /\ SectorWritten /\ todo' = todo
    <3>1. pc' = "add" /\ loc' = loc /\ file' = NoFile
      BY <1>5, <2>2, <2>6, CallsLemma DEF SectorWritten, Goto
    <3>2. OpsOK'
      BY <1>1, <1>5, <2>2, <3>1, CallsLemma DEF IInv, OpsOK
    <3>3. CallOK' /\ FileOK'
      BY <3>1 DEF CallOK, FileOK
    <3> QED
      BY <1>3, <2>3, <2>6, <3>1, <3>2, <3>3 DEF IInv
  <2> QED
    BY <2>4, <2>5, <2>6
<1>6. CASE file # NoFile
  <2>1. PICK s \in DataSectors : s = file.sect /\ s = loc.at /\ Used(s) /\ ~media[s].index
    BY <1>1, <1>6, FlushLemma, FileLemma
  <2>2. PICK b \in SectorSet : b = file.buf /\ b = Image
    BY <1>1, <1>6, FlushLemma, FileLemma
  <2>3. /\ ~b.index /\ b.link \in {s, LAST}
        /\ b.link = s => Count(b) \in 0..DataSize-1
        /\ loc.op \in {"none", "close"}
        /\ loc.op = "none" => b.link = LAST
        /\ file.mode \in WritingModes /\ \A p : ~Deleting(p)
    BY <1>1, <1>6, <2>1, <2>2, FlushLemma
  <2> DEFINE m == [media EXCEPT ![s] = b]
  <2>4. ASSUME media' = m PROVE StoreOK' /\ RecordsUsed' /\ Used(s)'
    <3>1. LinkSet(media', s, b.link, Count(b))
      BY <1>3, <2>1, <2>3, <2>4, Volume DEF LinkSet, StoreOK
    <3>2. b.link \in Sectors /\ b.link # 0 /\ b.link \notin DataSectors \ {s}
      BY <2>1, <2>3, Volume
    <3>3. StoreOK' /\ RecsKept
      BY <1>3, <2>1, <2>3, <3>1, <3>2, LinkMedia
    <3>4. \A x : Used(x)' <=> Used(x)
      BY <2>1, <3>1, <3>2, Volume DEF LinkSet, Used
    <3>5. RecordsUsed'
      BY <1>3, <2>3, <3>3, <3>4 DEF RecordsUsed, RecsKept
    <3> QED
      BY <2>1, <3>3, <3>4, <3>5
  <2>5. \/ media' = m /\ SectorWritten /\ todo' = todo
        \/ media' \in {media, m} /\ SectorFailed
    BY <1>2, <2>1, <2>2
  <2>6. ASSUME media' = media PROVE StoreOK' /\ RecordsUsed' /\ Used(s)'
    BY <1>4, <2>1, <2>6
  <2> HIDE DEF m
  <2>7. CASE media' \in {media, m} /\ SectorFailed
    <3>1. StoreOK' /\ RecordsUsed' /\ Used(s)'
      BY <2>4, <2>6, <2>7
    <3>2. file' # NoFile => Used(file.sect)'
      BY <2>1, <2>7, <3>1 DEF SectorFailed
    <3> QED
      BY <1>1, <2>7, <3>1, <3>2, SectorFailedLemma
  <2>8. CASE media' = m /\ SectorWritten /\ todo' = todo /\ loc.op = "close"
    <3>1. pc' = "idle" /\ loc' = NoCall /\ file' = NoFile
      BY <1>6, <2>8 DEF SectorWritten, Finish
    <3> QED
      BY <1>3, <2>4, <2>8, <3>1, IdleLemma
  <2>9. CASE media' = m /\ SectorWritten /\ todo' = todo /\ loc.op = "none"
    <3>1. /\ pc' = "write" /\ loc' = NoCall
          /\ file' = [file EXCEPT !.changed = FALSE, !.off = DataSize]
      BY <1>6, <2>9 DEF SectorWritten
    <3>2. /\ file' \in FileSet /\ file'.mode = file.mode /\ file'.sect = s /\ file'.buf = b
          /\ file'.dataSect = file.dataSect
      <4>1. DataSize \in 0..DataSize
        BY Sizes
      <4> QED
        BY <1>6, <2>1, <2>2, <3>1, <4>1, FileLemma DEF FileSet
    <3>3. FileOK'
      BY <2>1, <2>3, <2>4, <2>9, <3>1, <3>2, CallsLemma, Volume DEF FileOK
    <3>4. file' # NoFile
      BY <3>2, NullsAssumption
    <3> QED
      BY <1>3, <2>4, <2>9, <3>1, <3>3, <3>4, NoCallTypes, GoesOnLemma
  <2> QED
    BY <2>3, <2>5, <2>7, <2>8, <2>9
<1> QED
  BY <1>5, <1>6

-----------------------------------------------------------------------------
(* The invariant *)

\* lf_format empties a volume that holds files, and lf_delete lets go of a
\* record last: after a power failure or an access that failed it is there
\* still, and leads to free sectors.
SafeCalls == ~Formats /\ (Deletes # {} => ~PowerCuts /\ ~IoErrors)

LEMMA NextInv ==
  ASSUME SafeCalls, IInv, [Next]_vars
  PROVE  IInv'
<1>1. CASE \E n \in Names, mode \in Modes : Open(n, mode)
  BY <1>1, OpenStep
<1>2. CASE \E names \in Deletes : Delete(names)
  BY <1>2, DeleteStep DEF SafeCalls
<1>3. CASE \E d \in Writes : CallWrite(d)
  BY <1>3, CallWriteStep
<1>4. CASE \E k \in Reads : CallRead(k)
  BY <1>4, CallReadStep
<1>5. CASE Close
  BY <1>5, CloseStep
<1>6. CASE Format
  BY <1>6 DEF Format, SafeCalls
<1>7. CASE CallStep
  <2>1. ~Release
    BY DEF Release, IInv, OpsOK
  <2>2. CASE Find \/ Add \/ AddRecord \/ Truncate \/ Clean \/ DelRecord \/ FindEof \/ Load
    BY <2>2, FindStep, AddStep, AddRecordStep, TruncateStep, CleanStep, DelRecordStep,
       FindEofStep, LoadStep
  <2>3. CASE \/ ClaimNext \/ Chain \/ Fill \/ WriteReturns
             \/ WriteFirstPage \/ WriteSecondPage \/ ReadStep
    BY <2>3, ClaimNextStep, ChainStep, FillStep, WriteReturnsStep, WriteFirstPageStep,
       WriteSecondPageStep, ReadStepStep
  <2> QED
    BY <1>7, <2>1, <2>2, <2>3 DEF CallStep
<1>8. CASE PowerCut
  BY <1>8, PowerCutStep
<1>9. CASE UNCHANGED vars
  <2>1. media' = media /\ pc' = pc /\ loc' = loc /\ todo' = todo /\ file' = file
    BY <1>9 DEF vars
  <2>2. /\ Recs' = Recs /\ \A p : RecordAt(p)' = RecordAt(p)
        /\ \A s : Used(s)' <=> Used(s)
        /\ \A s : NoLinkTo(s)' <=> NoLinkTo(s)
        /\ \A p : Deleting(p)' <=> Deleting(p)
    BY <2>1 DEF Recs, RecordAt, Used, NoLinkTo, Deleting
  <2>3. StoreOK' /\ RecordsUsed'
    BY <2>1, <2>2 DEF IInv, StoreOK, MarksOK, LinksOK, RecordsOK, RecordsUsed
  <2>4. OpsOK' /\ FileOK'
    BY <2>1, <2>2 DEF IInv, OpsOK, FileOK
  <2>5. CallOK'
    BY <2>1, <2>2 DEF IInv, CallOK, NoRecordOf, Unreferenced, IsIndex, Free, EndsChain
  <2> QED
    BY <2>1, <2>3, <2>4, <2>5 DEF IInv
<1> QED
  BY <1>1, <1>2, <1>3, <1>4, <1>5, <1>6, <1>7, <1>8, <1>9 DEF Next

\* The store is sound after every step, at whatever write the power fails and
\* whatever access does.
THEOREM StoreIsSound == ASSUME SafeCalls PROVE Spec => []IInv
<1>1. Init => IInv
  BY InitIInv
<1>2. IInv /\ [Next]_vars => IInv'
  BY NextInv
<1> QED
  BY <1>1, <1>2, PTL DEF Spec

-----------------------------------------------------------------------------
(* What it gives *)

\* Every variable keeps its type: no offset, link, slot or count leaves its
\* range, in any call of lf_open, lf_delete, lf_write, lf_read and lf_close.
THEOREM TypeCorrect == ASSUME SafeCalls PROVE Spec => []TypeOK
<1>1. ASSUME IInv PROVE TypeOK
  BY <1>1 DEF IInv, StoreOK, OpsOK, FileOK, TypeOK
<1> QED
  BY <1>1, StoreIsSound, PTL

\* The records that lf_find_record reaches are records of the volume.
LEMMA PositionsLemma ==
  ASSUME IInv, NEW p \in Positions
  PROVE  /\ p \in Recs
         /\ RecordAt(p).fptr \in DataSectors /\ ~media[RecordAt(p).fptr].index
         /\ NoLinkTo(RecordAt(p).fptr)
<1>1. p[1] \in IndexSectors /\ p[2] \in Slots /\ p \in IndexSectors \X Slots
  BY DEF Positions
<1>2. p[1] \in Sectors /\ media[p[1]].index /\ p \in Sectors \X Slots
  BY <1>1 DEF IndexSectors, IndexFrom, IsIndex
<1>3. p \in Recs
  BY <1>2 DEF Positions, Recs, RecordAt
<1> QED
  BY <1>3 DEF IInv, StoreOK, RecordsOK

\* A chain begins with h and holds where a sector in it leads, and every such
\* set holds the chain.
LEMMA ChainForth ==
  ASSUME StoreOK, NEW h \in DataSectors
  PROVE  /\ ChainOf(h) \in SUBSET DataSectors /\ h \in ChainOf(h)
         /\ \A s \in ChainOf(h) : media[s].link \in ChainOf(h) \union {0, LAST}
<1>1. ChainOf(h) \in SUBSET DataSectors /\ h \in ChainOf(h)
  BY Volume DEF ChainOf
<1>2. ASSUME NEW s \in ChainOf(h), media[s].link \notin {0, LAST}
      PROVE  media[s].link \in ChainOf(h)
  <2>1. media[s].link \in DataSectors
    BY <1>1, <1>2, Volume, SectorFields DEF StoreOK
  <2>2. ASSUME NEW C \in SUBSET DataSectors, h \in C \union {0, LAST},
               \A x \in C : media[x].link \in C \union {0, LAST}
        PROVE  media[s].link \in C
    <3>1. s \in C
      BY <2>2 DEF ChainOf
    <3> QED
      BY <1>2, <2>2, <3>1
  <2> QED
    BY <2>1, <2>2 DEF ChainOf
<1> QED
  BY <1>1, <1>2

LEMMA ChainLeast ==
  ASSUME NEW h \in DataSectors, NEW C \in SUBSET DataSectors, h \in C,
         \A x \in C : media[x].link \in C \union {0, LAST}
  PROVE  ChainOf(h) \subseteq C
BY DEF ChainOf

\* A sector of a chain is its first or is linked to by another of the chain.
LEMMA ChainBack ==
  ASSUME StoreOK, NEW h \in DataSectors, NEW t \in ChainOf(h), t # h
  PROVE  \E s \in ChainOf(h) \ {t} : media[s].link = t
<1> SUFFICES ASSUME \A s \in ChainOf(h) \ {t} : media[s].link # t
             PROVE  FALSE
  OBVIOUS
<1> DEFINE C == ChainOf(h) \ {t}
<1>1. C \in SUBSET DataSectors /\ h \in C
  BY ChainForth
<1>2. \A x \in C : media[x].link \in C \union {0, LAST}
  BY ChainForth
<1>3. ChainOf(h) \subseteq C
  <2> HIDE DEF C
  <2> QED
    BY <1>1, <1>2, ChainLeast
<1> QED
  BY <1>3

\* The chains of two sectors that no other sector leads to have none in common.
LEMMA ChainsDisjoint ==
  ASSUME StoreOK, NEW h \in DataSectors, NEW k \in DataSectors, h # k,
         NoLinkTo(h), NoLinkTo(k)
  PROVE  ChainOf(h) \intersect ChainOf(k) = {}
<1> DEFINE C == ChainOf(k) \ ChainOf(h)
<1>1. k \notin ChainOf(h)
  <2> SUFFICES ASSUME k \in ChainOf(h) PROVE FALSE
    OBVIOUS
  <2>1. \E s \in ChainOf(h) \ {k} : media[s].link = k
    BY ChainBack
  <2> QED
    BY <2>1, ChainForth DEF NoLinkTo
<1>2. C \in SUBSET DataSectors /\ k \in C
  BY <1>1, ChainForth
<1>3. ASSUME NEW t \in C, media[t].link \in ChainOf(h)
      PROVE  FALSE
  <2>1. t \in DataSectors /\ t \notin ChainOf(h)
    BY ChainForth
  <2>2. media[t].link # h
    BY <2>1, ChainForth DEF NoLinkTo
  <2>3. PICK s \in ChainOf(h) \ {media[t].link} : media[s].link = media[t].link
    BY <1>3, <2>2, ChainBack
  <2>4. s \in DataSectors /\ media[t].link \in DataSectors \ {s, t}
    BY <1>3, <2>1, <2>3, ChainForth
  <2>5. s = t
    BY <2>1, <2>3, <2>4 DEF StoreOK, LinksOK
  <2> QED
    BY <2>1, <2>3, <2>5
<1>4. \A x \in C : media[x].link \in C \union {0, LAST}
  BY <1>3, ChainForth
<1>5. ChainOf(k) \subseteq C
  <2> HIDE DEF C
  <2> QED
    BY <1>2, <1>4, ChainLeast
<1> QED
  BY <1>5

\* A chain that begins with a sector of no index leads into none.
LEMMA ChainNoIndex ==
  ASSUME StoreOK, NEW h \in DataSectors, ~media[h].index
  PROVE  \A s \in ChainOf(h) : ~media[s].index
<1> DEFINE C == {s \in DataSectors : ~media[s].index}
<1>1. ASSUME NEW s \in C PROVE media[s].link \in C \union {0, LAST}
  <2>1. media[s].link \in DataSectors \union {0, LAST}
    BY Volume, SectorFields DEF StoreOK
  <2>2. media[s].link \in DataSectors => ~media[media[s].link].index
    BY Volume DEF StoreOK, LinksOK, MarksOK, Used
  <2> QED
    BY <2>1, <2>2
<1>2. ChainOf(h) \subseteq C
  BY <1>1, ChainLeast
<1> QED
  BY <1>2

\* A chain that begins with a sector of a file holds only such sectors.
LEMMA ChainUsed ==
  ASSUME StoreOK, NEW h \in DataSectors, Used(h)
  PROVE  \A s \in ChainOf(h) : Used(s)
<1> DEFINE C == {s \in DataSectors : Used(s)}
<1>1. ASSUME NEW s \in C PROVE media[s].link \in C \union {0, LAST}
  <2>1. media[s].link \in DataSectors \union {0, LAST}
    BY Volume, SectorFields DEF StoreOK
  <2>2. media[s].link \in DataSectors => Used(media[s].link)
    BY DEF StoreOK, LinksOK
  <2> QED
    BY <2>1, <2>2
<1>2. ChainOf(h) \subseteq C
  BY <1>1, ChainLeast
<1> QED
  BY <1>2

\* No sector belongs to two files, or to a file and the index, whatever is
\* created, written, deleted or fails: lf_get_free_sector, lf_add_record and
\* lf_write never hand out a sector that is in use.
THEOREM FilesSeparateCorrect == ASSUME SafeCalls PROVE Spec => []FilesSeparate
<1>1. ASSUME IInv PROVE FilesSeparate
  <2>1. StoreOK
    BY <1>1 DEF IInv
  <2>2. ASSUME NEW p \in Positions, NEW q \in Positions, p # q
        PROVE  ChainOf(RecordAt(p).fptr) \intersect ChainOf(RecordAt(q).fptr) = {}
    <3>1. /\ RecordAt(p).fptr \in DataSectors /\ NoLinkTo(RecordAt(p).fptr) /\ p \in Recs
          /\ RecordAt(q).fptr \in DataSectors /\ NoLinkTo(RecordAt(q).fptr) /\ q \in Recs
      BY <1>1, PositionsLemma
    <3>2. RecordAt(p).fptr # RecordAt(q).fptr
      BY <2>1, <2>2, <3>1 DEF StoreOK, RecordsOK
    <3> QED
      BY <2>1, <3>1, <3>2, ChainsDisjoint
  <2>3. ASSUME NEW p \in Positions
        PROVE  ChainOf(RecordAt(p).fptr) \intersect IndexSectors = {}
    <3>1. \A s \in ChainOf(RecordAt(p).fptr) : ~media[s].index
      BY <1>1, <2>1, PositionsLemma, ChainNoIndex
    <3>2. \A s \in IndexSectors : media[s].index
      BY DEF IndexSectors, IndexFrom, IsIndex
    <3> QED
      BY <3>1, <3>2
  <2> QED
    BY <2>2, <2>3 DEF FilesSeparate
<1> QED
  BY <1>1, StoreIsSound, PTL

\* No link of a file leads into a free sector, whatever fails and whatever
\* is left half done: lf_add_record and lf_write claim a sector before they
\* link to it, and lf_open and lf_clean_data let go of one before they free it.
THEOREM NoLinkIntoFreeCorrect == ASSUME SafeCalls PROVE Spec => []NoLinkIntoFreeSector
<1>1. ASSUME IInv PROVE NoLinkIntoFreeSector
  <2>1. StoreOK
    BY <1>1 DEF IInv
  <2>2. ASSUME loc.op # "delete", NEW p \in Positions, NEW s \in ChainOf(RecordAt(p).fptr)
        PROVE  ~Free(s)
    <3>1. p \in Recs /\ RecordAt(p).fptr \in DataSectors
      BY <1>1, PositionsLemma
    <3>2. Used(RecordAt(p).fptr)
      BY <1>1, <2>2, <3>1 DEF IInv, RecordsUsed, Deleting
    <3>3. Used(s)
      BY <2>1, <2>2, <3>1, <3>2, ChainUsed
    <3> QED
      BY <3>3 DEF Used, Free
  <2> QED
    BY <2>2 DEF NoLinkIntoFreeSector
<1> QED
  BY <1>1, StoreIsSound, PTL

-----------------------------------------------------------------------------
(* When nothing fails: where the index leads *)

\* No power failure, no access that fails, and no lf_format.
FaultFree == ~Formats /\ ~PowerCuts /\ ~IoErrors

\* The sector that lf_add_record adds to the index is being written.
Extending == pc \in {"page0", "page1"} /\ file = NoFile

\* The index is one list from sector 0 on, and lf_find_record and
\* lf_add_record walk along it.
Indexed ==
  /\ \A s \in Sectors : media[s].index => s \in IndexSectors
  /\ \A s \in Sectors : media[s].index /\ media[s].next # 0 =>
       media[media[s].next].index \/ (Extending /\ loc.at = media[s].next)
  /\ Extending => \E s \in Sectors : media[s].index /\ media[s].next = loc.at
  /\ pc \in {"find", "add"} => media[loc.at].index

\* The first sectors of the files, of the file that is being created or made
\* longer, and of what is left of one that is being freed.
Heads == {RecordAt(p).fptr : p \in Recs}
           \union (IF pc \in {"record", "chain"} THEN {loc.sect} ELSE {})
           \union (IF pc = "clean" THEN {loc.ptr} ELSE {})

\* Every sector of a file is in the chain of one of them.
Accounted ==
  /\ \A s \in DataSectors : Used(s) => \E h \in Heads : s \in ChainOf(h)
  /\ pc = "clean" /\ loc.op = "delete" /\ loc.ptr # loc.head => media[loc.head].link = 0
  /\ pc = "erase" => media[loc.head].link = 0
  /\ file # NoFile /\ file.mode \in WritingModes => media[file.sect].link \in {file.sect, LAST}

\* Two records have two names; lf_open adds one only after it has seen every
\* record there is.
Named(p) == RecordAt(p).name \in loc.names
NamesOK ==
  /\ \A p, q \in Recs : RecordAt(p).name = RecordAt(q).name => p = q
  /\ pc = "find" /\ loc.op \in CreatingModes =>
       /\ loc.slot = IF loc.at = 0 THEN 1 ELSE 0
       /\ \A p \in Recs : Named(p) => p[1] \in IndexFrom(loc.at)
  /\ pc \in {"add", "record"} \/ Extending => \A p \in Recs : ~Named(p)

WholeInv == IInv /\ Indexed /\ Accounted /\ NamesOK

LEMMA IndexForth ==
  ASSUME NEW a, NEW y \in IndexFrom(a), NEW n \in Sectors, n = media[y].next, n # 0, IsIndex(n)
  PROVE  n \in IndexFrom(a)
BY DEF IndexFrom

LEMMA IndexStep ==
  ASSUME NEW a \in Sectors, NEW n \in Sectors, n = media[a].next, NEW x \in IndexFrom(a), x # a
  PROVE  n # 0 /\ x \in IndexFrom(n)
<1>1. x \in Sectors /\ IsIndex(x)
  BY DEF IndexFrom
<1>2. n # 0
  <2> SUFFICES ASSUME n = 0 PROVE FALSE
    OBVIOUS
  <2> DEFINE C == {a}
  <2>1. /\ C \in SUBSET Sectors /\ a \in C
        /\ \A y \in C : IsIndex(y) /\ media[y].next # 0 => media[y].next \in C
    OBVIOUS
  <2>2. x \in C
    <3> HIDE DEF C
    <3> QED
      BY <2>1 DEF IndexFrom
  <2> QED
    BY <2>2
<1>3. ASSUME NEW C \in SUBSET Sectors, n \in C,
             \A y \in C : IsIndex(y) /\ media[y].next # 0 => media[y].next \in C
      PROVE  x \in C
  <2> DEFINE D == C \union {a}
  <2>1. /\ D \in SUBSET Sectors /\ a \in D
        /\ \A y \in D : IsIndex(y) /\ media[y].next # 0 => media[y].next \in D
    BY <1>3
  <2>2. x \in D
    <3> HIDE DEF D
    <3> QED
      BY <2>1 DEF IndexFrom
  <2> QED
    BY <2>2
<1> QED
  BY <1>1, <1>2, <1>3 DEF IndexFrom

LEMMA IndexGrow ==
  ASSUME NEW a,
         \A x \in Sectors : IsIndex(x) =>
           IsIndex(x)' /\ (media[x].next # 0 => media'[x].next = media[x].next)
  PROVE  IndexFrom(a) \subseteq IndexFrom(a)'
<1>1. ASSUME NEW x \in IndexFrom(a), NEW C \in SUBSET Sectors, a \in C,
             \A y \in C : IsIndex(y)' /\ media'[y].next # 0 => media'[y].next \in C
      PROVE  x \in C
  <2>1. \A y \in C : IsIndex(y) /\ media[y].next # 0 => media[y].next \in C
    BY <1>1
  <2> QED
    BY <1>1, <2>1 DEF IndexFrom
<1>2. \A x \in IndexFrom(a) : x \in Sectors /\ IsIndex(x)'
  BY DEF IndexFrom
<1> QED
  BY <1>1, <1>2 DEF IndexFrom

\* Under StoreOK an index sector is one by its mark alone.
LEMMA MarkedIndex ==
  ASSUME StoreOK, NEW s \in Sectors
  PROVE  IsIndex(s) <=> media[s].index
BY DEF StoreOK, MarksOK, IsIndex

\* The index stays what it is.
SameIndex ==
  \A x \in Sectors : /\ media'[x].index <=> media[x].index
                     /\ media[x].index => media'[x].next = media[x].next

LEMMA IndexedStays ==
  ASSUME IInv, IInv', Indexed, SameIndex, Extending' <=> Extending,
         Extending => loc'.at = loc.at,
         pc' \in {"find", "add"} => media[loc'.at].index
  PROVE  Indexed'
<1>1. StoreOK /\ StoreOK' /\ loc' \in CallSet /\ loc'.at \in Sectors
  BY DEF IInv, CallSet
<1>2. IndexSectors \subseteq IndexSectors'
  <2>1. \A x \in Sectors : IsIndex(x) =>
           IsIndex(x)' /\ (media[x].next # 0 => media'[x].next = media[x].next)
    BY <1>1, MarkedIndex DEF SameIndex, StoreOK, MarksOK, IsIndex
  <2> QED
    BY <2>1, IndexGrow DEF IndexSectors
<1>3. \A s \in Sectors : media'[s].index => s \in IndexSectors'
  BY <1>2 DEF Indexed, SameIndex
<1>4. ASSUME NEW s \in Sectors, media'[s].index, media'[s].next # 0
      PROVE  media'[media'[s].next].index \/ (Extending' /\ loc'.at = media'[s].next)
  <2>1. media[s].index /\ media'[s].next = media[s].next
    BY <1>4 DEF SameIndex
  <2>2. media[s].next \in Sectors
    BY <1>1, SectorFields DEF StoreOK
  <2>3. media[media[s].next].index \/ (Extending /\ loc.at = media[s].next)
    BY <1>4, <2>1 DEF Indexed
  <2> QED
    BY <2>1, <2>2, <2>3 DEF SameIndex
<1>5. Extending' => \E s \in Sectors : media'[s].index /\ media'[s].next = loc'.at
  BY DEF Indexed, SameIndex
<1>6. pc' \in {"find", "add"} => media'[loc'.at].index
  BY <1>1 DEF SameIndex
<1> QED
  BY <1>3, <1>4, <1>5, <1>6 DEF Indexed

-----------------------------------------------------------------------------
(* When nothing fails: what a write makes of the chains *)

\* Only the link of s changes.
OneLink(s) == \A x \in DataSectors \ {s} : media'[x].link = media[x].link

\* What ChainForth says of a state, it says of the next one.
Forth == StoreOK => \A h \in DataSectors :
           /\ ChainOf(h) \in SUBSET DataSectors /\ h \in ChainOf(h)
           /\ \A s \in ChainOf(h) : media[s].link \in ChainOf(h) \union {0, LAST}

LEMMA ForthNext == Forth'
<1>1. Forth
  BY ChainForth DEF Forth
<1> QED
  BY <1>1, PTL

LEMMA ChainForthNext ==
  ASSUME StoreOK', NEW h \in DataSectors
  PROVE  /\ ChainOf(h)' \in SUBSET DataSectors /\ h \in ChainOf(h)'
         /\ \A s \in ChainOf(h)' : media'[s].link \in ChainOf(h)' \union {0, LAST}
BY ForthNext DEF Forth

\* A chain stays, but for what followed s in it.
LEMMA ChainCut ==
  ASSUME StoreOK, StoreOK', NEW s \in DataSectors, OneLink(s),
         NEW h \in DataSectors, NEW x \in ChainOf(h), NEW l \in Sectors, l = media[s].link
  PROVE  x \in ChainOf(h)' \/ (l \in DataSectors \ {s} /\ x \in ChainOf(l)')
<1> DEFINE C == {y \in DataSectors :
                   y \in ChainOf(h)' \/ (l \in DataSectors \ {s} /\ y \in ChainOf(l)')}
<1>1. C \in SUBSET DataSectors /\ h \in C
  BY ChainForthNext
<1>2. ASSUME NEW g \in DataSectors
      PROVE  \A y \in ChainOf(g)' : media'[y].link \in ChainOf(g)' \union {0, LAST}
  BY <1>2, ChainForthNext
<1>3. ASSUME NEW y \in C PROVE media[y].link \in C \union {0, LAST}
  <2>1. CASE y = s
    <3>1. l \in DataSectors => l \in ChainOf(l)'
      BY ChainForthNext
    <3> QED
      BY <1>3, <2>1, <3>1, Volume
  <2>2. CASE y # s
    <3>1. media'[y].link = media[y].link
      BY <1>3, <2>2 DEF OneLink
    <3>2. CASE y \in ChainOf(h)'
      <4>1. media[y].link \in ChainOf(h)' \union {0, LAST}
        BY <1>2, <3>1, <3>2
      <4>2. ChainOf(h)' \subseteq DataSectors
        BY ChainForthNext
      <4> QED
        BY <4>1, <4>2
    <3>3. CASE l \in DataSectors \ {s} /\ y \in ChainOf(l)'
      <4>1. media[y].link \in ChainOf(l)' \union {0, LAST}
        BY <1>2, <3>1, <3>3
      <4>2. ChainOf(l)' \subseteq DataSectors
        BY <3>3, ChainForthNext
      <4> QED
        BY <3>3, <4>1, <4>2
    <3> QED
      BY <1>3, <3>2, <3>3
  <2> QED
    BY <2>1, <2>2
<1>4. ChainOf(h) \subseteq C
  <2> HIDE DEF C
  <2> QED
    BY <1>1, <1>3, ChainLeast
<1> QED
  BY <1>4

\* A sector that leads nowhere is a chain of its own.
LEMMA ChainAlone ==
  ASSUME NEW h \in DataSectors, media[h].link \in {h, 0, LAST}
  PROVE  \A x \in ChainOf(h) : x = h
<1>1. {h} \in SUBSET DataSectors /\ \A x \in {h} : media[x].link \in {h} \union {0, LAST}
  OBVIOUS
<1>2. ChainOf(h) \subseteq {h}
  BY <1>1, ChainLeast
<1> QED
  BY <1>2

\* The sectors of files other than s are accounted for by the same heads after
\* the link of s has changed, or by the sector that s led to.
LEMMA HeadsAfter ==
  ASSUME StoreOK, StoreOK', NEW s \in DataSectors, OneLink(s),
         \A x \in DataSectors : Used(x) => \E h \in Heads : x \in ChainOf(h),
         Heads \subseteq DataSectors, NEW l \in Sectors, l = media[s].link
  PROVE  \A x \in DataSectors \ {s} : Used(x)' =>
           \/ \E h \in Heads : x \in ChainOf(h)'
           \/ l \in DataSectors \ {s} /\ x \in ChainOf(l)'
<1>1. ASSUME NEW x \in DataSectors \ {s}, Used(x)'
      PROVE  \/ \E h \in Heads : x \in ChainOf(h)'
             \/ l \in DataSectors \ {s} /\ x \in ChainOf(l)'
  <2>1. Used(x)
    BY <1>1 DEF Used, OneLink
  <2>2. PICK h \in Heads : x \in ChainOf(h)
    BY <2>1
  <2>3. h \in DataSectors
    OBVIOUS
  <2> QED
    BY <2>2, <2>3, ChainCut
<1> QED
  BY <1>1

LEMMA HeadsTypes ==
  ASSUME IInv
  PROVE  Heads \in SUBSET DataSectors
<1>1. \A p \in Recs : RecordAt(p).fptr \in DataSectors
  BY DEF IInv, StoreOK, RecordsOK
<1>2. pc \in {"record", "chain"} => loc.sect \in DataSectors
  BY DEF IInv, CallOK, Used
<1>3. pc = "clean" => loc.ptr \in DataSectors
  BY DEF IInv, CallOK, Used
<1> QED
  BY <1>1, <1>2, <1>3 DEF Heads

LEMMA RecordHeads ==
  ASSUME NEW p \in Recs
  PROVE  RecordAt(p).fptr \in Heads
BY DEF Heads

\* The links stay as they are, and so do the chains.
LEMMA AccountedStays ==
  ASSUME IInv, IInv', Accounted, \A x \in DataSectors : media'[x].link = media[x].link,
         Heads \subseteq Heads',
         pc' = "clean" => loc'.ptr = loc'.head, pc' # "erase",
         file' # NoFile /\ file'.mode \in WritingModes =>
           media[file'.sect].link \in {file'.sect, LAST}
  PROVE  Accounted'
<1>1. StoreOK /\ StoreOK' /\ Heads \subseteq DataSectors
  BY HeadsTypes DEF IInv
<1>2. PICK s \in DataSectors : TRUE
  BY Sizes DEF DataSectors
<1>3. ASSUME NEW x \in DataSectors, Used(x)'
      PROVE  \E h \in Heads' : x \in ChainOf(h)'
  <2>1. Used(x)
    BY <1>3 DEF Used
  <2>2. PICK h \in Heads : x \in ChainOf(h)
    BY <2>1 DEF Accounted
  <2>3. ChainOf(h)' = ChainOf(h)
    BY DEF ChainOf
  <2> QED
    BY <2>2, <2>3
<1>4. file' # NoFile /\ file'.mode \in WritingModes =>
        media'[file'.sect].link \in {file'.sect, LAST}
  <2>1. file' # NoFile => file'.sect \in DataSectors
    BY DEF IInv, FileOK, Used
  <2> QED
    BY <2>1
<1> QED
  BY <1>3, <1>4 DEF Accounted

-----------------------------------------------------------------------------
(* When nothing fails: the steps *)

LEMMA NamesStay ==
  ASSUME NamesOK, Recs' \subseteq Recs, \A p \in Recs' : RecordAt(p)' = RecordAt(p),
         pc' = "find" => loc'.op \notin CreatingModes, pc' \notin {"add", "record"}, ~Extending'
  PROVE  NamesOK'
<1>1. \A p, q \in Recs : RecordAt(p).name = RecordAt(q).name => p = q
  BY DEF NamesOK
<1>2. \A p, q \in Recs' : RecordAt(p)'.name = RecordAt(q)'.name => p = q
  BY <1>1
<1> QED
  BY <1>2 DEF NamesOK

\* A step that writes nothing and ends or goes on with a call.
LEMMA QuietStep ==
  ASSUME WholeInv, IInv', media' = media, pc \notin {"record", "chain", "clean"},
         ~Extending, ~Extending', pc' \notin {"add", "record", "erase"},
         pc' = "find" => loc'.op \notin CreatingModes /\ media[loc'.at].index,
         pc' = "clean" => loc'.ptr = loc'.head,
         file' # NoFile /\ file'.mode \in WritingModes =>
           media[file'.sect].link \in {file'.sect, LAST}
  PROVE  WholeInv'
<1>1. Recs' = Recs /\ \A p \in Recs : RecordAt(p)' = RecordAt(p)
  BY DEF Recs, RecordAt
<1>2. Indexed'
  <2>1. SameIndex
    BY DEF SameIndex
  <2> QED
    BY <2>1, IndexedStays DEF WholeInv
<1>3. Accounted'
  <2>1. Heads \subseteq Heads'
    <3>1. ASSUME NEW h \in Heads PROVE h \in Heads'
      <4>1. PICK p \in Recs : h = RecordAt(p).fptr
        BY <3>1 DEF Heads
      <4>2. p \in Recs' /\ h = RecordAt(p)'.fptr
        BY <1>1, <4>1
      <4> QED
        BY <4>2 DEF Heads
    <3> QED
      BY <3>1
  <2> QED
    BY <2>1, AccountedStays DEF WholeInv
<1>4. NamesOK'
  BY <1>1, NamesStay DEF WholeInv
<1> QED
  BY <1>2, <1>3, <1>4 DEF WholeInv

LEMMA OpenWhole ==
  ASSUME WholeInv, IInv', NEW n \in Names, NEW mode \in Modes, Open(n, mode)
  PROVE  WholeInv'
<1>1. /\ pc = "idle" /\ file = NoFile /\ file' = NoFile /\ pc' = "find" /\ media' = media
      /\ loc' = [NoCall EXCEPT !.op = mode, !.names = {n}, !.slot = 1]
  BY DEF Open
<1>2. loc'.at = 0 /\ loc'.slot = 1
  BY <1>1, NoCallTypes
<1>3. Recs' = Recs /\ \A p \in Recs : RecordAt(p)' = RecordAt(p)
  BY <1>1 DEF Recs, RecordAt
<1>4. media[0].index
  BY DEF WholeInv, IInv, StoreOK, MarksOK
<1>5. SameIndex /\ ~Extending /\ ~Extending'
  BY <1>1 DEF SameIndex, Extending
<1>6. Indexed'
  BY <1>1, <1>2, <1>4, <1>5, IndexedStays DEF WholeInv
<1>7. Accounted'
  <2>1. Heads' = Heads
    BY <1>1, <1>3 DEF Heads
  <2> QED
    BY <1>1, <2>1, AccountedStays DEF WholeInv
<1>8. NamesOK'
  <2>1. \A p, q \in Recs : RecordAt(p).name = RecordAt(q).name => p = q
    BY DEF WholeInv, NamesOK
  <2>2. \A p, q \in Recs' : RecordAt(p)'.name = RecordAt(q)'.name => p = q
    BY <1>3, <2>1
  <2>3. \A p \in Recs' : p[1] \in IndexFrom(0)'
    BY <1>6 DEF Indexed, IndexSectors, Recs
  <2>4. IndexFrom(0)' = IndexFrom(loc.at)'
    BY <1>2 DEF IndexFrom
  <2>5. \A p \in Recs' : p[1] \in IndexFrom(loc.at)'
    BY <2>3, <2>4
  <2> QED
    BY <1>1, <1>2, <1>5, <2>2, <2>5 DEF NamesOK
<1> QED
  BY <1>6, <1>7, <1>8 DEF WholeInv

LEMMA DeleteWhole ==
  ASSUME WholeInv, IInv', NEW names \in Deletes, Delete(names)
  PROVE  WholeInv'
<1>1. /\ pc = "idle" /\ file = NoFile /\ file' = NoFile /\ pc' = "find" /\ media' = media
      /\ loc' = [NoCall EXCEPT !.op = "delete", !.names = names, !.slot = 1]
  BY DEF Delete
<1>2. loc'.at = 0 /\ loc'.op = "delete"
  BY <1>1, NoCallTypes
<1>3. media[0].index
  BY DEF WholeInv, IInv, StoreOK, MarksOK
<1> QED
  BY <1>1, <1>2, <1>3, QuietStep, CallsLemma DEF Extending

\* The calls on a file that is open, as long as they write nothing.
LEMMA FileSteps ==
  ASSUME WholeInv, IInv',
         \/ \E d \in Writes : CallWrite(d)
         \/ \E k \in Reads : CallRead(k)
         \/ Close \/ Fill \/ WriteReturns \/ ReadStep
  PROVE  WholeInv'
<1>1. /\ media' = media /\ pc \in {"idle", "write", "read"} /\ file # NoFile
      /\ pc' \in {"idle", "write", "read", "page0"} /\ (pc' = "page0" => file' # NoFile)
      /\ file' # NoFile => file'.mode = file.mode
      /\ file' # NoFile /\ file.mode # "read" => file'.sect = file.sect
  <2>1. file \in FileSet /\ file # NoFile
    BY FileLemma DEF WholeInv, IInv, OpsOK, CallWrite, CallRead, Close, Fill, FillMarking,
                     WriteReturns, ReadStep
  <2>2. CASE \/ \E d \in Writes : CallWrite(d)
             \/ \E k \in Reads : CallRead(k)
             \/ Close \/ WriteReturns
    BY <2>1, <2>2 DEF CallWrite, CallRead, Close, WriteReturns, Goto, FileSet
  <2>3. CASE Fill
    <3>1. /\ media' = media /\ pc = "write" /\ pc' \in {"idle", "page0"}
          /\ \E data, link, off, c, s :
               file' = [file EXCEPT !.buf.data = data, !.buf.link = link, !.off = off,
                                    !.changed = c, !.intent = s]
      BY <2>3 DEF Fill, FillMarking
    <3>2. file'.mode = file.mode /\ file'.sect = file.sect
      BY <2>1, <3>1 DEF FileSet
    <3>3. pc' = "page0" => file' # NoFile
      <4>1. loc'.op = "none"
        BY <2>3 DEF Fill, FillMarking, WholeInv, IInv, OpsOK, CallSet
      <4> QED
        BY <4>1, CallsLemma DEF IInv, OpsOK
    <3> QED
      BY <2>1, <3>1, <3>2, <3>3
  <2>4. CASE ReadStep
    BY <2>1, <2>4 DEF ReadStep, Finish, FileSet, WholeInv, IInv, FileOK
  <2> QED
    BY <2>2, <2>3, <2>4
<1>2. ~Extending /\ ~Extending'
  BY <1>1 DEF Extending
<1>3. file' # NoFile /\ file'.mode \in WritingModes =>
        media[file'.sect].link \in {file'.sect, LAST}
  BY <1>1, CallsLemma DEF WholeInv, Accounted
<1> QED
  BY <1>1, <1>2, <1>3, QuietStep

\* The steps of lf_open, as long as they write nothing.
LEMMA FindEofWhole ==
  ASSUME WholeInv, IInv', FindEof
  PROVE  WholeInv'
<1>1. /\ media' = media /\ pc = "eof" /\ pc' \in {"eof", "load", "idle"}
      /\ file' = file /\ file = NoFile
  BY DEF FindEof, Goto, Finish, WholeInv, IInv, OpsOK
<1>2. ~Extending /\ ~Extending'
  BY <1>1 DEF Extending
<1> QED
  BY <1>1, <1>2, QuietStep

LEMMA LoadWhole ==
  ASSUME WholeInv, IInv', Load
  PROVE  WholeInv'
<1>1. media' = media /\ pc = "load" /\ pc' = "idle" /\ file = NoFile
  BY DEF Load, Finish, WholeInv, IInv, OpsOK
<1>2. ~Extending /\ ~Extending'
  BY <1>1 DEF Extending
<1>3. file' # NoFile => file'.sect = loc.ptr /\ file'.mode = loc.op
  BY <1>1 DEF Load
<1>4. file' # NoFile /\ file'.mode \in WritingModes =>
        media[file'.sect].link \in {file'.sect, LAST}
  BY <1>1, <1>3 DEF WholeInv, IInv, CallOK, EndsChain
<1> QED
  BY <1>1, <1>2, <1>4, QuietStep

LEMMA FindWhole ==
  ASSUME WholeInv, IInv', FaultFree, Find
  PROVE  WholeInv'
<1> DEFINE b == media[loc.at]
           matching == {i \in Slots : i >= loc.slot /\ b.recs[i] # Erased
                                        /\ b.recs[i].name \in loc.names}
<1>1. /\ pc = "find" /\ media' = media /\ file' = file /\ file = NoFile /\ ~IoErrors
      /\ loc.at \in Sectors /\ b.index /\ loc \in CallSet /\ StoreOK
      /\ loc.op \in {"delete", "read"} \union WritingModes
  BY DEF Find, FaultFree, WholeInv, IInv, OpsOK, Indexed, CallSet
<1>2. IsIndex(loc.at) /\ b.next \in Sectors /\ NextIndex(b) = b.next
  BY <1>1, MarkedIndex, SectorFields DEF StoreOK, NextIndex
<1>3. Recs' = Recs /\ \A p \in Recs : RecordAt(p)' = RecordAt(p)
  BY <1>1 DEF Recs, RecordAt
<1>11. AfterFound \in {"clean", "load", "eof", "truncate"}
  BY <1>1, CallsLemma DEF AfterFound
<1>4. ~Extending /\ ~Extending' /\ SameIndex
  <2>1. pc' \notin {"page0", "page1"}
    BY <1>1, <1>11 DEF Find, NotFound, Finish
  <2> QED
    BY <1>1, <2>1 DEF Extending, SameIndex
<1>5. ASSUME loc.op \in CreatingModes, matching = {}, NEW p \in Recs, Named(p)
      PROVE  b.next # 0 /\ p[1] \in IndexFrom(b.next)
  <2>1. p[1] \in IndexFrom(loc.at)
    BY <1>1, <1>5 DEF WholeInv, NamesOK
  <2>2. ASSUME p[1] = loc.at PROVE FALSE
    <3>1. /\ p[2] \in SlotsOf(loc.at) /\ b.recs[p[2]] # Erased
          /\ b.recs[p[2]].name \in loc.names
      BY <1>5, <2>2 DEF Recs, RecordAt, Named
    <3>2. loc.slot = IF loc.at = 0 THEN 1 ELSE 0
      BY <1>1, <1>5 DEF WholeInv, NamesOK
    <3>3. p[2] \in Slots /\ p[2] >= loc.slot
      BY <3>1, <3>2, Sizes DEF SlotsOf, Slots
    <3>4. p[2] \in matching
      BY <3>1, <3>3
    <3> QED
      BY <1>5, <3>4
  <2> HIDE DEF matching
  <2> QED
    BY <1>1, <1>2, <2>1, <2>2, IndexStep
<1>6. CASE pc' = AfterFound /\ loc'.ptr = loc'.head
  BY <1>1, <1>4, <1>6, <1>11, QuietStep
<1>7. CASE /\ matching = {} /\ b.next # 0 /\ pc' = pc
           /\ loc' = [loc EXCEPT !.at = b.next, !.slot = 0]
  <2>1. /\ loc'.at = b.next /\ loc'.slot = 0 /\ loc'.names = loc.names /\ loc'.op = loc.op
    BY <1>1, <1>7 DEF CallSet
  <2>2. media[b.next].index
    BY <1>1, <1>4, <1>7 DEF WholeInv, Indexed
  <2>3. Indexed'
    BY <1>1, <1>4, <1>7, <2>1, <2>2, IndexedStays DEF WholeInv
  <2>4. Accounted'
    <3>1. Heads' = Heads
      BY <1>1, <1>3, <1>7 DEF Heads
    <3> QED
      BY <1>1, <1>7, <3>1, AccountedStays DEF WholeInv
  <2>5. NamesOK'
    <3>1. \A p, q \in Recs' : RecordAt(p)'.name = RecordAt(q)'.name => p = q
      BY <1>3 DEF WholeInv, NamesOK
    <3>2. PICK n \in Sectors : n = b.next
      BY <1>2
    <3>3. ASSUME loc.op \in CreatingModes, NEW p \in Recs', Named(p)'
          PROVE  p[1] \in IndexFrom(loc.at)'
      <4>1. p \in Recs /\ Named(p)
        BY <1>3, <2>1, <3>3 DEF Named
      <4>2. p[1] \in IndexFrom(n)
        BY <1>5, <1>7, <3>2, <3>3, <4>1
      <4>3. IndexFrom(n) = IndexFrom(n)'
        BY <1>1 DEF IndexFrom, IsIndex
      <4>4. IndexFrom(n)' = IndexFrom(loc.at)'
        BY <2>1, <3>2 DEF IndexFrom
      <4> QED
        BY <4>2, <4>3, <4>4
    <3> QED
      BY <1>1, <1>4, <1>7, <2>1, <3>1, <3>3 DEF NamesOK
  <2> QED
    BY <2>3, <2>4, <2>5 DEF WholeInv
<1>8. CASE matching = {} /\ b.next = 0 /\ NotFound
  <2>1. CASE loc.op \in CreatingModes
    <3>1. pc' = "add" /\ loc' = [loc EXCEPT !.at = 0]
      BY <1>8, <2>1 DEF NotFound
    <3>2. loc'.at = 0 /\ loc'.names = loc.names /\ media[0].index
      BY <1>1, <3>1 DEF CallSet, StoreOK, MarksOK
    <3>3. Indexed'
      BY <1>1, <1>4, <3>1, <3>2, IndexedStays DEF WholeInv
    <3>4. Accounted'
      <4>1. Heads' = Heads
        BY <1>1, <1>3, <3>1 DEF Heads
      <4> QED
        BY <1>1, <3>1, <4>1, AccountedStays DEF WholeInv
    <3>5. NamesOK'
      <4>1. \A p, q \in Recs' : RecordAt(p)'.name = RecordAt(q)'.name => p = q
        BY <1>3 DEF WholeInv, NamesOK
      <4>2. \A p \in Recs : ~Named(p)
        BY <1>5, <1>8, <2>1
      <4>3. \A p \in Recs' : ~Named(p)'
        BY <1>3, <3>2, <4>2 DEF Named
      <4> QED
        BY <3>1, <4>1, <4>3 DEF NamesOK
    <3> QED
      BY <3>3, <3>4, <3>5 DEF WholeInv
  <2>2. CASE loc.op \notin CreatingModes
    <3>1. pc' = "idle"
      BY <1>8, <2>2 DEF NotFound, Finish
    <3> QED
      BY <1>1, <1>4, <3>1, QuietStep
  <2> QED
    BY <2>1, <2>2
<1>9. \/ matching # {} /\ pc' = AfterFound
           /\ LET i == Min(matching)
              IN  loc' = [loc EXCEPT !.slot = i, !.head = b.recs[i].fptr,
                                     !.ptr = b.recs[i].fptr]
      \/ /\ matching = {} /\ b.next # 0 /\ pc' = pc
         /\ loc' = [loc EXCEPT !.at = b.next, !.slot = 0]
      \/ matching = {} /\ b.next = 0 /\ NotFound
  BY <1>1, <1>2 DEF Find
<1>10. ASSUME NEW i, loc' = [loc EXCEPT !.slot = i, !.head = b.recs[i].fptr,
                                        !.ptr = b.recs[i].fptr]
       PROVE  loc'.ptr = loc'.head
  BY <1>1, <1>10 DEF CallSet
<1> HIDE DEF matching
<1> QED
  BY <1>6, <1>7, <1>8, <1>9, <1>10

\* A record is in the same place or there is none: the names stay apart.
LEMMA NamesKept ==
  ASSUME NamesOK, RecsKept, pc \in {"add", "record"} \/ Extending, loc'.names = loc.names,
         pc' # "find"
  PROVE  NamesOK'
<1>1. Recs' = Recs /\ \A p \in Recs : RecordAt(p)' = RecordAt(p)
  BY DEF RecsKept
<1>2. \A p, q \in Recs : RecordAt(p).name = RecordAt(q).name => p = q
  BY DEF NamesOK
<1>3. \A p, q \in Recs' : RecordAt(p)'.name = RecordAt(q)'.name => p = q
  BY <1>1, <1>2
<1>4. \A p \in Recs : ~Named(p)
  BY DEF NamesOK
<1>5. \A p \in Recs' : ~Named(p)'
  BY <1>1, <1>4 DEF Named
<1> QED
  BY <1>3, <1>5 DEF NamesOK

LEMMA AddWhole ==
  ASSUME WholeInv, IInv', FaultFree, Add
  PROVE  WholeInv'
<1> DEFINE b == media[loc.at]
           erased == {i \in SlotsOf(loc.at) : b.recs[i] = Erased}
<1>1. /\ pc = "add" /\ file' = file /\ file = NoFile /\ ~IoErrors
      /\ loc.at \in Sectors /\ b.index /\ loc \in CallSet /\ StoreOK /\ StoreOK'
      /\ \A p : ~Deleting(p)
  BY NotDeleting DEF Add, FaultFree, WholeInv, IInv, OpsOK, Indexed, CallSet
<1>2. IsIndex(loc.at) /\ b.next \in Sectors /\ ~Extending
  BY <1>1, MarkedIndex, SectorFields DEF StoreOK, Extending
<1>3. CASE Finish /\ UNCHANGED media
  <2>1. pc' = "idle" /\ ~Extending'
    BY <1>3 DEF Finish, Extending
  <2> QED
    BY <1>1, <1>2, <1>3, <2>1, QuietStep
<1>4. CASE /\ b.next # 0 /\ loc' = [loc EXCEPT !.at = b.next] /\ UNCHANGED <<media, pc>>
  <2>1. loc'.at = b.next /\ loc'.names = loc.names
    BY <1>1, <1>4 DEF CallSet
  <2>2. media[b.next].index
    BY <1>1, <1>2, <1>4 DEF WholeInv, Indexed
  <2>3. SameIndex /\ ~Extending' /\ RecsKept
    BY <1>1, <1>4 DEF SameIndex, Extending, RecsKept, Recs, RecordAt
  <2>4. Indexed'
    BY <1>1, <1>2, <1>4, <2>1, <2>2, <2>3, IndexedStays DEF WholeInv
  <2>5. Accounted'
    <3>1. Heads' = Heads
      BY <1>1, <1>4, <2>3 DEF Heads, RecsKept
    <3> QED
      BY <1>1, <1>4, <3>1, AccountedStays DEF WholeInv
  <2>6. NamesOK'
    BY <1>1, <1>4, <2>1, <2>3, NamesKept DEF WholeInv
  <2> QED
    BY <2>4, <2>5, <2>6 DEF WholeInv
<1>5. CASE /\ FreeData # {} /\ media' = Claimed(Min(FreeData)) /\ pc' = "record"
           /\ loc' = [loc EXCEPT !.slot = Min(erased), !.sect = Min(FreeData)]
  <2>1. PICK s \in DataSectors : s = Min(FreeData) /\ Free(s)
    BY <1>5, FreeDataLemma
  <2>2. FreshlyClaimed(s) /\ ~media[s].index
    BY <1>1, <1>5, <2>1, ClaimMedia, FreeLemma DEF WholeInv, IInv
  <2>3. loc'.sect = s /\ loc'.names = loc.names
    BY <1>1, <1>5, <2>1 DEF CallSet
  <2>4. ~media'[s].index /\ s \in Sectors /\ media[s].link = 0
    BY <1>1, <2>1, <2>2, Volume DEF FreshlyClaimed, StoreOK, MarksOK, Free
  <2>5. SameIndex /\ ~Extending' /\ OneLink(s)
    BY <1>5, <2>2, <2>4, Volume DEF SameIndex, FreshlyClaimed, Extending, OneLink
  <2>6. Indexed'
    BY <1>2, <1>5, <2>5, IndexedStays DEF WholeInv
  <2>7. RecsKept /\ media'[s].link = s
    BY <2>2 DEF FreshlyClaimed
  <2>8. Accounted'
    <3>1. Heads' = Heads \union {s}
      BY <1>1, <1>5, <2>3, <2>7 DEF Heads, RecsKept
    <3>2. \A x \in DataSectors \ {s} : Used(x)' => \E h \in Heads : x \in ChainOf(h)'
      <4>1. 0 \in Sectors /\ 0 \notin DataSectors /\ Heads \subseteq DataSectors
        BY Volume, HeadsTypes DEF WholeInv
      <4> QED
        BY <1>1, <2>1, <2>4, <2>5, <4>1, HeadsAfter DEF WholeInv, Accounted
    <3>3. s \in ChainOf(s)'
      BY <1>1, <2>1, ChainForthNext
    <3>4. \A x \in DataSectors : Used(x)' => \E h \in Heads' : x \in ChainOf(h)'
      BY <3>1, <3>2, <3>3
    <3> QED
      BY <1>1, <1>5, <3>4 DEF Accounted
  <2>9. NamesOK'
    BY <1>1, <1>5, <2>3, <2>7, NamesKept DEF WholeInv
  <2> QED
    BY <2>6, <2>8, <2>9 DEF WholeInv
<1>6. CASE /\ b.next = 0 /\ FreeIndex # {}
           /\ media' = [media EXCEPT ![loc.at].next = Min(FreeIndex)]
           /\ pc' = "page0" /\ loc' = [loc EXCEPT !.at = Min(FreeIndex)]
  <2>1. PICK s \in Sectors : s = loc'.at /\ s # 0
    BY <1>1, <1>6 DEF IInv, CallOK, CallSet
  <2>2. media' = [media EXCEPT ![loc.at].next = s] /\ loc'.names = loc.names
    BY <1>1, <1>6, <2>1 DEF CallSet
  <2>3. StoreKept
    BY <1>1, <2>2, NextMedia
  <2>4. /\ media'[loc.at].next = s /\ \A x \in Sectors \ {loc.at} : media'[x] = media[x]
        /\ \A x \in Sectors : media'[x].index = media[x].index /\ media'[x].link = media[x].link
    BY <1>1, <2>2 DEF StoreOK, SectorSet
  <2>5. Indexed'
    <3>1. IndexSectors \subseteq IndexSectors'
      <4>1. \A x \in Sectors : IsIndex(x) =>
               IsIndex(x)' /\ (media[x].next # 0 => media'[x].next = media[x].next)
        BY <1>1, <1>6, <2>4 DEF IsIndex
      <4> QED
        BY <4>1, IndexGrow DEF IndexSectors
    <3>2. \A x \in Sectors : media'[x].index => x \in IndexSectors'
      BY <2>4, <3>1 DEF WholeInv, Indexed
    <3>3. Extending'
      BY <1>1, <1>6 DEF Extending
    <3>4. ASSUME NEW x \in Sectors, media'[x].index, media'[x].next # 0
          PROVE  media'[media'[x].next].index \/ media'[x].next = loc'.at
      <4>1. CASE x = loc.at
        BY <2>1, <2>4, <4>1
      <4>2. CASE x # loc.at
        <5>1. media'[x] = media[x] /\ media[x].next \in Sectors
          BY <1>1, <2>4, <4>2, SectorFields DEF StoreOK
        <5>2. media[media[x].next].index
          BY <1>2, <3>4, <5>1 DEF WholeInv, Indexed
        <5> QED
          BY <2>4, <5>1, <5>2
      <4> QED
        BY <4>1, <4>2
    <3>5. media'[loc.at].index /\ media'[loc.at].next = loc'.at
      BY <1>1, <2>1, <2>4
    <3> QED
      BY <1>1, <1>6, <3>2, <3>3, <3>4, <3>5 DEF Indexed
  <2>6. RecsKept /\ \A x \in DataSectors : media'[x].link = media[x].link
    BY <2>3, <2>4, Volume DEF StoreKept
  <2>7. Accounted'
    <3>1. Heads' = Heads
      BY <1>1, <1>6, <2>6 DEF Heads, RecsKept
    <3> QED
      BY <1>1, <1>6, <2>6, <3>1, AccountedStays DEF WholeInv
  <2>8. NamesOK'
    BY <1>1, <1>6, <2>2, <2>6, NamesKept DEF WholeInv
  <2> QED
    BY <2>5, <2>7, <2>8 DEF WholeInv
<1> HIDE DEF erased
<1>7. \/ /\ FreeData # {} /\ media' = Claimed(Min(FreeData)) /\ pc' = "record"
         /\ loc' = [loc EXCEPT !.slot = Min(erased), !.sect = Min(FreeData)]
      \/ b.next # 0 /\ loc' = [loc EXCEPT !.at = b.next] /\ UNCHANGED <<media, pc>>
      \/ /\ b.next = 0 /\ FreeIndex # {}
         /\ media' = [media EXCEPT ![loc.at].next = Min(FreeIndex)]
         /\ pc' = "page0" /\ loc' = [loc EXCEPT !.at = Min(FreeIndex)]
      \/ Finish /\ UNCHANGED media
  BY <1>1 DEF Add, Write, erased
<1> QED
  BY <1>3, <1>4, <1>5, <1>6, <1>7

LEMMA AddRecordWhole ==
  ASSUME WholeInv, IInv', FaultFree, AddRecord
  PROVE  WholeInv'
<1>1. /\ pc = "record" /\ file' = file /\ file = NoFile /\ ~IoErrors
      /\ loc \in CallSet /\ loc.op \in CreatingModes /\ StoreOK /\ StoreOK'
  BY DEF AddRecord, FaultFree, WholeInv, IInv, OpsOK
<1>2. PICK n \in Names : loc.names = {n}
  BY <1>1, CallsLemma DEF WholeInv, IInv, OpsOK
<1>3. PICK a \in Sectors, i \in Slots, c \in Sectors :
        /\ a = loc.at /\ i = loc.slot /\ c = loc.sect /\ i \in SlotsOf(a)
  BY <1>1, Volume DEF WholeInv, IInv, CallOK, CallSet
<1>4. /\ media[a].index /\ RecordAt(<<a, i>>) = Erased /\ Used(c) /\ Unreferenced(c)
  BY <1>1, <1>3 DEF WholeInv, IInv, CallOK, IsIndex
<1>5. PICK r \in Records : r = [name |-> n, fptr |-> c]
  BY DEF Records
<1>6. /\ media' = [media EXCEPT ![a].recs[i] = r] /\ pc' = AfterFound
      /\ loc' = [loc EXCEPT !.head = c, !.ptr = c]
  <2>1. (CHOOSE x \in loc.names : TRUE) = n
    BY <1>2
  <2> QED
    BY <1>1, <1>3, <1>5, <2>1 DEF AddRecord, Write
<1>7. /\ Recs' = Recs \union {<<a, i>>} /\ RecordAt(<<a, i>>)' = r
      /\ \A p \in Recs : RecordAt(p)' = RecordAt(p)
  <2>1. r.fptr = c
    BY <1>5
  <2>2. Used(r.fptr) /\ Unreferenced(r.fptr)
    BY <1>4, <2>1
  <2> QED
    BY <1>1, <1>3, <1>4, <1>6, <2>2, AddedRecordMedia
<1>8. \A x \in Sectors : /\ media'[x].index = media[x].index /\ media'[x].link = media[x].link
                         /\ media'[x].next = media[x].next
  BY <1>1, <1>6 DEF StoreOK, SectorSet
<1>9. pc' \in {"truncate", "eof"}
  BY <1>1, <1>6, CallsLemma DEF AfterFound
<1>10. Indexed'
  <2>1. SameIndex /\ ~Extending /\ ~Extending'
    BY <1>1, <1>8, <1>9 DEF SameIndex, Extending
  <2> QED
    BY <1>9, <2>1, IndexedStays DEF WholeInv
<1>11. Accounted'
  <2>1. ASSUME NEW h \in Heads PROVE h \in Heads'
    <3>1. CASE \E p \in Recs : h = RecordAt(p).fptr
      <4>1. PICK p \in Recs : h = RecordAt(p).fptr
        BY <3>1
      <4>2. p \in Recs' /\ h = RecordAt(p)'.fptr
        BY <1>7, <4>1
      <4> QED
        BY <4>2 DEF Heads
    <3>2. CASE h = loc.sect
      <4>1. <<a, i>> \in Recs' /\ h = RecordAt(<<a, i>>)'.fptr
        BY <1>3, <1>5, <1>7, <3>2
      <4> QED
        BY <4>1 DEF Heads
    <3> QED
      BY <1>1, <2>1, <3>1, <3>2 DEF Heads
  <2>2. \A x \in DataSectors : media'[x].link = media[x].link
    BY <1>8, Volume
  <2> QED
    BY <1>1, <1>9, <2>1, <2>2, AccountedStays DEF WholeInv
<1>12. NamesOK'
  <2>1. \A p \in Recs : RecordAt(p).name # n
    BY <1>1, <1>2 DEF WholeInv, NamesOK, Named
  <2>2. \A p, q \in Recs : RecordAt(p).name = RecordAt(q).name => p = q
    BY DEF WholeInv, NamesOK
  <2>3. RecordAt(<<a, i>>)'.name = n
    BY <1>5, <1>7
  <2>4. \A p, q \in Recs' : RecordAt(p)'.name = RecordAt(q)'.name => p = q
    BY <1>7, <2>1, <2>2, <2>3
  <2> QED
    BY <1>9, <2>4 DEF NamesOK, Extending
<1> QED
  BY <1>10, <1>11, <1>12 DEF WholeInv

LEMMA TruncateWhole ==
  ASSUME WholeInv, IInv', FaultFree, Truncate
  PROVE  WholeInv'
<1>1. /\ pc = "truncate" /\ file' = file /\ file = NoFile /\ ~IoErrors
      /\ loc \in CallSet /\ loc.op # "delete" /\ StoreOK /\ StoreOK' /\ loc.ptr = loc.head
  BY DEF Truncate, FaultFree, WholeInv, IInv, OpsOK, CallOK
<1>2. PICK s \in DataSectors : /\ s = loc.ptr /\ s = loc.head /\ ~media[s].index /\ Used(s)
                              /\ \E p \in Recs : RecordAt(p).fptr = s
  BY <1>1, HeadLemma DEF WholeInv
<1>3. PICK l \in Sectors : l = media[s].link
  BY <1>1, <1>2, Volume, SectorFields DEF StoreOK
<1>4. /\ media' = Claimed(s)
      /\ \/ EndsChain(s) /\ pc' = "load" /\ loc' = loc
         \/ ~EndsChain(s) /\ pc' = "clean" /\ loc' = [loc EXCEPT !.ptr = l]
  BY <1>1, <1>2, <1>3 DEF Truncate, Write, Goto
<1>5. LinkSet(media', s, s, 0)
  BY <1>1, <1>2, <1>4, SetNextLemma, Sizes, Volume DEF Claimed, StoreOK
<1>6. SameIndex /\ ~Extending /\ ~Extending' /\ OneLink(s) /\ media'[s].link = s /\ RecsKept
  <2>1. /\ \A x \in Sectors \ {s} : media'[x] = media[x]
        /\ ~media'[s].index /\ media'[s].link = s /\ s \in Sectors
    BY <1>5, Volume DEF LinkSet
  <2>2. {s} \in SUBSET Sectors
    BY <2>1
  <2>3. RecsKept
    BY <1>2, <2>1, <2>2, RecsKeptLemma
  <2> QED
    BY <1>1, <1>2, <1>4, <2>1, <2>3, Volume DEF SameIndex, OneLink, Extending
<1>7. Indexed'
  BY <1>4, <1>6, IndexedStays DEF WholeInv
<1>8. Accounted'
  <2>1. Heads \subseteq Heads' /\ s \in Heads'
    <3>1. Recs' = Recs /\ \A p \in Recs : RecordAt(p)' = RecordAt(p)
      BY <1>6 DEF RecsKept
    <3> QED
      BY <1>1, <1>2, <1>4, <3>1 DEF Heads
  <2>2. ASSUME NEW x \in DataSectors, Used(x)' PROVE \E h \in Heads' : x \in ChainOf(h)'
    <3>1. CASE x = s
      BY <1>1, <2>1, <3>1, ChainForthNext
    <3>2. CASE x # s
      <4>1. Heads \subseteq DataSectors
        BY HeadsTypes DEF WholeInv
      <4>2. \/ \E h \in Heads : x \in ChainOf(h)'
            \/ l \in DataSectors \ {s} /\ x \in ChainOf(l)'
        BY <1>1, <1>3, <1>6, <2>2, <3>2, <4>1, HeadsAfter DEF WholeInv, Accounted
      <4>3. ASSUME l \in DataSectors \ {s} PROVE l \in Heads'
        <5>1. pc' = "clean" /\ loc'.ptr = l
          BY <1>1, <1>3, <1>4, <4>3, Volume DEF EndsChain, CallSet
        <5> QED
          BY <5>1 DEF Heads
      <4> QED
        BY <2>1, <4>2, <4>3
    <3> QED
      BY <3>1, <3>2
  <2>3. loc'.op = loc.op
    BY <1>1, <1>4 DEF CallSet
  <2> QED
    BY <1>1, <1>4, <2>2, <2>3 DEF Accounted
<1>9. NamesOK'
  BY <1>4, <1>6, NamesStay DEF WholeInv, RecsKept
<1> QED
  BY <1>7, <1>8, <1>9 DEF WholeInv

\* A freed sector leads to nothing.
Alone == \A h \in DataSectors :
           media[h].link \in {h, 0, LAST} => \A x \in ChainOf(h) : x = h

LEMMA AloneNext == Alone'
<1>1. Alone
  BY ChainAlone DEF Alone
<1> QED
  BY <1>1, PTL

LEMMA CleanWhole ==
  ASSUME WholeInv, IInv', FaultFree, Clean
  PROVE  WholeInv'
<1>1. /\ pc = "clean" /\ file' = file /\ file = NoFile /\ ~IoErrors
      /\ loc \in CallSet /\ StoreOK /\ StoreOK' /\ loc.op \in {"delete", "write", "create"}
      /\ <<loc.at, loc.slot>> \in Recs /\ RecordAt(<<loc.at, loc.slot>>).fptr = loc.head
  BY HeadLemma DEF Clean, FaultFree, WholeInv, IInv, OpsOK
<1>2. PICK s \in DataSectors : CleanAt(s)
  BY <1>1, CleanAtLemma DEF WholeInv
<1>3. PICK l \in Sectors : l = media[s].link
  BY <1>1, <1>2, SectorFields DEF StoreOK, CleanAt
<1>10. PICK h0 \in DataSectors : h0 = loc.head
  BY <1>1, HeadLemma DEF WholeInv
<1>4. /\ media' = SetNext(s, 0, 0)
      /\ \/ /\ EndsChain(s) /\ pc' = IF loc.op = "delete" THEN "erase" ELSE "load"
            /\ loc' = [loc EXCEPT !.ptr = loc.head]
         \/ /\ ~EndsChain(s) /\ pc' = "clean" /\ loc' = [loc EXCEPT !.ptr = l]
  BY <1>1, <1>2, <1>3 DEF Clean, Write, CleanAt
<1>5. Freed(s)
  BY <1>1, <1>2, <1>4, FreedMedia DEF CleanAt
<1>6. SameIndex /\ ~Extending /\ ~Extending' /\ OneLink(s) /\ RecsKept
      /\ media'[s].link = 0 /\ ~Used(s)'
  <2>1. ~media'[s].index
    <3>1. LinkSet(media', s, 0, 0)
      BY <1>1, <1>2, <1>4, SetNextLemma, Sizes, Volume DEF StoreOK, CleanAt
    <3> QED
      BY <3>1 DEF LinkSet
  <2> QED
    BY <1>1, <1>2, <1>4, <1>5, <2>1, Volume DEF SameIndex, OneLink, Extending, Freed, CleanAt,
                                                Used
<1>7. Indexed'
  <2>1. pc' \notin {"find", "add"}
    BY <1>4
  <2> QED
    BY <1>6, <2>1, IndexedStays DEF WholeInv
<1>11. loc'.op = loc.op /\ loc'.head = h0 /\ loc'.ptr = (IF EndsChain(s) THEN h0 ELSE l)
  BY <1>1, <1>4, <1>10 DEF CallSet
<1>8. Accounted'
  <2>1. \A h \in Heads : h = s \/ h \in Heads'
    <3>1. Recs' = Recs /\ \A p \in Recs : RecordAt(p)' = RecordAt(p)
      BY <1>6 DEF RecsKept
    <3> QED
      BY <1>1, <1>2, <3>1 DEF Heads, CleanAt
  <2>2. \A x \in ChainOf(s)' : x = s
    BY <1>6, AloneNext DEF Alone
  <2>3. ASSUME NEW x \in DataSectors, Used(x)' PROVE \E h \in Heads' : x \in ChainOf(h)'
    <3>1. x # s
      BY <1>6, <2>3
    <3>2. Heads \subseteq DataSectors
      BY HeadsTypes DEF WholeInv
    <3>3. \/ \E h \in Heads : x \in ChainOf(h)'
          \/ l \in DataSectors \ {s} /\ x \in ChainOf(l)'
      BY <1>1, <1>3, <1>6, <2>3, <3>1, <3>2, HeadsAfter DEF WholeInv, Accounted
    <3>4. ASSUME l \in DataSectors \ {s} PROVE l \in Heads'
      <4>1. pc' = "clean" /\ loc'.ptr = l
        BY <1>3, <1>4, <1>11, <3>4, Volume DEF EndsChain
      <4> QED
        BY <4>1 DEF Heads
    <3> QED
      BY <2>1, <2>2, <3>1, <3>3, <3>4
  <2>4. loc.op = "delete" => media'[h0].link = 0
    <3>1. CASE h0 = s
      BY <1>6, <3>1
    <3>2. CASE h0 # s
      <4>1. loc.op = "delete" => media[h0].link = 0
        BY <1>1, <1>2, <1>10, <3>2 DEF WholeInv, Accounted, CleanAt
      <4> QED
        BY <1>6, <3>2, <4>1 DEF OneLink
    <3> QED
      BY <3>1, <3>2
  <2>5. pc' = "erase" => loc.op = "delete"
    BY <1>4
  <2> QED
    BY <1>1, <1>11, <2>3, <2>4, <2>5 DEF Accounted
<1>9. NamesOK'
  BY <1>4, <1>6, NamesStay DEF WholeInv, RecsKept
<1> QED
  BY <1>7, <1>8, <1>9 DEF WholeInv

LEMMA DelRecordWhole ==
  ASSUME WholeInv, IInv', FaultFree, DelRecord
  PROVE  WholeInv'
<1>1. /\ pc = "erase" /\ file' = file /\ file = NoFile /\ ~IoErrors /\ loc.op = "delete"
      /\ loc \in CallSet /\ StoreOK /\ StoreOK'
  BY DEF DelRecord, FaultFree, WholeInv, IInv, OpsOK
<1>2. PICK a \in Sectors, i \in Slots :
        a = loc.at /\ i = loc.slot /\ i \in SlotsOf(a) /\ media[a].index
  BY <1>1, HeadLemma, Volume DEF WholeInv
<1>3. PICK h0 \in DataSectors : h0 = loc.head /\ RecordAt(<<a, i>>).fptr = h0
  BY <1>1, <1>2, HeadLemma DEF WholeInv
<1>4. /\ pc' = "find" /\ loc' = [loc EXCEPT !.slot = i + 1]
      /\ media' = [media EXCEPT ![a].recs[i] = Erased]
  <2>1. IsIndex(a)
    BY <1>1, <1>2 DEF IsIndex, StoreOK, MarksOK
  <2> QED
    BY <1>1, <1>2, <2>1 DEF DelRecord, Write
<1>5. /\ Recs' = Recs \ {<<a, i>>} /\ \A p \in Recs' : RecordAt(p)' = RecordAt(p)
  BY <1>1, <1>2, <1>4, ErasedRecordMedia
<1>6. \A x \in Sectors : /\ media'[x].index = media[x].index /\ media'[x].link = media[x].link
                         /\ media'[x].next = media[x].next
  BY <1>1, <1>4 DEF StoreOK, SectorSet
<1>7. loc'.at = a /\ loc'.op = "delete"
  BY <1>1, <1>2, <1>4 DEF CallSet
<1>8. Indexed'
  <2>1. SameIndex /\ ~Extending /\ ~Extending'
    BY <1>1, <1>4, <1>6 DEF SameIndex, Extending
  <2> QED
    BY <1>2, <1>4, <1>7, <2>1, IndexedStays DEF WholeInv
<1>9. \A x \in DataSectors : media'[x].link = media[x].link
  BY <1>6, Volume
<1>10. Accounted'
  <2>1. ASSUME NEW x \in DataSectors, Used(x)' PROVE \E h \in Heads' : x \in ChainOf(h)'
    <3>1. Used(x)
      BY <1>9, <2>1 DEF Used
    <3>2. PICK h \in Heads : x \in ChainOf(h)
      BY <3>1 DEF WholeInv, Accounted
    <3>3. media[h0].link = 0
      BY <1>1, <1>3 DEF WholeInv, Accounted
    <3>4. h # h0
      BY <3>1, <3>2, <3>3, ChainAlone DEF Used
    <3>5. PICK p \in Recs : h = RecordAt(p).fptr
      BY <1>1, <3>2 DEF Heads
    <3>6. p \in Recs' /\ h = RecordAt(p)'.fptr
      BY <1>3, <1>5, <3>4, <3>5
    <3>7. h \in Heads'
      BY <3>6 DEF Heads
    <3>8. ChainOf(h)' = ChainOf(h)
      BY <1>9 DEF ChainOf
    <3> QED
      BY <3>2, <3>7, <3>8
  <2> QED
    BY <1>1, <1>4, <2>1 DEF Accounted
<1>11. NamesOK'
  <2>1. Recs' \subseteq Recs /\ loc'.op \notin CreatingModes /\ ~Extending'
    BY <1>4, <1>5, <1>7, CallsLemma DEF Extending
  <2> QED
    BY <1>4, <1>5, <2>1, NamesStay DEF WholeInv
<1> QED
  BY <1>8, <1>10, <1>11 DEF WholeInv

LEMMA ClaimNextWhole ==
  ASSUME WholeInv, IInv', FaultFree, ClaimNext
  PROVE  WholeInv'
<1>1. /\ pc = "write" /\ file' = file /\ file # NoFile /\ ~IoErrors
      /\ loc \in CallSet /\ StoreOK /\ StoreOK' /\ \A p : ~Deleting(p)
      /\ file.sect \in DataSectors /\ Used(file.sect) /\ ~Extending
  BY FileLemma, NotDeleting
     DEF ClaimNext, Write, GiveUpWriting, FaultFree, WholeInv, IInv, OpsOK, Extending
<1>2. CASE GiveUpWriting /\ UNCHANGED media
  <2>1. pc' = "idle" /\ ~Extending'
    BY <1>2 DEF GiveUpWriting, Finish, Extending
  <2>2. file' # NoFile /\ file'.mode \in WritingModes =>
          media[file'.sect].link \in {file'.sect, LAST}
    BY <1>1 DEF WholeInv, Accounted
  <2> QED
    BY <1>1, <1>2, <2>1, <2>2, QuietStep
<1>3. CASE /\ FreeData # {} /\ media' = Claimed(Min(FreeData)) /\ pc' = "chain"
           /\ loc' = [loc EXCEPT !.sect = Min(FreeData)]
  <2>1. PICK s \in DataSectors : s = Min(FreeData) /\ Free(s)
    BY <1>3, FreeDataLemma
  <2>2. FreshlyClaimed(s) /\ ~media[s].index /\ ~Used(s)
    BY <1>1, <1>3, <2>1, ClaimMedia, FreeLemma DEF WholeInv, IInv
  <2>3. loc'.sect = s
    BY <1>1, <1>3, <2>1 DEF CallSet
  <2>4. ~media'[s].index /\ s \in Sectors /\ media[s].link = 0
    BY <1>1, <2>1, <2>2, Volume DEF FreshlyClaimed, StoreOK, MarksOK, Free
  <2>5. SameIndex /\ ~Extending' /\ OneLink(s)
    BY <1>3, <2>2, <2>4, Volume DEF SameIndex, FreshlyClaimed, Extending, OneLink
  <2>6. Indexed'
    BY <1>1, <1>3, <2>5, IndexedStays DEF WholeInv
  <2>7. RecsKept /\ media'[s].link = s
    BY <2>2 DEF FreshlyClaimed
  <2>8. Accounted'
    <3>1. Heads' = Heads \union {s}
      BY <1>1, <1>3, <2>3, <2>7 DEF Heads, RecsKept
    <3>2. \A x \in DataSectors \ {s} : Used(x)' => \E h \in Heads : x \in ChainOf(h)'
      <4>1. 0 \in Sectors /\ 0 \notin DataSectors /\ Heads \subseteq DataSectors
        BY Volume, HeadsTypes DEF WholeInv
      <4> QED
        BY <1>1, <2>1, <2>4, <2>5, <4>1, HeadsAfter DEF WholeInv, Accounted
    <3>3. s \in ChainOf(s)'
      BY <1>1, <2>1, ChainForthNext
    <3>4. \A x \in DataSectors : Used(x)' => \E h \in Heads' : x \in ChainOf(h)'
      BY <3>1, <3>2, <3>3
    <3>5. file'.mode \in WritingModes => media'[file'.sect].link \in {file'.sect, LAST}
      BY <1>1, <2>2, <2>5 DEF OneLink, WholeInv, Accounted
    <3> QED
      BY <1>1, <1>3, <3>4, <3>5 DEF Accounted
  <2>9. NamesOK'
    BY <1>3, <2>5, <2>7, NamesStay DEF WholeInv, RecsKept
  <2> QED
    BY <2>6, <2>8, <2>9 DEF WholeInv
<1> QED
  BY <1>1, <1>2, <1>3 DEF ClaimNext, Write

LEMMA ChainWhole ==
  ASSUME WholeInv, IInv', FaultFree, Chain
  PROVE  WholeInv'
<1>1. /\ pc = "chain" /\ file # NoFile /\ ~IoErrors /\ loc \in CallSet /\ StoreOK /\ StoreOK'
      /\ file.mode \in WritingModes /\ \A p : ~Deleting(p)
  BY NotDeleting DEF Chain, FaultFree, WholeInv, IInv, OpsOK, FileOK
<1>2. PICK s \in DataSectors : s = file.sect /\ Used(s) /\ ~media[s].index
  BY <1>1, FileLemma DEF WholeInv
<1>3. PICK t \in DataSectors : t = loc.sect /\ t # s /\ Used(t) /\ media[t].link = t
  BY <1>1, <1>2 DEF WholeInv, IInv, CallOK, Used
<1>4. /\ media' = Linked(s, t) /\ pc' = "write"
      /\ file' = [file EXCEPT !.buf = EmptyData(t), !.sect = t, !.dataSect = t, !.off = 0]
  BY <1>1, <1>2, <1>3 DEF Chain, Write
<1>5. PICK c \in Bytes : c = Count(media[s])
  BY <1>1, <1>2, Volume, SectorFields DEF StoreOK
<1>6. LinkSet(media', s, t, c)
  BY <1>1, <1>2, <1>4, <1>5, SetNextLemma, Volume DEF Linked, StoreOK
<1>7. PICK l \in Sectors : l = media[s].link /\ l \in {s, LAST}
  BY <1>1, <1>2, Volume, SectorFields DEF StoreOK, WholeInv, Accounted
<1>8. /\ SameIndex /\ ~Extending /\ ~Extending' /\ OneLink(s) /\ RecsKept
      /\ media'[s].link = t /\ media'[t].link = t
  <2>1. /\ \A x \in Sectors \ {s} : media'[x] = media[x]
        /\ ~media'[s].index /\ media'[s].link = t /\ s \in Sectors /\ t \in Sectors
    BY <1>6, Volume DEF LinkSet
  <2>2. {s} \in SUBSET Sectors
    BY <2>1
  <2>3. RecsKept
    BY <1>2, <2>1, <2>2, RecsKeptLemma
  <2> QED
    BY <1>1, <1>2, <1>3, <1>4, <2>1, <2>3, Volume DEF SameIndex, OneLink, Extending
<1>9. Indexed'
  BY <1>4, <1>8, IndexedStays DEF WholeInv
<1>10. (\A h \in Heads : h = t \/ h \in Heads') /\ Heads' \subseteq Heads
  <2>1. Recs' = Recs /\ \A p \in Recs : RecordAt(p)' = RecordAt(p)
    BY <1>8 DEF RecsKept
  <2> QED
    BY <1>1, <1>3, <1>4, <2>1 DEF Heads
<1>11. ASSUME NEW x \in DataSectors \ {t}, Used(x)' PROVE \E h \in Heads' : x \in ChainOf(h)'
  <2>1. Used(x)
    BY <1>2, <1>8, <1>11 DEF OneLink, Used
  <2>2. PICK h \in Heads : x \in ChainOf(h)
    BY <2>1 DEF WholeInv, Accounted
  <2>3. h \in DataSectors
    BY HeadsTypes DEF WholeInv
  <2>4. h # t
    BY <1>3, <1>11, <2>2, ChainAlone
  <2>5. l \notin DataSectors \ {s}
    BY <1>7, Volume
  <2>6. x \in ChainOf(h)'
    BY <1>1, <1>7, <1>8, <2>2, <2>3, <2>5, ChainCut
  <2> QED
    BY <1>10, <2>4, <2>6
<1>12. \E h \in Heads' : t \in ChainOf(h)'
  <2>1. Used(s)'
    BY <1>2, <1>3, <1>8, Volume DEF Used
  <2>2. PICK h \in Heads' : s \in ChainOf(h)'
    BY <1>3, <1>11, <2>1
  <2>3. h \in DataSectors
    BY <1>10, HeadsTypes DEF WholeInv
  <2>4. media'[s].link \in ChainOf(h)' \union {0, LAST}
    BY <1>1, <2>2, <2>3, ChainForthNext
  <2> QED
    BY <1>8, <2>4, Volume
<1>13. Accounted'
  <2>1. file'.sect = t
    BY <1>1, <1>4, FileLemma DEF FileSet, WholeInv
  <2> QED
    BY <1>4, <1>8, <1>11, <1>12, <2>1 DEF Accounted
<1>14. NamesOK'
  BY <1>4, <1>8, NamesStay DEF WholeInv, RecsKept
<1> QED
  BY <1>9, <1>13, <1>14 DEF WholeInv

\* The first page of the cached sector, or of a new index sector.
LEMMA WriteFirstPageWhole ==
  ASSUME WholeInv, IInv', FaultFree, WriteFirstPage
  PROVE  WholeInv'
<1>1. /\ pc = "page0" /\ ~IoErrors /\ IInv /\ loc \in CallSet /\ StoreOK /\ StoreOK'
      /\ pc' = "page1" /\ loc' = loc /\ file' = file
  BY DEF WriteFirstPage, Write, Goto, FaultFree, WholeInv, IInv
<1>2. PICK s \in Sectors, b \in SectorSet : s = loc.at /\ b = Image /\ ~media[s].index
  <2>1. CASE file = NoFile
    BY <1>1, <2>1, NewIndexLemma, EmptyTypes
  <2>2. CASE file # NoFile
    BY <1>1, <2>2, FlushLemma, FileLemma, Volume
  <2> QED
    BY <2>1, <2>2
<1>3. media' = [media EXCEPT ![s] = FirstPage(@, b)]
  BY <1>1, <1>2 DEF WriteFirstPage, Write
<1>4. RecsKept
  BY <1>1, <1>2, <1>3, FirstPageMedia DEF StoreKept
<1>5. SameLinks(media') /\ \A x \in Sectors \ {s} : media'[x] = media[x]
  BY <1>1, <1>3, FirstPageLemma DEF StoreOK
<1>6. SameIndex /\ \A x \in DataSectors : media'[x].link = media[x].link
  BY <1>2, <1>5, Volume DEF SameIndex, SameLinks
<1>7. Extending' <=> Extending
  BY <1>1 DEF Extending
<1>8. Indexed'
  BY <1>1, <1>6, <1>7, IndexedStays DEF WholeInv
<1>9. Accounted'
  <2>1. Heads \subseteq Heads'
    <3>1. Recs' = Recs /\ \A p \in Recs : RecordAt(p)' = RecordAt(p)
      BY <1>4 DEF RecsKept
    <3> QED
      BY <1>1, <3>1 DEF Heads
  <2>2. file' # NoFile /\ file'.mode \in WritingModes =>
          media[file'.sect].link \in {file'.sect, LAST}
    BY <1>1 DEF WholeInv, Accounted
  <2> QED
    BY <1>1, <1>6, <2>1, <2>2, AccountedStays DEF WholeInv
<1>10. NamesOK'
  <2>1. CASE Extending
    BY <1>1, <1>4, <2>1, NamesKept DEF WholeInv
  <2>2. CASE ~Extending
    BY <1>1, <1>4, <1>7, <2>2, NamesStay DEF WholeInv, RecsKept
  <2> QED
    BY <2>1, <2>2
<1> QED
  BY <1>8, <1>9, <1>10 DEF WholeInv

\* The index gets a sector, to which its last one leads already.
LEMMA NewIndexWhole ==
  ASSUME WholeInv, IInv', FaultFree, WriteSecondPage, file = NoFile
  PROVE  WholeInv'
<1>1. /\ pc = "page1" /\ ~IoErrors /\ IInv /\ loc \in CallSet /\ StoreOK /\ StoreOK'
      /\ RecordsUsed /\ Extending
  BY DEF WriteSecondPage, FaultFree, WholeInv, IInv, Extending
<1>2. PICK s \in Sectors \ {0} : s = loc.at /\ Free(s)
  BY <1>1, NewIndexLemma
<1>3. /\ loc.op \in CreatingModes /\ Image = EmptyIndex /\ ~media[s].index
      /\ \A p : ~Deleting(p)
  BY <1>1, <1>2, NewIndexLemma
<1>4. /\ media' = [media EXCEPT ![s] = EmptyIndex] /\ SectorWritten
  BY <1>1, <1>2, <1>3 DEF WriteSecondPage, Write
<1>5. pc' = "add" /\ loc' = loc /\ file' = NoFile
  BY <1>3, <1>4, CallsLemma DEF SectorWritten, Goto
<1>6. RecsKept
  BY <1>1, <1>2, <1>3, <1>4, NewIndexMedia
<1>7. /\ media'[s].index /\ media'[s].next = 0 /\ media'[s].link = 0
      /\ \A x \in Sectors \ {s} : media'[x] = media[x]
  BY <1>1, <1>2, <1>4 DEF StoreOK, EmptyIndex
<1>8. IsIndex(s)'
  BY <1>7 DEF IsIndex
<1>9. IndexSectors \subseteq IndexSectors'
  <2>1. \A x \in Sectors : IsIndex(x) =>
           IsIndex(x)' /\ (media[x].next # 0 => media'[x].next = media[x].next)
    BY <1>3, <1>7 DEF IsIndex
  <2> QED
    BY <2>1, IndexGrow DEF IndexSectors
<1>10. \A x \in Sectors \ {s} : media'[x].index => x \in IndexSectors'
  BY <1>7, <1>9 DEF WholeInv, Indexed
<1>11. s \in IndexSectors'
  <2>1. PICK r \in Sectors : media[r].index /\ media[r].next = s
    BY <1>1, <1>2 DEF WholeInv, Indexed
  <2>2. r # s /\ media'[r] = media[r]
    BY <1>3, <1>7, <2>1
  <2>3. r \in IndexSectors' /\ IsIndex(r)' /\ media'[r].next = s
    BY <1>1, <1>10, <2>1, <2>2 DEF StoreOK, MarksOK, IsIndex
  <2> QED
    BY <1>2, <1>8, <2>3 DEF IndexSectors, IndexFrom
<1>12. ASSUME NEW x \in Sectors, media'[x].index, media'[x].next # 0
       PROVE  media'[media'[x].next].index
  <2>1. x # s /\ media'[x] = media[x]
    BY <1>7, <1>12
  <2>2. media[x].next \in Sectors
    BY <1>1, SectorFields DEF StoreOK
  <2>3. media[media[x].next].index \/ media[x].next = s
    BY <1>2, <1>12, <2>1 DEF WholeInv, Indexed
  <2> QED
    BY <1>7, <2>1, <2>2, <2>3
<1>13. Indexed'
  BY <1>2, <1>5, <1>7, <1>10, <1>11, <1>12 DEF Indexed, Extending
<1>14. Accounted'
  <2>1. Heads \subseteq Heads'
    <3>1. Recs' = Recs /\ \A p \in Recs : RecordAt(p)' = RecordAt(p)
      BY <1>6 DEF RecsKept
    <3> QED
      BY <1>1, <3>1 DEF Heads
  <2>2. \A x \in DataSectors : media'[x].link = media[x].link
    <3>1. media[s].link = 0
      BY <1>2 DEF Free
    <3> QED
      BY <1>7, <3>1, Volume
  <2> QED
    BY <1>1, <1>5, <2>1, <2>2, AccountedStays DEF WholeInv
<1>15. NamesOK'
  BY <1>1, <1>5, <1>6, NamesKept DEF WholeInv
<1> QED
  BY <1>13, <1>14, <1>15 DEF WholeInv

\* The cached sector stays the last of its file.
LEMMA FlushWhole ==
  ASSUME WholeInv, IInv', FaultFree, WriteSecondPage, file # NoFile
  PROVE  WholeInv'
<1>1. /\ pc = "page1" /\ ~IoErrors /\ IInv /\ loc \in CallSet /\ StoreOK /\ StoreOK'
      /\ ~Extending
  BY DEF WriteSecondPage, FaultFree, WholeInv, IInv, Extending
<1>2. PICK s \in DataSectors : s = file.sect /\ s = loc.at /\ Used(s) /\ ~media[s].index
  BY <1>1, FlushLemma, FileLemma
<1>3. PICK b \in SectorSet : b = file.buf /\ b = Image
  BY <1>1, FlushLemma, FileLemma
<1>4. /\ ~b.index /\ b.link \in {s, LAST} /\ loc.op \in {"none", "close"}
      /\ file.mode \in WritingModes
  BY <1>1, <1>2, <1>3, FlushLemma
<1>5. media' = [media EXCEPT ![s] = b] /\ SectorWritten
  BY <1>1, <1>2, <1>3 DEF WriteSecondPage, Write
<1>6. /\ pc' \in {"idle", "write"} /\ loc'.op = "none"
      /\ file' # NoFile => file'.sect = s
  <2>1. CASE loc.op = "close"
    BY <1>5, <2>1, CallsLemma DEF SectorWritten, Finish, NoCall
  <2>2. CASE loc.op = "none"
    <3>1. /\ pc' = "write" /\ loc' = NoCall
          /\ file' = [file EXCEPT !.changed = FALSE, !.off = DataSize]
      BY <1>5, <2>2 DEF SectorWritten
    <3>2. file'.sect = s
      BY <1>1, <1>2, <3>1, FileLemma DEF FileSet
    <3> QED
      BY <3>1, <3>2 DEF NoCall
  <2> QED
    BY <1>4, <2>1, <2>2
<1>7. PICK l \in Sectors : l = media[s].link /\ l \in {s, LAST}
  BY <1>1, <1>2, <1>4, Volume, SectorFields DEF StoreOK, WholeInv, Accounted
<1>8. /\ SameIndex /\ ~Extending' /\ OneLink(s) /\ RecsKept /\ media'[s].link \in {s, LAST}
  <2>1. /\ \A x \in Sectors \ {s} : media'[x] = media[x]
        /\ ~media'[s].index /\ media'[s].link \in {s, LAST} /\ s \in Sectors
    BY <1>1, <1>4, <1>5, Volume DEF StoreOK
  <2>2. {s} \in SUBSET Sectors
    BY <2>1
  <2>3. RecsKept
    BY <1>2, <2>1, <2>2, RecsKeptLemma
  <2> QED
    BY <1>2, <1>6, <2>1, <2>3, Volume DEF SameIndex, OneLink, Extending
<1>9. Indexed'
  BY <1>1, <1>6, <1>8, IndexedStays DEF WholeInv
<1>10. ASSUME NEW x \in DataSectors, Used(x)' PROVE \E h \in Heads' : x \in ChainOf(h)'
  <2>1. Used(x)
    BY <1>2, <1>8, <1>10 DEF OneLink, Used
  <2>2. PICK h \in Heads : x \in ChainOf(h)
    BY <2>1 DEF WholeInv, Accounted
  <2>3. h \in DataSectors
    BY HeadsTypes DEF WholeInv
  <2>4. l \notin DataSectors \ {s}
    BY <1>7, Volume
  <2>5. x \in ChainOf(h)'
    BY <1>1, <1>7, <1>8, <2>2, <2>3, <2>4, ChainCut
  <2>6. Heads \subseteq Heads'
    <3>1. Recs' = Recs /\ \A p \in Recs : RecordAt(p)' = RecordAt(p)
      BY <1>8 DEF RecsKept
    <3> QED
      BY <1>1, <3>1 DEF Heads
  <2> QED
    BY <2>5, <2>6
<1>11. Accounted'
  BY <1>6, <1>8, <1>10 DEF Accounted
<1>12. NamesOK'
  BY <1>6, <1>8, NamesStay DEF WholeInv, RecsKept
<1> QED
  BY <1>9, <1>11, <1>12 DEF WholeInv

-----------------------------------------------------------------------------
(* When nothing fails: the invariant *)

LEMMA WholeInit == Init => WholeInv
<1> SUFFICES ASSUME Init PROVE WholeInv
  OBVIOUS
<1>1. IInv /\ StoreOK
  BY InitIInv DEF IInv
<1>2. \A s \in Sectors : /\ media[s].link = 0 /\ media[s].next = 0
                         /\ media[s].index => s = 0
  BY Volume DEF Init, EmptyIndex, EmptyData
<1>3. Recs = {}
  <2>1. \A i \in Slots : media[0].recs[i] = Erased
    BY EmptyTypes, Volume DEF Init
  <2> QED
    BY <1>2, <2>1 DEF Recs, RecordAt
<1>4. pc = "idle" /\ file = NoFile
  BY DEF Init
<1>5. Indexed
  <2>1. IsIndex(0) /\ 0 \in Sectors
    BY <1>1, Volume, MarkedIndex DEF StoreOK, MarksOK
  <2>2. 0 \in IndexSectors
    BY <2>1 DEF IndexSectors, IndexFrom
  <2> QED
    BY <1>2, <1>4, <2>2 DEF Indexed, Extending
<1>6. Accounted
  <2>1. \A s \in DataSectors : ~Used(s)
    BY <1>2, Volume DEF Used
  <2> QED
    BY <1>4, <2>1 DEF Accounted
<1>7. NamesOK
  BY <1>3, <1>4 DEF NamesOK, Extending
<1> QED
  BY <1>1, <1>5, <1>6, <1>7 DEF WholeInv

LEMMA WholeNext ==
  ASSUME FaultFree, WholeInv, [Next]_vars
  PROVE  WholeInv'
<1>1. SafeCalls
  BY DEF SafeCalls, FaultFree
<1>2. IInv /\ IInv'
  BY <1>1, NextInv DEF WholeInv
<1>3. CASE \E n \in Names, mode \in Modes : Open(n, mode)
  BY <1>2, <1>3, OpenWhole
<1>4. CASE \E names \in Deletes : Delete(names)
  BY <1>2, <1>4, DeleteWhole
<1>5. CASE \/ (\E d \in Writes : CallWrite(d)) \/ (\E k \in Reads : CallRead(k))
           \/ Close \/ Fill \/ WriteReturns \/ ReadStep
  BY <1>2, <1>5, FileSteps
<1>6. CASE Find \/ Add \/ AddRecord \/ Truncate \/ Clean \/ DelRecord \/ FindEof \/ Load
  BY <1>2, <1>6, FindWhole, AddWhole, AddRecordWhole, TruncateWhole, CleanWhole,
     DelRecordWhole, FindEofWhole, LoadWhole
<1>7. CASE ClaimNext \/ Chain \/ WriteFirstPage \/ WriteSecondPage
  BY <1>2, <1>7, ClaimNextWhole, ChainWhole, WriteFirstPageWhole, NewIndexWhole, FlushWhole
<1>8. ~Format /\ ~PowerCut /\ ~Release
  BY <1>2 DEF Format, PowerCut, Release, FaultFree, IInv, OpsOK
<1>9. CASE UNCHANGED vars
  <2>1. media' = media /\ pc' = pc /\ loc' = loc /\ file' = file
    BY <1>9 DEF vars
  <2>2. Recs' = Recs /\ \A p : RecordAt(p)' = RecordAt(p)
    BY <2>1 DEF Recs, RecordAt
  <2>3. Indexed'
    BY <2>1 DEF WholeInv, Indexed, Extending, IndexSectors, IndexFrom, IsIndex
  <2>4. Accounted'
    BY <2>1, <2>2 DEF WholeInv, Accounted, Heads, Used, ChainOf
  <2>5. NamesOK'
    BY <2>1, <2>2 DEF WholeInv, NamesOK, Named, Extending, IndexFrom, IsIndex
  <2> QED
    BY <1>2, <2>3, <2>4, <2>5 DEF WholeInv
<1> QED
  BY <1>3, <1>4, <1>5, <1>6, <1>7, <1>8, <1>9 DEF Next, CallStep

\* When nothing fails, the store is whole after every step: the index is one
\* list, every sector of a file can be reached from a record or from the call
\* that is at work on it, and no two records have one name.
THEOREM StoreIsWhole == ASSUME FaultFree PROVE Spec => []WholeInv
<1>1. Init => WholeInv
  BY WholeInit
<1>2. WholeInv /\ [Next]_vars => WholeInv'
  BY WholeNext
<1> QED
  BY <1>1, <1>2, PTL DEF Spec

\* When nothing fails no sector is lost: between calls a sector that is not
\* free and none of the index belongs to a file, and one that belongs to a file
\* is not free.
THEOREM SectorsAccountedFor == ASSUME FaultFree PROVE Spec => []EverySectorAccountedFor
<1>1. ASSUME WholeInv PROVE EverySectorAccountedFor
  <2> SUFFICES ASSUME pc = "idle", NEW s \in DataSectors \ IndexSectors
               PROVE  ~Free(s) <=> \E p \in Positions : s \in ChainOf(RecordAt(p).fptr)
    BY DEF EverySectorAccountedFor
  <2>1. IInv /\ StoreOK /\ s \in Sectors
    BY <1>1, Volume DEF WholeInv, IInv
  <2>2. ASSUME ~Free(s) PROVE \E p \in Positions : s \in ChainOf(RecordAt(p).fptr)
    <3>1. ~media[s].index
      BY <1>1, <2>1 DEF WholeInv, Indexed
    <3>2. Used(s)
      BY <2>1, <2>2, <3>1 DEF Used, Free, StoreOK, MarksOK
    <3>3. PICK h \in Heads : s \in ChainOf(h)
      BY <1>1, <3>2 DEF WholeInv, Accounted
    <3>4. PICK p \in Recs : h = RecordAt(p).fptr
      BY <3>3 DEF Heads
    <3>5. p \in Positions
      BY <1>1, <3>4 DEF Recs, Positions, RecordAt, WholeInv, Indexed
    <3> QED
      BY <3>3, <3>4, <3>5
  <2>3. ASSUME NEW p \in Positions, s \in ChainOf(RecordAt(p).fptr) PROVE ~Free(s)
    <3>1. p \in Recs /\ RecordAt(p).fptr \in DataSectors
      BY <2>1, PositionsLemma
    <3>2. Used(RecordAt(p).fptr)
      BY <2>1, <3>1 DEF IInv, RecordsUsed, Deleting
    <3>3. Used(s)
      BY <2>1, <2>3, <3>1, <3>2, ChainUsed
    <3> QED
      BY <3>3 DEF Used, Free
  <2> QED
    BY <2>2, <2>3
<1> QED
  BY <1>1, StoreIsWhole, PTL

\* When nothing fails a name has one record, however often files are opened,
\* created and deleted.
THEOREM OneRecordPerNameCorrect == ASSUME FaultFree PROVE Spec => []OneRecordPerName
<1>1. ASSUME WholeInv PROVE OneRecordPerName
  <2>1. \A p \in Positions : p \in Recs
    BY <1>1, PositionsLemma DEF WholeInv
  <2>2. \A p, q \in Recs : RecordAt(p).name = RecordAt(q).name => p = q
    BY <1>1 DEF WholeInv, NamesOK
  <2> QED
    BY <2>1, <2>2 DEF OneRecordPerName
<1> QED
  BY <1>1, StoreIsWhole, PTL

-----------------------------------------------------------------------------
(* What the sectors of a file hold *)

\* On m, p is the way along the links from sector h to sector e, of k sectors,
\* and the sectors before the i-th on it hold c[i].
Way(m, h, e, k, p, c) ==
  /\ k \in Nat \ {0} /\ p \in [1..k -> DataSectors] /\ c \in [1..k -> Seq(Bytes)]
  /\ p[1] = h /\ p[k] = e /\ c[1] = <<>>
  /\ \A i, j \in 1..k : p[i] = p[j] => i = j
  /\ \A i \in 1..k-1 : m[p[i]].link = p[i+1] /\ c[i+1] = c[i] \o m[p[i]].data

\* On m, the sectors of a file from h up to e, without e, hold d.
Before(m, h, e, d) == \E k, p, c : Way(m, h, e, k, p, c) /\ d = c[k]

LEMMA WayStart ==
  ASSUME NEW m, NEW h \in DataSectors
  PROVE  Before(m, h, h, <<>>)
<1> DEFINE p == [i \in 1..1 |-> h]
           c == [i \in 1..1 |-> <<>>]
<1>1. Way(m, h, h, 1, p, c)
  <2>1. <<>> \in Seq(Bytes)
    OBVIOUS
  <2> QED
    BY <2>1 DEF Way
<1>2. c[1] = <<>>
  OBVIOUS
<1> QED
  BY <1>1, <1>2 DEF Before

LEMMA BeforeTypes ==
  ASSUME NEW m, NEW h, NEW e, NEW d, Before(m, h, e, d)
  PROVE  d \in Seq(Bytes) /\ h \in DataSectors /\ e \in DataSectors
<1>1. PICK k, p, c : Way(m, h, e, k, p, c) /\ d = c[k]
  BY DEF Before
<1>2. 1 \in 1..k /\ k \in 1..k
  BY <1>1 DEF Way
<1> QED
  BY <1>1, <1>2 DEF Way

\* The way goes on to a sector that no other one leads to.
LEMMA WayOn ==
  ASSUME NEW m, NEW h, NEW e, NEW d, Before(m, h, e, d), NEW t \in DataSectors,
         m[e].link = t, t # e, t # h, \A s \in DataSectors \ {e, t} : m[s].link # t,
         m[e].data \in Seq(Bytes)
  PROVE  Before(m, h, t, d \o m[e].data)
<1>1. PICK k, p, c : Way(m, h, e, k, p, c) /\ d = c[k]
  BY DEF Before
<1> DEFINE q == [i \in 1..k+1 |-> IF i = k + 1 THEN t ELSE p[i]]
           b == [i \in 1..k+1 |-> IF i = k + 1 THEN d \o m[e].data ELSE c[i]]
<1>2. /\ k \in Nat \ {0} /\ p \in [1..k -> DataSectors] /\ c \in [1..k -> Seq(Bytes)]
      /\ p[1] = h /\ p[k] = e /\ c[1] = <<>>
      /\ \A i, j \in 1..k : p[i] = p[j] => i = j
      /\ \A i \in 1..k-1 : m[p[i]].link = p[i+1] /\ c[i+1] = c[i] \o m[p[i]].data
  BY <1>1 DEF Way
<1>3. d \o m[e].data \in Seq(Bytes)
  BY <1>1, BeforeTypes
<1>4. \A i \in 1..k : p[i] # t
  <2> SUFFICES ASSUME NEW i \in 1..k, p[i] = t PROVE FALSE
    OBVIOUS
  <2>1. i # 1 /\ i # k
    BY <1>2
  <2>2. i \in 1..k /\ i - 1 \in 1..k /\ i - 1 \in 1..k-1 /\ (i - 1) + 1 = i
    BY <1>2, <2>1
  <2>3. m[p[i-1]].link = t
    BY <1>2, <2>2
  <2>4. p[i-1] # t /\ p[i-1] # e /\ p[i-1] \in DataSectors
    BY <1>2, <2>1, <2>2
  <2> QED
    BY <2>3, <2>4
<1>5. q \in [1..k+1 -> DataSectors] /\ b \in [1..k+1 -> Seq(Bytes)]
  <2> HIDE DEF Before
  <2>1. \A i \in 1..k+1 : i # k + 1 => i \in 1..k
    BY <1>2
  <2>2. \A i \in 1..k+1 : (IF i = k + 1 THEN t ELSE p[i]) \in DataSectors
    BY <1>2, <2>1
  <2>3. \A i \in 1..k+1 : (IF i = k + 1 THEN d \o m[e].data ELSE c[i]) \in Seq(Bytes)
    BY <1>2, <1>3, <2>1
  <2> QED
    BY <2>2, <2>3
<1>6. /\ \A i \in 1..k : q[i] = p[i] /\ b[i] = c[i]
      /\ q[k+1] = t /\ b[k+1] = d \o m[e].data
      /\ k + 1 \in Nat \ {0} /\ 1 \in 1..k /\ k \in 1..k
  <2>1. k \in Nat /\ k + 1 \in Nat \ {0} /\ 1 \in 1..k /\ k \in 1..k /\ k + 1 \in 1..k+1
    BY <1>2
  <2>2. \A i \in 1..k : i \in 1..k+1 /\ i # k + 1
    BY <2>1
  <2>3. q[k+1] = t /\ b[k+1] = d \o m[e].data
    BY <2>1
  <2>4. \A i \in 1..k : q[i] = p[i] /\ b[i] = c[i]
    BY <2>2
  <2> QED
    BY <2>1, <2>3, <2>4
<1> HIDE DEF q, b
<1>7. \A i, j \in 1..k+1 : q[i] = q[j] => i = j
  <2> SUFFICES ASSUME NEW i \in 1..k+1, NEW j \in 1..k+1, q[i] = q[j] PROVE i = j
    OBVIOUS
  <2>1. (i \in 1..k \/ i = k + 1) /\ (j \in 1..k \/ j = k + 1)
    BY <1>2
  <2> QED
    BY <1>2, <1>4, <1>6, <2>1
<1>8. ASSUME NEW i \in 1..(k+1)-1
      PROVE  m[q[i]].link = q[i+1] /\ b[i+1] = b[i] \o m[q[i]].data
  <2>1. i \in 1..k /\ (i = k \/ (i \in 1..k-1 /\ i + 1 \in 1..k))
    BY <1>2
  <2>2. CASE i = k
    BY <1>1, <1>2, <1>6, <2>2
  <2>3. CASE i \in 1..k-1 /\ i + 1 \in 1..k
    BY <1>2, <1>6, <2>1, <2>3
  <2> QED
    BY <2>1, <2>2, <2>3
<1>9. Way(m, h, t, k + 1, q, b)
  BY <1>2, <1>5, <1>6, <1>7, <1>8 DEF Way
<1> QED
  BY <1>6, <1>9 DEF Before

\* It is the same way as long as its sectors before the last keep what they hold.
LEMMA WayKept ==
  ASSUME NEW m, NEW n, NEW h, NEW e, NEW d, Before(m, h, e, d),
         \A s \in DataSectors \ {e} : m[s].link \in DataSectors =>
            n[s].link = m[s].link /\ n[s].data = m[s].data
  PROVE  Before(n, h, e, d)
<1>1. PICK k, p, c : Way(m, h, e, k, p, c) /\ d = c[k]
  BY DEF Before
<1>2. /\ k \in Nat \ {0} /\ p \in [1..k -> DataSectors] /\ c \in [1..k -> Seq(Bytes)]
      /\ p[1] = h /\ p[k] = e /\ c[1] = <<>>
      /\ \A i, j \in 1..k : p[i] = p[j] => i = j
      /\ \A i \in 1..k-1 : m[p[i]].link = p[i+1] /\ c[i+1] = c[i] \o m[p[i]].data
  BY <1>1 DEF Way
<1>3. ASSUME NEW i \in 1..k-1
      PROVE  n[p[i]].link = p[i+1] /\ c[i+1] = c[i] \o n[p[i]].data
  <2>1. i \in 1..k /\ i + 1 \in 1..k /\ k \in 1..k /\ i # k
    BY <1>2
  <2>2. p[i] \in DataSectors \ {e} /\ p[i+1] \in DataSectors
    BY <1>2, <2>1
  <2>3. m[p[i]].link = p[i+1] /\ c[i+1] = c[i] \o m[p[i]].data
    BY <1>2
  <2> QED
    BY <2>2, <2>3
<1>4. Way(n, h, e, k, p, c)
  BY <1>2, <1>3 DEF Way
<1> QED
  BY <1>1, <1>4 DEF Before

\* It is no longer than there are sectors.
LEMMA WayShort ==
  ASSUME NEW m, NEW h, NEW e, NEW k, NEW p, NEW c, Way(m, h, e, k, p, c)
  PROVE  k <= SectorCount
<1>1. /\ k \in Nat \ {0} /\ p \in [1..k -> DataSectors]
      /\ \A i, j \in 1..k : p[i] = p[j] => i = j
  BY DEF Way
<1>2. SectorCount \in Nat /\ DataSectors = 1..SectorCount-2
  BY Sizes DEF DataSectors
<1>3. IsFiniteSet(DataSectors) /\ Cardinality(DataSectors) <= SectorCount
  <2>1. 1 \in Int /\ SectorCount - 2 \in Int
    BY <1>2
  <2>2. /\ IsFiniteSet(1..SectorCount-2)
        /\ Cardinality(1..SectorCount-2) =
             IF 1 > SectorCount - 2 THEN 0 ELSE SectorCount - 2 - 1 + 1
    BY <2>1, FS_Interval
  <2>3. (IF 1 > SectorCount - 2 THEN 0 ELSE SectorCount - 2 - 1 + 1) <= SectorCount
    BY <1>2
  <2> QED
    BY <1>2, <2>2, <2>3
<1>4. IsFiniteSet(1..k) /\ Cardinality(1..k) = k
  BY <1>1, FS_Interval
<1> SUFFICES ASSUME ~(k <= SectorCount) PROVE FALSE
  OBVIOUS
<1>5. Cardinality(DataSectors) \in Nat
  BY <1>3, FS_CardinalityType
<1>6. Cardinality(DataSectors) < Cardinality(1..k)
  BY <1>1, <1>2, <1>3, <1>4, <1>5
<1>7. \E x, y \in 1..k : x # y /\ p[x] = p[y]
  BY <1>1, <1>3, <1>4, <1>6, FS_PigeonHole
<1> QED
  BY <1>1, <1>7

\* What a file holds is what the sectors before e hold, then what e holds, and
\* then the rest if e is not the last.
LEMMA WayContent ==
  ASSUME StoreOK, NEW h, NEW e, NEW d, Before(media, h, e, d)
  PROVE  \E r \in Seq(Bytes) : /\ Content(h) = d \o (Bytewise(e) \o r)
                               /\ media[e].link \in {e, 0, LAST} => r = <<>>
<1>1. PICK k, p, c : Way(media, h, e, k, p, c) /\ d = c[k]
  BY DEF Before
<1>2. /\ k \in Nat \ {0} /\ p \in [1..k -> DataSectors] /\ c \in [1..k -> Seq(Bytes)]
      /\ p[1] = h /\ p[k] = e /\ c[1] = <<>>
      /\ \A i, j \in 1..k : p[i] = p[j] => i = j
      /\ \A i \in 1..k-1 : media[p[i]].link = p[i+1] /\ c[i+1] = c[i] \o media[p[i]].data
  BY <1>1 DEF Way
<1>3. k <= SectorCount /\ SectorCount \in Nat
  BY <1>1, WayShort, Sizes
<1>4. PICK f : ContentUpTo(f) /\ \A x \in DataSectors : Content(x) = f[SectorCount][x]
  BY ContentLemma
<1>5. h \in DataSectors /\ e \in DataSectors /\ d \in Seq(Bytes)
  BY BeforeTypes
<1> DEFINE At(i) == Content(h) = c[i] \o f[SectorCount - (i - 1)][p[i]]
           W == {i \in Nat : i \in 1..k /\ ~At(i)}
<1>6. \A n \in 0..SectorCount : f[n] \in [DataSectors -> Seq(Bytes)]
  BY <1>4 DEF ContentUpTo
<1>7. ASSUME NEW n \in 1..SectorCount, NEW s \in DataSectors
      PROVE  f[n][s] = IF media[s].link \in {s, 0, LAST} THEN Bytewise(s)
                         ELSE Bytewise(s) \o f[n-1][media[s].link]
  <2>1. f[n] = LongerBy(f[n-1])
    BY <1>4 DEF ContentUpTo
  <2> QED
    BY <2>1, Zenon DEF LongerBy
<1>8. At(1)
  <2>1. SectorCount - (1 - 1) = SectorCount /\ SectorCount \in 0..SectorCount
    BY <1>3
  <2>2. f[SectorCount][h] \in Seq(Bytes)
    BY <1>5, <1>6, <2>1
  <2>3. <<>> \o f[SectorCount][h] = f[SectorCount][h]
    BY <2>2, ConcatEmptySeq
  <2>4. Content(h) = f[SectorCount][h]
    BY <1>4, <1>5
  <2> QED
    BY <1>2, <2>1, <2>3, <2>4
<1>9. ASSUME NEW i \in 1..k-1, At(i)
      PROVE  At(i + 1)
  <2>1. i \in 1..k /\ i + 1 \in 1..k
    BY <1>2
  <2>2. PICK n \in 1..SectorCount : n = SectorCount - (i - 1) /\ n - 1 = SectorCount - ((i + 1) - 1)
    BY <1>2, <1>3, <2>1
  <2>3. PICK s \in DataSectors, t \in DataSectors : s = p[i] /\ t = p[i+1] /\ s # t
    BY <1>2, <2>1
  <2>4. media[s].link = t /\ c[i+1] = c[i] \o media[s].data /\ t \notin {s, 0, LAST}
    BY <1>2, <2>3, Volume
  <2>5. Bytewise(s) = media[s].data /\ Bytewise(s) \in Seq(Bytes)
    BY <2>3, <2>4, BytewiseTypes DEF Bytewise
  <2>6. f[n][s] = media[s].data \o f[n-1][t]
    BY <1>7, <2>4, <2>5
  <2>7. n - 1 \in 0..SectorCount
    BY <1>3
  <2>8. f[n-1][t] \in Seq(Bytes) /\ c[i] \in Seq(Bytes)
    BY <1>2, <1>6, <2>1, <2>7
  <2>9. (c[i] \o media[s].data) \o f[n-1][t] = c[i] \o (media[s].data \o f[n-1][t])
    <3>1. PICK u \in Seq(Bytes), v \in Seq(Bytes), w \in Seq(Bytes) :
            u = c[i] /\ v = media[s].data /\ w = f[n-1][t]
      BY <2>5, <2>8
    <3>2. (u \o v) \o w = u \o (v \o w)
      BY ConcatAssociative
    <3> QED
      BY <3>1, <3>2
  <2>10. Content(h) = c[i] \o f[n][s]
    BY <1>9, <2>2, <2>3
  <2> QED
    BY <2>2, <2>3, <2>4, <2>6, <2>9, <2>10
<1> HIDE DEF At
<1>10. W = {}
  <2> SUFFICES ASSUME W # {} PROVE FALSE
    OBVIOUS
  <2>1. PICK i \in W : \A x \in W : i <= x
    <3>1. W \in SUBSET Nat
      OBVIOUS
    <3> HIDE DEF W
    <3> QED
      BY <3>1, LeastLemma
  <2>2. i # 1 /\ i \in 1..k /\ i \in Nat /\ ~At(i)
    BY <1>8, <2>1
  <2>3. i - 1 \in 1..k-1 /\ i - 1 \in Nat /\ i - 1 \in 1..k /\ ~(i <= i - 1) /\ (i - 1) + 1 = i
    BY <1>2, <2>2
  <2>4. At(i - 1)
    BY <2>1, <2>3
  <2>5. At((i - 1) + 1)
    BY <1>9, <2>3, <2>4
  <2> QED
    BY <2>2, <2>3, <2>5
<1>11. At(k)
  <2>1. k \in Nat /\ k \in 1..k
    BY <1>2
  <2> QED
    BY <1>10, <2>1
<1>12. PICK n \in 1..SectorCount : n = SectorCount - (k - 1)
  BY <1>2, <1>3
<1>13. Content(h) = d \o f[n][e]
  BY <1>1, <1>2, <1>11, <1>12 DEF At
<1>14. Bytewise(e) \in Seq(Bytes)
  BY <1>5, BytewiseTypes
<1>15. CASE media[e].link \in {e, 0, LAST}
  <2>1. f[n][e] = Bytewise(e)
    BY <1>5, <1>7, <1>15
  <2>2. Bytewise(e) \o <<>> = Bytewise(e) /\ <<>> \in Seq(Bytes)
    BY <1>14, ConcatEmptySeq
  <2> QED
    BY <1>13, <2>1, <2>2
<1>16. CASE media[e].link \notin {e, 0, LAST}
  <2>1. PICK t \in DataSectors : t = media[e].link
    BY <1>5, <1>16, Volume, SectorFields DEF StoreOK
  <2>2. f[n][e] = Bytewise(e) \o f[n-1][t]
    BY <1>5, <1>7, <1>16, <2>1
  <2>3. n - 1 \in 0..SectorCount
    BY <1>3
  <2>4. f[n-1][t] \in Seq(Bytes)
    BY <1>6, <2>3
  <2> QED
    BY <1>13, <1>16, <2>2, <2>4
<1> QED
  BY <1>15, <1>16

\* The bytes of a sector, and the first n of them.
LEMMA DataLemma ==
  ASSUME NEW b \in SectorSet
  PROVE  /\ b.data \in Seq(Bytes) /\ Len(b.data) = DataSize
         /\ SubSeq(b.data, 1, 0) = <<>> /\ SubSeq(b.data, 1, DataSize) = b.data
         /\ \A i \in 0..DataSize : \A j \in i..DataSize :
              SubSeq(b.data, i + 1, j) \in Seq(Bytes) /\ Len(SubSeq(b.data, i + 1, j)) = j - i
<1>1. DataSize \in Nat /\ b.data \in [1..DataSize -> Bytes]
  BY Sizes, SectorFields
<1>2. b.data \in Seq(Bytes) /\ Len(b.data) = DataSize
  BY <1>1
<1>3. SubSeq(b.data, 1, DataSize) = b.data
  BY <1>2, SubSeqFull
<1>4. SubSeq(b.data, 1, 0) = <<>>
  BY SubSeqEmpty
<1>5. ASSUME NEW i \in 0..DataSize, NEW j \in i..DataSize
      PROVE  SubSeq(b.data, i + 1, j) \in Seq(Bytes) /\ Len(SubSeq(b.data, i + 1, j)) = j - i
  <2>1. i + 1 \in Nat \ {0} /\ j \in Nat /\ j <= DataSize /\ i <= j /\ i \in Nat
    BY <1>1
  <2>2. SubSeq(b.data, i + 1, j) \in Seq(Bytes)
    BY <1>2, <2>1, PartTypes
  <2>3. \A x \in i+1..j : b.data[x] \in Bytes
    BY <1>1, <2>1
  <2>4. Len(SubSeq(b.data, i + 1, j)) = IF i + 1 <= j THEN j - (i + 1) + 1 ELSE 0
    BY <2>1, <2>3, SubSeqProperties
  <2> QED
    BY <2>1, <2>2, <2>4
<1> QED
  BY <1>2, <1>3, <1>4, <1>5

\* The first i bytes of a sector, and then those up to the j-th.
LEMMA DataJoins ==
  ASSUME NEW b \in SectorSet, NEW i \in 0..DataSize, NEW j \in i..DataSize
  PROVE  SubSeq(b.data, 1, i) \o SubSeq(b.data, i + 1, j) = SubSeq(b.data, 1, j)
<1>1. DataSize \in Nat /\ b.data \in Seq(Bytes) /\ Len(b.data) = DataSize
  BY Sizes, DataLemma
<1>2. 1 \in 1..Len(b.data)+1 /\ i \in 1-1..Len(b.data) /\ j \in i..Len(b.data)
  BY <1>1
<1> QED
  BY <1>1, <1>2, ConcatAdjacentSubSeq

LEMMA PartOf ==
  ASSUME NEW b \in SectorSet, NEW i \in 0..DataSize
  PROVE  SubSeq(b.data, 1, i) \in Seq(Bytes) /\ Len(SubSeq(b.data, 1, i)) = i
<1>1. 0 \in 0..DataSize /\ i \in 0..DataSize /\ i - 0 = i /\ 0 + 1 = 1
  BY Sizes
<1>2. \A j \in 0..DataSize :
         SubSeq(b.data, 0 + 1, j) \in Seq(Bytes) /\ Len(SubSeq(b.data, 0 + 1, j)) = j - 0
  BY <1>1, DataLemma
<1> QED
  BY <1>1, <1>2

LEMMA PrefixLemma ==
  ASSUME NEW q \in Seq(Bytes), NEW r \in Seq(Bytes)
  PROVE  IsPrefix(q, q \o r) /\ SubSeq(q \o r, 1, Len(q)) = q
<1>1. Len(q) \in Nat /\ Len(r) \in Nat /\ q \o r \in Seq(Bytes) /\ Len(q \o r) = Len(q) + Len(r)
  BY ConcatProperties, LenProperties
<1>2. SubSeq(q, 1, Len(q)) = q
  BY SubSeqFull
<1>3. SubSeq(q \o r, 1, Len(q)) = q
  <2>1. CASE Len(q) = 0
    <3>1. q = <<>>
      BY <2>1, EmptySeq
    <3>2. SubSeq(q \o r, 1, 0) = <<>>
      BY SubSeqEmpty
    <3> QED
      BY <2>1, <3>1, <3>2
  <2>2. CASE Len(q) # 0
    <3>1. 1 \in 1..Len(q) /\ Len(q) \in 1..Len(q)
      BY <1>1, <2>2
    <3>2. SubSeq(q \o r, 1, Len(q)) = SubSeq(q, 1, Len(q))
      BY <3>1, SubSeqOfConcat1
    <3> QED
      BY <1>2, <3>2
  <2> QED
    BY <2>1, <2>2
<1> QED
  BY <1>1, <1>2, <1>3 DEF IsPrefix

LEMMA Joins ==
  ASSUME NEW q \in Seq(Bytes), NEW r \in Seq(Bytes), NEW s \in Seq(Bytes)
  PROVE  (q \o r) \o s = q \o (r \o s) /\ q \o r \in Seq(Bytes) /\ q \o <<>> = q /\ <<>> \o q = q
BY ConcatAssociative, ConcatEmptySeq, ConcatProperties

\* What a file holds does not change as long as the media does not.
LEMMA ContentStays ==
  ASSUME media' = media, NEW h
  PROVE  Content(h)' = Content(h)
BY DEF Content, Count

LEMMA WayForth ==
  ASSUME StoreOK, NEW h, NEW e, NEW d, Before(media, h, e, d), NoLinkTo(h),
         NEW t \in DataSectors, t = media[e].link, t # e
  PROVE  Before(media, h, t, d \o media[e].data)
<1>1. e \in DataSectors /\ h \in DataSectors /\ e \in Sectors
  BY BeforeTypes, Volume
<1>2. media[e].data \in Seq(Bytes)
  BY <1>1, DataLemma DEF StoreOK
<1>3. t # h
  BY <1>1 DEF NoLinkTo
<1>4. \A s \in DataSectors \ {e, t} : media[s].link # t
  BY <1>1 DEF StoreOK, LinksOK
<1> QED
  BY <1>2, <1>3, <1>4, WayOn

-----------------------------------------------------------------------------
(* What a call knows of what the file holds *)

\* lf_open stands at the end of a way from the first sector on, a file it has emptied
\* holds nothing, and neither does a sector that has been claimed and not been used yet.
CallSoFar ==
  /\ pc \in {"eof", "load"} => \E d : Before(media, loc.head, loc.ptr, d)
  /\ pc = "load" /\ loc.op # "append" => loc.ptr = loc.head
  /\ pc = "load" /\ loc.op \in {"write", "create"} => media[loc.head].link = loc.head
  /\ pc \in {"load", "clean"} /\ loc.op \in {"write", "create"} => Count(media[loc.head]) = 0
  /\ pc \in {"record", "chain"} => Count(media[loc.sect]) = 0

LEMMA CallElsewhere ==
  ASSUME pc' \notin {"eof", "load", "clean", "record", "chain"}
  PROVE  CallSoFar'
BY DEF CallSoFar

LEMMA StandsAtHead ==
  ASSUME NEW h \in DataSectors, loc'.head = h, loc'.ptr = h,
         \/ pc' = "eof"
         \/ pc' = "load" /\ loc'.op = "read"
         \/ pc' = "load" /\ media'[h].link = h /\ Count(media'[h]) = 0
  PROVE  CallSoFar'
<1>1. Before(media', h, h, <<>>)
  BY WayStart
<1>2. (\E d : Before(media, loc.head, loc.ptr, d))'
  BY <1>1
<1> QED
  BY <1>2 DEF CallSoFar

LEMMA FindCall ==
  ASSUME IInv, Find
  PROVE  CallSoFar'
<1> DEFINE b == media[loc.at]
           matching == {i \in Slots : i >= loc.slot /\ b.recs[i] # Erased
                                        /\ b.recs[i].name \in loc.names}
<1>1. /\ pc = "find" /\ loc.op \in {"delete", "read"} \union WritingModes /\ StoreOK
      /\ loc.at \in Sectors /\ loc \in CallSet
  BY DEF Find, IInv, OpsOK, CallSet
<1>2. CASE /\ IsIndex(loc.at) /\ matching # {} /\ pc' = AfterFound
           /\ LET i == Min(matching)
              IN  loc' = [loc EXCEPT !.slot = i, !.head = b.recs[i].fptr,
                                     !.ptr = b.recs[i].fptr]
  <2>1. PICK i \in matching : i = Min(matching)
    <3>1. matching \in SUBSET Nat
      BY Sizes DEF Slots
    <3> HIDE DEF matching
    <3> QED
      BY <1>2, <3>1, LeastLemma
  <2>2. <<loc.at, i>> \in Recs
    <3>1. i \in SlotsOf(loc.at)
      <4>0. i \in Slots /\ i >= loc.slot
        BY <2>1
      <4>1. i \in Int /\ loc.slot \in Int
        BY <1>1, <4>0, Sizes DEF Slots, CallSet
      <4>2. loc.at = 0 => loc.slot > 0
        BY <1>1 DEF IInv, CallOK
      <4> HIDE DEF b, matching
      <4>3. loc.at = 0 => i # 0
        BY <4>0, <4>1, <4>2
      <4> QED
        BY <4>0, <4>3 DEF SlotsOf
    <3>2. i \in Slots /\ b.recs[i] # Erased /\ b.index
      BY <1>2, <2>1 DEF IsIndex
    <3> QED
      BY <1>1, <3>1, <3>2 DEF Recs, RecordAt
  <2>3. b.recs[i].fptr \in DataSectors
    BY <1>1, <2>2 DEF StoreOK, RecordsOK, RecordAt
  <2>4. loc'.head = b.recs[i].fptr /\ loc'.ptr = b.recs[i].fptr /\ loc'.op = loc.op
    BY <1>1, <1>2, <2>1 DEF CallSet
  <2>5. \/ pc' \in {"clean", "truncate"} /\ (pc' = "clean" => loc.op = "delete")
        \/ pc' = "eof"
        \/ pc' = "load" /\ loc.op = "read"
    BY <1>1, <1>2, CallsLemma DEF AfterFound
  <2> HIDE DEF b
  <2>6. CASE pc' \in {"clean", "truncate"} /\ (pc' = "clean" => loc.op = "delete")
    BY <2>4, <2>6 DEF CallSoFar
  <2> QED
    BY <2>3, <2>4, <2>5, <2>6, StandsAtHead
<1>3. CASE pc' \in {"find", "add", "idle"}
  BY <1>3, CallElsewhere
<1> QED
  BY <1>1, <1>2, <1>3 DEF Find, NotFound, Finish

LEMMA AddRecordCall ==
  ASSUME IInv, AddRecord
  PROVE  CallSoFar'
<1>1. pc = "record" /\ loc \in CallSet /\ loc.op \in CreatingModes /\ loc.sect \in DataSectors
  BY DEF AddRecord, IInv, OpsOK, CallOK, Used
<1>2. CASE pc' = AfterFound /\ loc' = [loc EXCEPT !.head = loc.sect, !.ptr = loc.sect]
  <2>1. loc'.head = loc.sect /\ loc'.ptr = loc.sect
    BY <1>1, <1>2 DEF CallSet
  <2>2. pc' \in {"truncate", "eof"}
    BY <1>1, <1>2, CallsLemma DEF AfterFound
  <2> QED
    BY <1>1, <2>1, <2>2, StandsAtHead, CallElsewhere
<1>3. CASE pc' = "idle"
  BY <1>3, CallElsewhere
<1> QED
  BY <1>2, <1>3 DEF AddRecord, Write, Finish

LEMMA TruncateCall ==
  ASSUME IInv, Truncate
  PROVE  CallSoFar'
<1>1. /\ pc = "truncate" /\ loc \in CallSet /\ loc.head \in DataSectors /\ loc.ptr = loc.head
      /\ StoreOK /\ ~media[loc.head].index
  BY HeadLemma DEF Truncate, IInv, CallOK
<1>2. PICK s \in DataSectors : s = loc.head
  BY <1>1
<1>3. \/ /\ media' = Claimed(s)
         /\ \/ pc' = "load" /\ loc' = loc
            \/ pc' = "clean" /\ loc' = [loc EXCEPT !.ptr = media[loc.ptr].link]
      \/ pc' = "idle"
  BY <1>1, <1>2 DEF Truncate, Write, Goto, Finish
<1>4. CASE pc' = "idle"
  BY <1>4, CallElsewhere
<1>5. CASE media' = Claimed(s)
  <2>1. media'[s].link = s /\ Count(media'[s]) = 0
    BY <1>1, <1>2, <1>5, Volume, Sizes, SetNextLemma DEF Claimed, StoreOK, LinkSet
  <2>2. CASE pc' = "load" /\ loc' = loc
    BY <1>1, <1>2, <2>1, <2>2, StandsAtHead
  <2>3. CASE pc' = "clean" /\ loc' = [loc EXCEPT !.ptr = media[loc.ptr].link]
    <3>1. loc'.head = s
      BY <1>1, <1>2, <2>3 DEF CallSet
    <3> QED
      BY <2>1, <2>3, <3>1 DEF CallSoFar
  <2>4. CASE pc' = "idle"
    BY <2>4, CallElsewhere
  <2> QED
    BY <1>3, <2>2, <2>3, <2>4
<1> QED
  BY <1>3, <1>4, <1>5

LEMMA CleanCall ==
  ASSUME IInv, CallSoFar, Clean
  PROVE  CallSoFar'
<1>1. /\ pc = "clean" /\ loc \in CallSet /\ loc.head \in DataSectors /\ StoreOK
      /\ loc.op \in {"delete", "write", "create"}
  BY HeadLemma DEF Clean, IInv, OpsOK
<1>2. PICK s \in DataSectors : CleanAt(s)
  BY <1>1, CleanAtLemma
<1>3. PICK h \in DataSectors : h = loc.head
  BY <1>1
<1>4. media' \in {media, SetNext(s, 0, 0)}
  BY <1>2 DEF Clean, Write, CleanAt
<1>5. loc.op # "delete" => media'[h].link = h /\ Count(media'[h]) = 0
  <2> SUFFICES ASSUME loc.op # "delete" PROVE media'[h].link = h /\ Count(media'[h]) = 0
    OBVIOUS
  <2>1. media[h].link = h /\ Count(media[h]) = 0 /\ h # s
    BY <1>1, <1>2, <1>3 DEF CleanAt, CallSoFar
  <2>2. media' = SetNext(s, 0, 0) => LinkSet(media', s, 0, 0)
    BY <1>1, <1>2, Volume, Sizes, SetNextLemma DEF CleanAt, StoreOK
  <2>3. media'[h] = media[h]
    BY <1>3, <1>4, <2>1, <2>2, Volume DEF LinkSet
  <2> QED
    BY <2>1, <2>3
<1>6. CASE /\ pc' = IF loc.op = "delete" THEN "erase" ELSE "load"
           /\ loc' = [loc EXCEPT !.ptr = loc.head]
  <2>1. loc'.head = h /\ loc'.ptr = h
    BY <1>1, <1>3, <1>6 DEF CallSet
  <2> QED
    BY <1>5, <1>6, <2>1, StandsAtHead, CallElsewhere
<1>7. CASE loc' = [loc EXCEPT !.ptr = media[loc.ptr].link] /\ pc' = pc
  <2>1. loc'.head = h /\ loc'.op = loc.op
    BY <1>1, <1>3, <1>7 DEF CallSet
  <2> QED
    BY <1>1, <1>5, <1>7, <2>1 DEF CallSoFar
<1> QED
  BY <1>6, <1>7 DEF Clean, Write

LEMMA FindEofCall ==
  ASSUME IInv, CallSoFar, FindEof
  PROVE  CallSoFar'
<1>1. /\ pc = "eof" /\ loc \in CallSet /\ StoreOK /\ NoLinkTo(loc.head) /\ media' = media
      /\ loc.op = "append" /\ loc.ptr \in DataSectors /\ Used(loc.ptr)
  BY HeadLemma DEF FindEof, IInv, OpsOK, CallOK, Used
<1>2. PICK d : Before(media, loc.head, loc.ptr, d)
  BY <1>1 DEF CallSoFar
<1>3. CASE Goto("load")
  <2>1. pc' = "load" /\ loc' = loc
    BY <1>3 DEF Goto
  <2>2. (\E x : Before(media, loc.head, loc.ptr, x))'
    BY <1>1, <1>2, <2>1
  <2> QED
    BY <1>1, <2>1, <2>2 DEF CallSoFar
<1>4. CASE ~EndsChain(loc.ptr) /\ loc' = [loc EXCEPT !.ptr = media[loc.ptr].link] /\ pc' = pc
  <2>1. PICK t \in DataSectors : t = media[loc.ptr].link /\ t # loc.ptr
    BY <1>1, <1>4, Volume, SectorFields DEF StoreOK, Used, EndsChain
  <2>2. Before(media, loc.head, t, d \o media[loc.ptr].data)
    BY <1>1, <1>2, <2>1, WayForth
  <2>3. loc'.head = loc.head /\ loc'.ptr = t
    BY <1>1, <1>4, <2>1 DEF CallSet
  <2>4. (\E x : Before(media, loc.head, loc.ptr, x))'
    BY <1>1, <2>2, <2>3
  <2> QED
    BY <1>1, <1>4, <2>4 DEF CallSoFar
<1>5. CASE Finish
  BY <1>5, CallElsewhere DEF Finish
<1> QED
  BY <1>1, <1>3, <1>4, <1>5 DEF FindEof

LEMMA ClaimedIsEmpty ==
  ASSUME StoreOK, FreeData # {}, media' = Claimed(Min(FreeData)), loc'.sect = Min(FreeData),
         pc' \in {"record", "chain"}
  PROVE  CallSoFar'
<1>1. PICK s \in DataSectors : s = Min(FreeData) /\ Free(s)
  BY FreeDataLemma
<1>2. s \in Sectors /\ ~media[s].index
  BY <1>1, Volume, Sizes DEF Free, StoreOK, MarksOK
<1>3. Count(media'[s]) = 0
  BY <1>1, <1>2, Sizes, SetNextLemma DEF Claimed, StoreOK, LinkSet
<1> QED
  BY <1>1, <1>3 DEF CallSoFar

LEMMA AddCall ==
  ASSUME IInv, Add
  PROVE  CallSoFar'
<1> DEFINE i == Min({x \in SlotsOf(loc.at) : media[loc.at].recs[x] = Erased})
           s == Min(FreeData)
<1>1. StoreOK /\ loc \in CallSet /\ pc = "add"
  BY DEF Add, IInv
<1>2. CASE /\ FreeData # {} /\ media' = Claimed(s) /\ pc' = "record"
           /\ loc' = [loc EXCEPT !.slot = i, !.sect = s]
  <2>1. loc'.sect = s
    <3> HIDE DEF i, s
    <3> QED
      BY <1>1, <1>2 DEF CallSet
  <2> QED
    BY <1>1, <1>2, <2>1, ClaimedIsEmpty
<1>3. CASE pc' \in {"add", "page0", "idle"}
  BY <1>3, CallElsewhere
<1> QED
  BY <1>1, <1>2, <1>3 DEF Add, Write, Finish

LEMMA ClaimNextCall ==
  ASSUME IInv, ClaimNext
  PROVE  CallSoFar'
<1> DEFINE s == Min(FreeData)
<1>1. StoreOK /\ loc \in CallSet
  BY DEF IInv
<1>2. CASE /\ FreeData # {} /\ media' = Claimed(s) /\ pc' = "chain"
           /\ loc' = [loc EXCEPT !.sect = s]
  <2>1. loc'.sect = s
    <3> HIDE DEF s
    <3> QED
      BY <1>1, <1>2 DEF CallSet
  <2> QED
    BY <1>1, <1>2, <2>1, ClaimedIsEmpty
<1>3. CASE pc' = "idle"
  BY <1>3, CallElsewhere
<1> QED
  BY <1>2, <1>3 DEF ClaimNext, Write, GiveUpWriting, Finish

LEMMA CallNext ==
  ASSUME SafeCalls, IInv, CallSoFar, [Next]_vars
  PROVE  CallSoFar'
<1>1. CASE \/ \E n \in Names, mode \in Modes : Open(n, mode)
           \/ \E names \in Deletes : Delete(names)
           \/ \E d \in Writes : CallWrite(d)
           \/ \E k \in Reads : CallRead(k)
           \/ Close \/ DelRecord \/ Load \/ Chain \/ Fill \/ WriteReturns
           \/ WriteFirstPage \/ WriteSecondPage \/ ReadStep \/ PowerCut
  <2>1. pc' \in {"find", "write", "read", "idle", "page0", "page1", "add"}
    <3>1. ASSUME NEW n, NEW mode, Open(n, mode) PROVE pc' = "find"
      BY <3>1 DEF Open
    <3>2. ASSUME NEW names, Delete(names) PROVE pc' = "find"
      BY <3>2 DEF Delete
    <3>3. ASSUME NEW d, CallWrite(d) PROVE pc' = "write"
      BY <3>3 DEF CallWrite
    <3>4. ASSUME NEW k, CallRead(k) PROVE pc' = "read"
      BY <3>4 DEF CallRead
    <3>5. CASE Close
      BY <3>5 DEF Close
    <3>6. CASE DelRecord
      BY <3>6 DEF DelRecord, Write
    <3>7. CASE Load \/ Chain \/ WriteReturns \/ PowerCut
      BY <3>7 DEF Load, Chain, WriteReturns, PowerCut, Write, Goto, GiveUpWriting, Finish
    <3>8. CASE Fill
      BY <3>8 DEF Fill, FillMarking
    <3>9. CASE WriteFirstPage
      BY <3>9 DEF WriteFirstPage, Write, Goto, SectorFailed, Finish
    <3>10. CASE WriteSecondPage
      <4>1. pc = "page1" /\ (SectorWritten \/ SectorFailed)
        BY <3>10 DEF WriteSecondPage, Write
      <4>2. ~(file = NoFile /\ loc.op = "format")
        BY <4>1, CallsLemma DEF IInv, OpsOK
      <4>3. file = NoFile => loc.op \in CreatingModes
        BY <4>1 DEF IInv, OpsOK
      <4>4. SectorFailed => pc' = "idle"
        BY DEF SectorFailed, Finish
      <4>5. SectorWritten => pc' \in {"add", "idle", "write"}
        BY <4>2, <4>3 DEF SectorWritten, Goto, Finish
      <4> QED
        BY <4>1, <4>4, <4>5
    <3>11. CASE ReadStep
      BY <3>11 DEF ReadStep, Finish
    <3> QED
      BY <1>1, <3>1, <3>2, <3>3, <3>4, <3>5, <3>6, <3>7, <3>8, <3>9, <3>10, <3>11
  <2> QED
    BY <2>1, CallElsewhere
<1>2. CASE Find \/ Add \/ AddRecord \/ Truncate \/ Clean \/ FindEof \/ ClaimNext
  BY <1>2, FindCall, AddCall, AddRecordCall, TruncateCall, CleanCall, FindEofCall,
     ClaimNextCall
<1>3. CASE Format \/ Release
  BY <1>3 DEF Format, Release, SafeCalls, IInv, OpsOK
<1>4. CASE UNCHANGED vars
  <2>1. media' = media /\ pc' = pc /\ loc' = loc
    BY <1>4 DEF vars
  <2> QED
    BY <2>1 DEF CallSoFar
<1> QED
  BY <1>1, <1>2, <1>3, <1>4 DEF Next, CallStep

-----------------------------------------------------------------------------
(* lf_read delivers what the file holds *)

\* How much of the sector at file.sect belongs to the file.
ValidAt(m, f) == IF m[f.sect].link = f.sect THEN Count(m[f.sect]) ELSE DataSize

\* On media m with file f open, lf_read has delivered what the sectors before f.sect
\* hold and the first bytes of that one, and has said so if that is all.
ReadUpTo(m, f) ==
  /\ \E d : Before(m, f.head, f.sect, d) /\ f.got = d \o SubSeq(m[f.sect].data, 1, f.off)
  /\ f.off <= ValidAt(m, f)
  /\ f.ended => f.off = ValidAt(m, f) /\ m[f.sect].link \in {LAST, f.sect}

ReadSoFar ==
  file # NoFile =>
    /\ file.mode \in WritingModes => file.got = <<>> /\ ~file.ended
    /\ file.mode = "read" =>
         /\ ~file.changed /\ NoLinkTo(file.head) /\ file.intent = Content(file.head)
         /\ ReadUpTo(media, file)
         /\ pc = "read" => ~file.ended

ReadInv == IInv /\ CallSoFar /\ ReadSoFar

LEMMA NotReading ==
  ASSUME file' # NoFile => file'.mode \in WritingModes /\ file'.got = <<>> /\ ~file'.ended
  PROVE  ReadSoFar'
BY CallsLemma DEF ReadSoFar

\* The other calls leave a file that is being read, and the media, alone.
LEMMA ReadsOn ==
  ASSUME media' = media, file # NoFile => file.mode = "read" /\ ReadSoFar,
         file' # NoFile => /\ file # NoFile
                           /\ file'.mode = file.mode /\ file'.changed = file.changed
                           /\ file'.head = file.head /\ file'.intent = file.intent
                           /\ ReadUpTo(media, file') /\ (pc' = "read" => ~file'.ended)
  PROVE  ReadSoFar'
<1> SUFFICES ASSUME file' # NoFile PROVE ReadSoFar'
  BY DEF ReadSoFar
<1>1. /\ file'.mode = "read" /\ ~file'.changed /\ NoLinkTo(file'.head)
      /\ file'.intent = Content(file'.head) /\ ReadUpTo(media', file')
      /\ pc' = "read" => ~file'.ended
  BY DEF ReadSoFar
<1>2. PICK h : h = file'.head
  OBVIOUS
<1>3. NoLinkTo(h)' /\ Content(h)' = Content(h)
  BY <1>1, <1>2, ContentStays DEF NoLinkTo
<1>4. NoLinkTo(file.head)' /\ (file.intent = Content(file.head))'
  BY <1>1, <1>2, <1>3
<1> QED
  BY <1>1, <1>4, CallsLemma DEF ReadSoFar

LEMMA LoadReads ==
  ASSUME IInv, CallSoFar, Load
  PROVE  ReadSoFar'
<1> SUFFICES ASSUME file' # NoFile PROVE ReadSoFar'
  BY DEF ReadSoFar
<1>1. pc = "load" /\ media' = media /\ pc' = "idle"
  BY DEF Load, Finish
<1>2. /\ file = NoFile /\ loc \in CallSet /\ StoreOK /\ loc.head \in DataSectors
      /\ NoLinkTo(loc.head) /\ loc.op \in {"read"} \union WritingModes
  BY <1>1, HeadLemma DEF IInv, OpsOK
<1>3. PICK s \in DataSectors : s = loc.ptr /\ Used(s)
  BY <1>1 DEF IInv, CallOK, Used
<1>4. /\ file'.mode = loc.op /\ file'.head = loc.head /\ file'.sect = s /\ ~file'.changed
      /\ file'.intent = Content(loc.head) /\ file'.got = <<>> /\ ~file'.ended
      /\ loc.op = "read" => file'.off = 0
  BY <1>2, <1>3 DEF Load
<1>5. CASE loc.op = "read"
  <2>1. s = loc.head
    BY <1>1, <1>3, <1>5 DEF CallSoFar
  <2>2. Before(media, s, s, <<>>)
    BY WayStart
  <2>3. media[s] \in SectorSet
    BY <1>2, Volume DEF StoreOK
  <2>4. SubSeq(media[s].data, 1, 0) = <<>> /\ <<>> \o <<>> = <<>>
    BY <2>3, DataLemma
  <2>5. ValidAt(media, file') \in Nat
    <3>1. media[s].link = s => Count(media[s]) \in 0..DataSize-1
      BY <1>2 DEF StoreOK, MarksOK
    <3> QED
      BY <1>4, <3>1, Sizes DEF ValidAt
  <2>6. ReadUpTo(media, file')
    <3>1. file'.off <= ValidAt(media, file')
      BY <1>4, <1>5, <2>5
    <3> QED
      BY <1>4, <1>5, <2>1, <2>2, <2>4, <3>1 DEF ReadUpTo
  <2>7. PICK h : h = file'.head
    OBVIOUS
  <2>8. NoLinkTo(h)' /\ Content(h)' = Content(h)
    BY <1>1, <1>2, <1>4, <2>7, ContentStays DEF NoLinkTo
  <2>9. NoLinkTo(file.head)' /\ (file.intent = Content(file.head))'
    BY <1>4, <2>7, <2>8
  <2> QED
    BY <1>1, <1>4, <1>5, <2>6, <2>9, CallsLemma DEF ReadSoFar
<1>6. CASE loc.op # "read"
  BY <1>2, <1>4, <1>6, NotReading
<1> QED
  BY <1>5, <1>6

LEMMA ReadStepReads ==
  ASSUME IInv, ReadSoFar, ReadStep
  PROVE  ReadSoFar'
<1>1. pc = "read" /\ media' = media
  BY DEF ReadStep
<1>2. /\ file # NoFile /\ loc \in CallSet /\ file.mode = "read" /\ StoreOK /\ file \in FileSet
      /\ file.off \in 0..DataSize
  BY <1>1, FileLemma DEF IInv, OpsOK, FileOK
<1>3. PICK s \in DataSectors : s = file.sect /\ Used(s)
  BY <1>2, FileLemma
<1>4. Cached = media[s]
  BY <1>2, <1>3 DEF Cached, IInv, FileOK
<1>5. /\ ~file.changed /\ NoLinkTo(file.head) /\ file.intent = Content(file.head)
      /\ ReadUpTo(media, file) /\ ~file.ended
  BY <1>1, <1>2 DEF ReadSoFar
<1>6. PICK d : /\ Before(media, file.head, s, d) /\ d \in Seq(Bytes)
               /\ file.got = d \o SubSeq(media[s].data, 1, file.off)
  BY <1>3, <1>5, BeforeTypes DEF ReadUpTo
<1>7. PICK b \in SectorSet : b = media[s] /\ b.link \in Sectors /\ b.link # 0
  BY <1>2, <1>3, Volume, SectorFields DEF StoreOK, Used
<1> DEFINE valid == ValidAt(media, file)
           n == IF valid > file.off THEN Min({valid - file.off, loc.want}) ELSE 0
           cached == [file EXCEPT !.buf = b, !.dataSect = s]
<1>8. valid \in 0..DataSize /\ valid = Valid(b) /\ file.off <= valid
  BY <1>2, <1>3, <1>5, <1>7, Sizes DEF ValidAt, ReadUpTo, Valid, StoreOK, MarksOK
<1>9. /\ cached.mode = file.mode /\ cached.changed = file.changed /\ cached.sect = s
      /\ cached.head = file.head /\ cached.intent = file.intent /\ cached.off = file.off
      /\ cached.got = file.got /\ cached.ended = file.ended
      /\ cached \in FileSet
  <2> HIDE DEF valid, n
  <2> QED
    BY <1>2, <1>3 DEF FileSet
<1>10. /\ n \in Nat /\ file.off + n \in 0..DataSize /\ file.off + n <= valid
       /\ loc.want \in Nat
       /\ n = 0 => loc.want = 0 \/ file.off = valid
  <2>1. loc.want \in Nat /\ file.off \in Nat /\ valid \in Nat /\ DataSize \in Nat
    BY <1>2, <1>8, Sizes DEF CallSet
  <2>2. CASE valid > file.off
    <3> DEFINE W == {valid - file.off, loc.want}
    <3>1. W \in SUBSET Nat /\ W # {}
      BY <2>1, <2>2
    <3>2. Min(W) \in W /\ \A x \in W : Min(W) <= x
      <4> HIDE DEF W
      <4> QED
        BY <3>1, LeastLemma
    <3>3. Min(W) \in Nat /\ Min(W) <= valid - file.off /\ (Min(W) = 0 => loc.want = 0)
      BY <2>1, <2>2, <3>1, <3>2
    <3>4. n = Min(W)
      BY <2>2
    <3> HIDE DEF n, W, valid
    <3> QED
      BY <1>8, <2>1, <2>2, <3>3, <3>4
  <2>3. CASE ~(valid > file.off)
    <3> HIDE DEF valid
    <3>1. n = 0
      BY <2>3
    <3> HIDE DEF n
    <3> QED
      BY <1>2, <1>8, <2>1, <2>3, <3>1
  <2> QED
    BY <2>2, <2>3
<1>11. EndReached(b) <=> media[s].link \in {LAST, s}
  BY <1>3, <1>7 DEF EndReached
<1>12. \/ /\ n > 0
          /\ file' = [cached EXCEPT
               !.off = @ + n,
               !.got = @ \o SubSeq(b.data, file.off + 1, file.off + n)]
          /\ UNCHANGED pc
       \/ /\ n = 0 /\ loc.want > 0 /\ ~EndReached(b)
          /\ file' = [cached EXCEPT !.sect = b.link, !.off = 0]
          /\ UNCHANGED pc
       \/ /\ n = 0 /\ (loc.want = 0 \/ EndReached(b))
          /\ file' = [cached EXCEPT !.ended = (loc.want > 0)]
          /\ pc' = "idle"
       \/ pc' = "idle" /\ file' = file
  BY <1>3, <1>4, <1>7, <1>8 DEF ReadStep, Finish
<1> HIDE DEF n, cached, valid
<1>13. PICK k \in Nat : k = n
  BY <1>10
<1>14. ASSUME NEW f, file' = f, f.mode = "read", f.changed = file.changed,
              f.head = file.head, f.intent = file.intent, f # NoFile,
              ReadUpTo(media, f), pc' = "read" => ~f.ended
       PROVE  ReadSoFar'
  BY <1>1, <1>2, <1>14, ReadsOn
<1>15. CASE n > 0 /\ pc' = pc /\
              file' = [cached EXCEPT
                !.off = @ + n,
                !.got = @ \o SubSeq(b.data, file.off + 1, file.off + n)]
  <2> DEFINE some == SubSeq(b.data, file.off + 1, file.off + k)
             f == [cached EXCEPT !.off = @ + k, !.got = @ \o some]
  <2>1. file.off + k \in file.off..DataSize
    BY <1>2, <1>10, <1>13, Sizes
  <2>2. some \in Seq(Bytes) /\ SubSeq(b.data, 1, file.off) \in Seq(Bytes)
    BY <1>2, <2>1, DataLemma, PartOf
  <2>3. SubSeq(b.data, 1, file.off) \o some = SubSeq(b.data, 1, file.off + k)
    BY <1>2, <2>1, DataJoins
  <2>4. file.got \o some = d \o SubSeq(b.data, 1, file.off + k)
    <3>1. PICK q, r : /\ q \in Seq(Bytes) /\ q = SubSeq(b.data, 1, file.off)
                      /\ r \in Seq(Bytes) /\ r = some
      BY <2>2
    <3>2. d \in Seq(Bytes) /\ q \in Seq(Bytes) /\ r \in Seq(Bytes)
      BY <1>6, <3>1
    <3>3. (d \o q) \o r = d \o (q \o r)
      BY <3>2, ConcatAssociative
    <3> HIDE DEF some
    <3>4. SubSeq(b.data, 1, file.off + k) = q \o r
      BY <2>3, <3>1, Zenon
    <3>5. file.got = d \o q
      BY <1>6, <1>7, <3>1, Zenon
    <3> QED
      BY <3>1, <3>3, <3>4, <3>5, Zenon
  <2> HIDE DEF some
  <2>5. /\ f.off = file.off + k /\ f.got = file.got \o some /\ f.sect = s
        /\ f.mode = "read" /\ f.changed = file.changed /\ f.head = file.head
        /\ f.intent = file.intent /\ f.ended = file.ended
    BY <1>2, <1>9 DEF FileSet
  <2>6. f \in FileSet
    <3>1. cached.got \o some \in Seq(Bytes)
      BY <1>9, <2>2, ConcatProperties DEF FileSet
    <3>2. cached.off + k \in 0..DataSize
      BY <1>9, <1>10, <1>13
    <3> QED
      BY <1>9, <3>1, <3>2 DEF FileSet
  <2>7. file' = f
    <3> HIDE DEF some
    <3> DEFINE g(x) == [cached EXCEPT
                          !.off = @ + x,
                          !.got = @ \o SubSeq(b.data, file.off + 1, file.off + x)]
    <3>1. g(n) = g(k)
      <4> HIDE DEF g
      <4> QED
        BY <1>13
    <3>2. file' = g(n)
      BY <1>15
    <3>3. g(k) = f
      BY DEF some
    <3> QED
      BY <3>1, <3>2, <3>3
  <2> HIDE DEF f
  <2>8. ValidAt(media, f) = valid
    BY <1>3, <2>5 DEF ValidAt, valid
  <2>9. ReadUpTo(media, f)
    BY <1>5, <1>6, <1>7, <1>10, <1>13, <2>4, <2>5, <2>8 DEF ReadUpTo
  <2> QED
    BY <1>5, <1>14, <2>5, <2>6, <2>7, <2>9, NullsAssumption
<1>16. CASE n = 0 /\ loc.want > 0 /\ ~EndReached(b) /\ pc' = pc
              /\ file' = [cached EXCEPT !.sect = b.link, !.off = 0]
  <2>1. PICK t \in DataSectors : t = b.link /\ t # s
    BY <1>7, <1>11, <1>16, Volume
  <2>2. Before(media, file.head, t, d \o media[s].data)
    BY <1>2, <1>5, <1>6, <1>7, <2>1, WayForth
  <2>3. file.off = DataSize
    <3>1. valid = DataSize
      BY <1>3, <1>7, <2>1 DEF ValidAt, valid
    <3>2. file.off = valid
      BY <1>10, <1>16
    <3> QED
      BY <3>1, <3>2
  <2>4. file.got = d \o media[s].data
    BY <1>6, <1>7, <2>3, DataLemma
  <2>5. media[t] \in SectorSet /\ media[s].data \in Seq(Bytes)
    BY <1>2, <1>7, Volume, DataLemma DEF StoreOK
  <2>6. (d \o media[s].data) \o SubSeq(media[t].data, 1, 0) = d \o media[s].data
    <3>1. d \o media[s].data \in Seq(Bytes)
      BY <1>6, <2>5, ConcatProperties
    <3>2. SubSeq(media[t].data, 1, 0) = <<>>
      BY <2>5, DataLemma
    <3> QED
      BY <3>1, <3>2, ConcatEmptySeq
  <2> DEFINE f == [cached EXCEPT !.sect = t, !.off = 0]
  <2>7. /\ f \in FileSet /\ f.off = 0 /\ f.got = file.got /\ f.sect = t
        /\ f.mode = "read" /\ f.changed = file.changed /\ f.head = file.head
        /\ f.intent = file.intent /\ f.ended = file.ended
    <3>1. 0 \in 0..DataSize
      BY Sizes
    <3>2. f \in FileSet
      BY <1>9, <3>1 DEF FileSet
    <3>3. /\ f.off = 0 /\ f.got = cached.got /\ f.sect = t
          /\ f.mode = cached.mode /\ f.changed = cached.changed /\ f.head = cached.head
          /\ f.intent = cached.intent /\ f.ended = cached.ended
      BY <1>9 DEF FileSet
    <3> QED
      BY <1>2, <1>9, <3>2, <3>3
  <2>8. file' = f
    BY <1>16, <2>1
  <2> HIDE DEF f
  <2>9. ValidAt(media, f) \in Nat
    BY <1>2, <2>7, Sizes DEF ValidAt, StoreOK, MarksOK
  <2>10. ReadUpTo(media, f)
    <3>1. Before(media, f.head, f.sect, d \o media[s].data)
      BY <2>2, <2>7
    <3>2. f.got = (d \o media[s].data) \o SubSeq(media[f.sect].data, 1, f.off)
      BY <2>4, <2>6, <2>7
    <3>3. f.off <= ValidAt(media, f)
      BY <2>7, <2>9
    <3>4. ~f.ended
      BY <1>5, <2>7
    <3> QED
      BY <3>1, <3>2, <3>3, <3>4 DEF ReadUpTo
  <2> QED
    BY <1>5, <1>14, <2>7, <2>8, <2>10, NullsAssumption
<1>17. CASE n = 0 /\ (loc.want = 0 \/ EndReached(b)) /\ pc' = "idle"
              /\ file' = [cached EXCEPT !.ended = (loc.want > 0)]
  <2>1. PICK e \in BOOLEAN : e = (loc.want > 0)
    <3>1. (loc.want > 0) \in BOOLEAN
      OBVIOUS
    <3> QED
      BY <3>1, Zenon
  <2> DEFINE f == [cached EXCEPT !.ended = e]
  <2>2. /\ f \in FileSet /\ f.off = file.off /\ f.got = file.got /\ f.sect = s
        /\ f.mode = "read" /\ f.changed = file.changed /\ f.head = file.head
        /\ f.intent = file.intent /\ (f.ended <=> loc.want > 0)
    <3>1. f \in FileSet /\ (f.ended <=> e)
      BY <1>9 DEF FileSet
    <3>2. /\ f.off = cached.off /\ f.got = cached.got /\ f.sect = s
          /\ f.mode = cached.mode /\ f.changed = cached.changed /\ f.head = cached.head
          /\ f.intent = cached.intent
      BY <1>9 DEF FileSet
    <3> QED
      BY <1>2, <1>9, <2>1, <3>1, <3>2
  <2>3. file' = f
    BY <1>17, <2>1
  <2> HIDE DEF f
  <2>4. ValidAt(media, f) = valid
    BY <1>3, <2>2 DEF ValidAt, valid
  <2>5. f.ended => file.off = valid /\ media[s].link \in {LAST, s}
    <3>1. loc.want > 0 => loc.want # 0
      BY <1>10
    <3> QED
      BY <1>10, <1>11, <1>17, <2>2, <3>1
  <2>6. ReadUpTo(media, f)
    BY <1>6, <1>8, <2>2, <2>4, <2>5 DEF ReadUpTo
  <2> QED
    BY <1>14, <1>17, <2>2, <2>3, <2>6, NullsAssumption
<1>18. CASE pc' = "idle" /\ file' = file
  BY <1>1, <1>2, <1>5, <1>18, ReadsOn
<1> QED
  BY <1>12, <1>15, <1>16, <1>17, <1>18

\* lf_write and lf_close do not touch what only lf_read uses.
LEMMA WritingKeeps ==
  ASSUME IInv, ReadSoFar, pc \in {"write", "chain", "page0", "page1"}, file' # NoFile,
         ClaimNext \/ Chain \/ Fill \/ WriteReturns \/ WriteFirstPage \/ WriteSecondPage
  PROVE  ReadSoFar'
<1>1. CASE file = NoFile
  <2>1. pc \in {"page0", "page1"}
    BY <1>1, CallsLemma DEF IInv, OpsOK
  <2>2. loc.op # "close"
    BY <1>1, <2>1, CallsLemma DEF IInv, OpsOK
  <2>3. WriteFirstPage \/ WriteSecondPage
    BY <2>1 DEF ClaimNext, Chain, Fill, FillMarking, WriteReturns
  <2>4. CASE SectorFailed
    BY <1>1, <2>4 DEF SectorFailed
  <2>5. CASE file' = file
    BY <1>1, <2>5
  <2>6. SectorWritten => file' = file
    BY <1>1, <2>2, CallsLemma DEF SectorWritten, IInv, OpsOK
  <2> QED
    BY <2>3, <2>4, <2>5, <2>6 DEF WriteFirstPage, WriteSecondPage, Write
<1>2. CASE file # NoFile
  <2>1. /\ file \in FileSet /\ file.mode \in WritingModes /\ file.got = <<>> /\ ~file.ended
    BY <1>2, FileLemma DEF ReadSoFar, IInv, FileOK
  <2>2. ASSUME file' = file PROVE ReadSoFar'
    BY <2>1, <2>2, NotReading
  <2>3. ASSUME NEW b, NEW s, file' = [file EXCEPT !.buf = b, !.sect = s, !.dataSect = s, !.off = 0]
        PROVE  ReadSoFar'
    <3>1. file'.mode = file.mode /\ file'.got = file.got /\ file'.ended = file.ended
      BY <2>1, <2>3 DEF FileSet
    <3> QED
      BY <2>1, <3>1, NotReading
  <2>4. ASSUME NEW b, NEW l, NEW o, NEW c, NEW i,
               file' = [file EXCEPT !.buf.data = b, !.buf.link = l, !.off = o,
                                    !.changed = c, !.intent = @ \o i]
        PROVE  ReadSoFar'
    <3>1. file'.mode = file.mode /\ file'.got = file.got /\ file'.ended = file.ended
      BY <2>1, <2>4 DEF FileSet
    <3> QED
      BY <2>1, <3>1, NotReading
  <2>5. ASSUME file' = [file EXCEPT !.changed = FALSE, !.off = DataSize] PROVE ReadSoFar'
    <3>1. file'.mode = file.mode /\ file'.got = file.got /\ file'.ended = file.ended
      BY <2>1, <2>5 DEF FileSet
    <3> QED
      BY <2>1, <3>1, NotReading
  <2>6. CASE ClaimNext
    BY <2>2, <2>6 DEF ClaimNext, Write, GiveUpWriting
  <2>7. CASE Chain
    <3>1. \/ file' = file
          \/ file' = [file EXCEPT !.buf = EmptyData(loc.sect), !.sect = loc.sect,
                                  !.dataSect = loc.sect, !.off = 0]
      BY <2>7 DEF Chain, Write, GiveUpWriting
    <3> QED
      BY <2>2, <2>3, <3>1
  <2>8. CASE Fill
    BY <2>4, <2>8 DEF Fill, FillMarking
  <2>9. CASE WriteReturns
    BY <2>2, <2>9 DEF WriteReturns
  <2>10. CASE WriteFirstPage
    BY <2>2, <2>10 DEF WriteFirstPage, Write, SectorFailed
  <2>11. CASE WriteSecondPage
    <3>1. SectorWritten \/ SectorFailed
      BY <2>11 DEF WriteSecondPage, Write
    <3>2. CASE SectorFailed
      BY <2>2, <3>2 DEF SectorFailed
    <3>3. CASE SectorWritten
      <4>1. loc.op \in {"none", "close"}
        BY <1>2, <2>11, CallsLemma DEF WriteSecondPage, IInv, OpsOK
      <4>2. \/ file' = NoFile
            \/ file' = [file EXCEPT !.changed = FALSE, !.off = DataSize]
        BY <1>2, <3>3, <4>1 DEF SectorWritten
      <4> QED
        BY <2>5, <4>2
    <3> QED
      BY <3>1, <3>2, <3>3
  <2> QED
    BY <2>6, <2>7, <2>8, <2>9, <2>10, <2>11
<1> QED
  BY <1>1, <1>2

LEMMA ReadNext ==
  ASSUME SafeCalls, ReadInv, [Next]_vars
  PROVE  ReadSoFar'
<1> USE DEF ReadInv
<1>1. ASSUME file' = NoFile PROVE ReadSoFar'
  BY <1>1 DEF ReadSoFar
<1>2. CASE \E n \in Names, mode \in Modes : Open(n, mode)
  BY <1>1, <1>2 DEF Open
<1>3. CASE \E names \in Deletes : Delete(names)
  BY <1>1, <1>3 DEF Delete
<1>4. ASSUME file # NoFile, file' = file, media' = media, pc' # "read" PROVE ReadSoFar'
  <2>1. file.mode \in {"read"} \union WritingModes
    BY <1>4, FileLemma
  <2>2. CASE file.mode \in WritingModes
    BY <1>4, <2>2, NotReading DEF ReadSoFar
  <2>3. CASE file.mode = "read"
    BY <1>4, <2>3, ReadsOn DEF ReadSoFar
  <2> QED
    BY <2>1, <2>2, <2>3
<1>5. CASE \E d \in Writes : CallWrite(d)
  BY <1>4, <1>5 DEF CallWrite
<1>6. ASSUME NEW k \in Reads, CallRead(k) PROVE ReadSoFar'
  <2>1. /\ file # NoFile /\ file \in FileSet /\ file.mode = "read" /\ media' = media
        /\ file' = [file EXCEPT !.ended = FALSE]
    BY <1>6, FileLemma DEF CallRead
  <2>2. /\ file'.mode = file.mode /\ file'.changed = file.changed
        /\ file'.head = file.head /\ file'.intent = file.intent /\ file'.ended = FALSE
        /\ file'.sect = file.sect /\ file'.off = file.off /\ file'.got = file.got
    BY <2>1 DEF FileSet
  <2>3. ReadUpTo(media, file)
    BY <2>1 DEF ReadSoFar
  <2>4. ReadUpTo(media, file')
    <3>1. ValidAt(media, file') = ValidAt(media, file)
      BY <2>2 DEF ValidAt
    <3> QED
      BY <2>2, <2>3, <3>1 DEF ReadUpTo
  <2> QED
    BY <2>1, <2>2, <2>4, ReadsOn
<1>7. CASE Close
  BY <1>1, <1>4, <1>7 DEF Close
<1>8. CASE Format
  BY <1>8 DEF Format, SafeCalls
<1>9. CASE CallStep
  <2>1. ~Release
    BY DEF Release, IInv, OpsOK
  <2>2. CASE Find \/ Add \/ AddRecord \/ Truncate \/ Clean \/ DelRecord \/ FindEof
    <3>1. file' = file /\ pc \in {"find", "add", "record", "truncate", "clean", "erase", "eof"}
      BY <2>2 DEF Find, Add, AddRecord, Truncate, Clean, DelRecord, FindEof
    <3>2. file = NoFile
      BY <3>1 DEF IInv, OpsOK
    <3> QED
      BY <1>1, <3>1, <3>2
  <2>3. CASE Load
    BY <2>3, LoadReads
  <2>4. CASE ClaimNext \/ Chain \/ Fill \/ WriteReturns \/ WriteFirstPage \/ WriteSecondPage
    <3>1. pc \in {"write", "chain", "page0", "page1"}
      BY <2>4 DEF ClaimNext, Chain, Fill, FillMarking, WriteReturns, WriteFirstPage, WriteSecondPage
    <3> QED
      BY <1>1, <2>4, <3>1, WritingKeeps
  <2>5. CASE ReadStep
    BY <2>5, ReadStepReads
  <2> QED
    BY <1>9, <2>1, <2>2, <2>3, <2>4, <2>5 DEF CallStep
<1>10. CASE PowerCut
  BY <1>1, <1>10 DEF PowerCut
<1>11. CASE UNCHANGED vars
  <2>1. file' = file /\ media' = media /\ pc' = pc
    BY <1>11 DEF vars
  <2>2. CASE file = NoFile
    BY <1>1, <2>1, <2>2
  <2>3. CASE file # NoFile /\ file.mode \in WritingModes
    BY <2>1, <2>3, NotReading DEF ReadSoFar
  <2>4. CASE file # NoFile /\ file.mode = "read"
    BY <2>1, <2>4, ReadsOn DEF ReadSoFar
  <2> QED
    BY <2>1, <2>2, <2>3, <2>4, FileLemma
<1> QED
  BY <1>2, <1>3, <1>5, <1>6, <1>7, <1>8, <1>9, <1>10, <1>11 DEF Next

LEMMA StoreIsRead == ASSUME SafeCalls PROVE Spec => []ReadInv
<1>1. Init => ReadInv
  BY InitIInv DEF Init, CallSoFar, ReadSoFar, ReadInv
<1>2. ReadInv /\ [Next]_vars => ReadInv'
  BY NextInv, CallNext, ReadNext DEF ReadInv
<1> QED
  BY <1>1, <1>2, PTL DEF Spec

\* A file that is being read is what lf_read has delivered of it and what is left, and
\* nothing is left when lf_read has said so.
LEMMA WhatIsLeft ==
  ASSUME ReadInv, file # NoFile, file.mode = "read"
  PROVE  \E q \in Seq(Bytes) : /\ file.intent = file.got \o q
                               /\ file.ended => q = <<>>
<1>1. /\ StoreOK /\ file \in FileSet /\ file.sect \in DataSectors /\ Used(file.sect)
      /\ file.off \in 0..DataSize /\ file.got \in Seq(Bytes)
  BY FileLemma DEF ReadInv
<1>2. file.intent = Content(file.head) /\ ReadUpTo(media, file)
  BY DEF ReadInv, ReadSoFar
<1>3. PICK e \in DataSectors, o \in 0..DataSize : e = file.sect /\ o = file.off
  BY <1>1
<1>4. PICK d : Before(media, file.head, e, d) /\ file.got = d \o SubSeq(media[e].data, 1, o)
  BY <1>2, <1>3 DEF ReadUpTo
<1>5. d \in Seq(Bytes)
  BY <1>4, BeforeTypes
<1>6. PICK r : /\ r \in Seq(Bytes) /\ Content(file.head) = d \o (Bytewise(e) \o r)
               /\ media[e].link \in {e, 0, LAST} => r = <<>>
  <2>1. \E r \in Seq(Bytes) : /\ Content(file.head) = d \o (Bytewise(e) \o r)
                              /\ media[e].link \in {e, 0, LAST} => r = <<>>
    BY <1>1, <1>4, WayContent
  <2> QED
    BY <2>1, Zenon
<1>7. PICK b \in SectorSet : b = media[e]
  BY <1>1, <1>3, Volume DEF StoreOK
<1>8. PICK v \in o..DataSize : v = ValidAt(media, file)
  <2>1. ValidAt(media, file) \in Int /\ ValidAt(media, file) <= DataSize
    BY <1>1, <1>3, Sizes DEF ValidAt, StoreOK, MarksOK
  <2> QED
    BY <1>2, <1>3, <2>1, Sizes DEF ReadUpTo
<1>9. Bytewise(e) = SubSeq(b.data, 1, v)
  BY <1>3, <1>7, <1>8, DataLemma DEF Bytewise, ValidAt
<1>10. SubSeq(b.data, 1, v) = SubSeq(b.data, 1, o) \o SubSeq(b.data, o + 1, v)
  BY <1>8, DataJoins
<1>11. PICK x, y : /\ x \in Seq(Bytes) /\ x = SubSeq(b.data, 1, o)
                   /\ y \in Seq(Bytes) /\ y = SubSeq(b.data, o + 1, v)
                   /\ Len(y) = v - o
  <2>1. SubSeq(b.data, 1, o) \in Seq(Bytes)
    BY PartOf, Zenon
  <2>2. v \in o..DataSize
    BY <1>8
  <2>3. /\ SubSeq(b.data, o + 1, v) \in Seq(Bytes)
        /\ Len(SubSeq(b.data, o + 1, v)) = v - o
    BY <2>2, DataLemma, Zenon
  <2> QED
    BY <2>1, <2>3
<1>12. PICK z : z \in Seq(Bytes) /\ z = y \o r
  <2>1. y \in Seq(Bytes) /\ r \in Seq(Bytes)
    BY <1>6, <1>11
  <2> QED
    BY <2>1, Joins
<1>13. file.intent = file.got \o z
  <2>1. x \in Seq(Bytes) /\ y \in Seq(Bytes) /\ r \in Seq(Bytes)
    BY <1>6, <1>11
  <2>2. (x \o y) \o r = x \o (y \o r)
    BY <2>1, ConcatAssociative
  <2>3. Bytewise(e) = x \o y
    BY <1>9, <1>10, <1>11, Zenon
  <2>4. file.intent = d \o (x \o z)
    BY <1>2, <1>6, <1>12, <2>2, <2>3, Zenon
  <2>5. x \in Seq(Bytes) /\ z \in Seq(Bytes)
    BY <1>12, <2>1
  <2>6. (d \o x) \o z = d \o (x \o z)
    BY <1>5, <2>5, ConcatAssociative
  <2>7. file.got = d \o x
    BY <1>4, <1>7, <1>11, Zenon
  <2> QED
    BY <2>4, <2>6, <2>7, Zenon
<1>14. file.ended => z = <<>>
  <2> SUFFICES ASSUME file.ended PROVE z = <<>>
    OBVIOUS
  <2>1. o = v /\ media[e].link \in {LAST, e}
    BY <1>2, <1>3, <1>8 DEF ReadUpTo
  <2>2. Len(y) = 0
    BY <1>8, <1>11, <2>1
  <2>3. r = <<>> /\ y = <<>>
    BY <1>6, <1>11, <2>1, <2>2, EmptySeq
  <2>4. y \o <<>> = y
    BY <1>11, Joins
  <2> QED
    BY <1>12, <2>3, <2>4
<1> QED
  BY <1>12, <1>13, <1>14

\* lf_read delivers a file from its beginning without a gap, whatever the sizes of the
\* reads and wherever the sectors end, reads that fail included, and stops short only
\* at its end.
THEOREM ReadDeliversContentHolds == ASSUME SafeCalls PROVE Spec => []ReadDeliversContent
<1>1. ASSUME ReadInv PROVE ReadDeliversContent
  <2> SUFFICES ASSUME file # NoFile
               PROVE  IsPrefix(file.got, file.intent) /\ (file.ended => file.got = file.intent)
    BY DEF ReadDeliversContent
  <2>1. /\ file.mode \in {"read"} \union WritingModes
        /\ file.intent \in Seq(Bytes) /\ file.got \in Seq(Bytes)
    BY <1>1, FileLemma DEF ReadInv
  <2>2. CASE file.mode = "read"
    <3>1. PICK q \in Seq(Bytes) : file.intent = file.got \o q /\ (file.ended => q = <<>>)
      BY <1>1, <2>2, WhatIsLeft
    <3>2. IsPrefix(file.got, file.got \o q) /\ file.got \o <<>> = file.got
      BY <2>1, PrefixLemma, Joins
    <3> QED
      BY <3>1, <3>2
  <2>3. CASE file.mode \in WritingModes
    <3>1. file.got = <<>> /\ ~file.ended
      BY <1>1, <2>3 DEF ReadInv, ReadSoFar
    <3>2. <<>> \in Seq(Bytes)
      OBVIOUS
    <3>3. IsPrefix(<<>>, <<>> \o file.intent) /\ <<>> \o file.intent = file.intent
      BY <2>1, <3>2, PrefixLemma, Joins
    <3> QED
      BY <3>1, <3>3
  <2> QED
    BY <2>1, <2>2, <2>3
<1> QED
  BY <1>1, StoreIsRead, PTL

-----------------------------------------------------------------------------
(* lf_write: the cached sector is the end of what was written *)

\* lf_write has filled the cached sector and is about to write it.
Filled == pc \in {"page0", "page1"} /\ loc.op = "none"

\* On media m the sectors before f.sect and the cached one hold what was written to
\* the open file f, and a cached sector that is not marked as changed is on the media.
WrittenUpTo(m, f, filled) ==
  /\ \E d : /\ Before(m, f.head, f.sect, d)
            /\ f.intent = d \o (IF filled THEN f.buf.data ELSE SubSeq(f.buf.data, 1, f.off))
  /\ m[f.sect].link \in {f.sect, LAST}
  /\ f.changed => filled \/ f.buf.link = f.sect
  /\ ~f.changed =>
       /\ ~filled
       /\ m[f.sect].link = f.buf.link
       /\ SubSeq(m[f.sect].data, 1, f.off) = SubSeq(f.buf.data, 1, f.off)
       /\ f.buf.link = LAST => f.off = DataSize
       /\ f.buf.link = f.sect => Count(m[f.sect]) = f.off

WrittenSoFar ==
  file # NoFile /\ file.mode \in WritingModes /\ loc.op # "close" =>
    WrittenUpTo(media, file, Filled)

\* A sector that leads to itself is on no way that leads on.
LEMMA WayLeaves ==
  ASSUME NEW m, NEW h, NEW e, NEW d, Before(m, h, e, d), NEW t, m[t].link = t, t # e
  PROVE  t # h
<1> SUFFICES ASSUME t = h PROVE FALSE
  OBVIOUS
<1>1. PICK k, p, c : Way(m, h, e, k, p, c)
  BY DEF Before
<1>2. /\ k \in Nat \ {0} /\ p[1] = h /\ p[k] = e
      /\ \A i, j \in 1..k : p[i] = p[j] => i = j
      /\ \A i \in 1..k-1 : m[p[i]].link = p[i+1]
  BY <1>1 DEF Way
<1>3. k # 1
  BY <1>2
<1>4. 1 \in 1..k /\ 2 \in 1..k /\ 1 \in 1..k-1 /\ 1 + 1 = 2
  BY <1>2, <1>3
<1>5. m[p[1]].link = p[2]
  BY <1>2, <1>4
<1> QED
  BY <1>2, <1>4, <1>5

\* The bytes of a sector that takes the first n bytes of q from the i-th on.
LEMMA FilledData ==
  ASSUME NEW b \in SectorSet, NEW c \in SectorSet, NEW q \in Seq(Bytes),
         NEW i \in 0..DataSize, NEW n \in Nat, i + n \in 0..DataSize, n <= Len(q),
         \A x \in 1..i : c.data[x] = b.data[x],
         \A x \in i+1..i+n : c.data[x] = q[x - i]
  PROVE  SubSeq(c.data, 1, i + n) = SubSeq(b.data, 1, i) \o SubSeq(q, 1, n)
<1>1. PICK k \in i..DataSize : k = i + n
  <2>1. i + n \in i..DataSize
    BY Sizes
  <2> QED
    BY <2>1
<1>2. SubSeq(c.data, 1, i) \o SubSeq(c.data, i + 1, k) = SubSeq(c.data, 1, k)
  BY DataJoins
<1>3. SubSeq(c.data, 1, i) = SubSeq(b.data, 1, i)
  <2>1. i \in Nat /\ \A x \in 1..i : b.data[x] \in Bytes /\ c.data[x] \in Bytes
    BY SectorFields, Sizes
  <2>2. SubSeq(c.data, 1, i) = [x \in 1..i |-> c.data[x]]
    BY <2>1
  <2>3. SubSeq(b.data, 1, i) = [x \in 1..i |-> b.data[x]]
    BY <2>1
  <2>4. [x \in 1..i |-> c.data[x]] = [x \in 1..i |-> b.data[x]]
    OBVIOUS
  <2> QED
    BY <2>2, <2>3, <2>4
<1>4. SubSeq(c.data, i + 1, k) = SubSeq(q, 1, n)
  <2>1. i \in Nat /\ k \in Nat /\ k - i = n /\ n \in Nat /\ Len(q) \in Nat
    BY <1>1
  <2>2. \A x \in i+1..k : c.data[x] \in Bytes
    BY <1>1, SectorFields, Sizes
  <2>3. SubSeq(q, 1, n) = [x \in 1..n |-> q[x]]
    BY <2>1
  <2>4. SubSeq(c.data, i + 1, k) = [x \in 1..n |-> c.data[x + i]]
    BY <2>1, <2>2
  <2>5. \A x \in 1..n : x + i \in i+1..i+n /\ (x + i) - i = x
    BY <2>1
  <2>6. \A x \in 1..n : c.data[x + i] = q[x]
    BY <2>5
  <2> QED
    BY <2>3, <2>4, <2>6
<1> QED
  BY <1>1, <1>2, <1>3, <1>4

\* A step that leaves the sectors on the way to the end as they are.
LEMMA WayOfFile ==
  ASSUME NEW n, NEW f, NEW m, NEW d, Before(m, f.head, f.sect, d),
         \A s \in DataSectors \ {f.sect} : m[s].link # 0 => n[s] = m[s]
  PROVE  Before(n, f.head, f.sect, d)
<1>1. \A s \in DataSectors \ {f.sect} : m[s].link \in DataSectors =>
         n[s].link = m[s].link /\ n[s].data = m[s].data
  BY Volume
<1> QED
  BY <1>1, WayKept

LEMMA WritesOn ==
  ASSUME file' = file, Filled' = Filled, loc'.op # "close" => loc.op # "close",
         WrittenSoFar, file # NoFile,
         \A s \in DataSectors \ {file.sect} : media[s].link # 0 => media'[s] = media[s],
         /\ media'[file.sect].link = media[file.sect].link
         /\ ~file.changed => media'[file.sect] = media[file.sect]
  PROVE  WrittenSoFar'
<1> SUFFICES ASSUME file.mode \in WritingModes, loc'.op # "close"
             PROVE  WrittenUpTo(media', file, Filled)
  BY CallsLemma DEF WrittenSoFar
<1>1. WrittenUpTo(media, file, Filled)
  BY DEF WrittenSoFar
<1>2. PICK d : /\ Before(media, file.head, file.sect, d)
               /\ file.intent = d \o (IF Filled THEN file.buf.data
                                      ELSE SubSeq(file.buf.data, 1, file.off))
  BY <1>1 DEF WrittenUpTo
<1>3. Before(media', file.head, file.sect, d)
  BY <1>2, WayOfFile
<1>4. media'[file.sect].link \in {file.sect, LAST} /\ (file.changed => Filled \/ file.buf.link = file.sect)
  BY <1>1 DEF WrittenUpTo
<1>5. ~file.changed =>
       /\ ~Filled
       /\ media'[file.sect].link = file.buf.link
       /\ SubSeq(media'[file.sect].data, 1, file.off) = SubSeq(file.buf.data, 1, file.off)
       /\ file.buf.link = LAST => file.off = DataSize
       /\ file.buf.link = file.sect => Count(media'[file.sect]) = file.off
  BY <1>1 DEF WrittenUpTo
<1> HIDE DEF Filled
<1> QED
  BY <1>2, <1>3, <1>4, <1>5 DEF WrittenUpTo

LEMMA NotWriting ==
  ASSUME file' = NoFile \/ file'.mode \notin WritingModes \/ loc'.op = "close"
  PROVE  WrittenSoFar'
BY CallsLemma DEF WrittenSoFar

LEMMA ClaimNextWrites ==
  ASSUME IInv, WrittenSoFar, ~IoErrors, ClaimNext
  PROVE  WrittenSoFar'
<1>1. /\ pc = "write" /\ file' = file /\ pc' \in {"chain", "idle"}
      /\ \/ media' = media
         \/ FreeData # {} /\ media' = Claimed(Min(FreeData))
  BY DEF ClaimNext, Write, GiveUpWriting, Finish
<1>2. /\ file # NoFile /\ loc.op = "none" /\ StoreOK /\ RecordsUsed /\ Used(file.sect)
      /\ \A p : ~Deleting(p)
  BY <1>1, FileLemma, NotDeleting DEF IInv, OpsOK
<1>3. Filled' = Filled
  BY <1>1 DEF Filled
<1>4. CASE media' = media
  BY <1>1, <1>2, <1>3, <1>4, WritesOn
<1>5. CASE FreeData # {} /\ media' = Claimed(Min(FreeData))
  <2>1. PICK s \in DataSectors : s = Min(FreeData) /\ Free(s)
    BY <1>5, FreeDataLemma
  <2>2. \A x \in Sectors \ {s} : media'[x] = media[x]
    BY <1>2, <1>5, <2>1, ClaimMedia DEF FreshlyClaimed
  <2>3. media[s].link = 0 /\ s # file.sect
    BY <1>2, <2>1 DEF Free, Used
  <2>4. \A x \in DataSectors \ {file.sect} : media[x].link # 0 => media'[x] = media[x]
    BY <2>2, <2>3, Volume
  <2>5. media'[file.sect] = media[file.sect]
    BY <1>2, <2>2, <2>3, Volume DEF Used
  <2> QED
    BY <1>1, <1>2, <1>3, <2>4, <2>5, WritesOn
<1> QED
  BY <1>1, <1>4, <1>5

LEMMA ChainWrites ==
  ASSUME IInv, CallSoFar, WrittenSoFar, ~IoErrors, Chain
  PROVE  WrittenSoFar'
<1>1. pc = "chain"
  BY DEF Chain
<1>2. /\ file # NoFile /\ file \in FileSet /\ loc.op = "none" /\ file.mode \in WritingModes
      /\ StoreOK /\ file.buf.link = LAST
  BY <1>1, FileLemma DEF IInv, OpsOK, FileOK
<1>3. PICK s \in DataSectors : s = file.sect /\ Used(s) /\ ~media[s].index
  BY <1>2, FileLemma
<1>4. PICK t \in DataSectors : /\ t = loc.sect /\ t # s /\ Used(t) /\ NoLinkTo(t)
                               /\ media[t].link = t /\ Count(media[t]) = 0
  BY <1>1, <1>3 DEF IInv, CallOK, Used, Unreferenced, CallSoFar
<1>5. /\ media' = Linked(s, t) /\ pc' = "write" /\ loc' = loc
      /\ file' = [file EXCEPT !.buf = EmptyData(t), !.sect = t, !.dataSect = t, !.off = 0]
  BY <1>3, <1>4 DEF Chain, Write
<1>6. /\ file'.mode = file.mode /\ file'.head = file.head /\ file'.sect = t
      /\ file'.buf = EmptyData(t) /\ file'.off = 0 /\ file'.changed = file.changed
      /\ file'.intent = file.intent
  BY <1>2, <1>5 DEF FileSet
<1>7. /\ WrittenUpTo(media, file, Filled) /\ ~Filled
  BY <1>1, <1>2, CallsLemma DEF WrittenSoFar, Filled
<1>8. /\ ~file.changed /\ file.off = DataSize
      /\ SubSeq(media[s].data, 1, DataSize) = SubSeq(file.buf.data, 1, DataSize)
  BY <1>2, <1>3, <1>7, Volume DEF WrittenUpTo
<1>9. PICK d : /\ Before(media, file.head, s, d)
               /\ file.intent = d \o SubSeq(file.buf.data, 1, DataSize)
  <2> HIDE DEF Filled
  <2> QED
    BY <1>3, <1>7, <1>8 DEF WrittenUpTo
<1>10. PICK b : b \in SectorSet /\ b = media[s] /\ s \in Sectors /\ media[t] \in SectorSet
  BY <1>2, <1>3, Volume DEF StoreOK
<1>11. PICK c : c \in Bytes /\ c = Count(b)
  BY <1>10, SectorFields
<1>12. /\ \A x \in Sectors \ {s} : media'[x] = media[x]
       /\ media'[s].link = t /\ media'[s].data = b.data
  <2>1. LinkSet(media', s, t, c)
    BY <1>2, <1>3, <1>4, <1>5, <1>10, <1>11, SetNextLemma, Volume DEF Linked, StoreOK
  <2>2. media' = [media EXCEPT ![s].link = t, ![s].data[DataSize] = c]
    BY <1>5, <1>10, <1>11 DEF Linked, SetNext
  <2>3. media'[s].data = [b.data EXCEPT ![DataSize] = c]
    BY <1>2, <1>10, <2>2 DEF StoreOK, SectorSet
  <2>4. [b.data EXCEPT ![DataSize] = c] = b.data
    BY <1>10, <1>11, SectorFields, Sizes DEF Count
  <2> QED
    BY <2>1, <2>3, <2>4 DEF LinkSet
<1>13. Before(media', file.head, s, d)
  <2>1. \A x \in DataSectors \ {s} : media[x].link # 0 => media'[x] = media[x]
    BY <1>12, Volume
  <2> QED
    BY <1>3, <1>9, <2>1, WayOfFile
<1>14. Before(media', file.head, t, d \o b.data)
  <2>1. media'[t].link = t
    BY <1>4, <1>12, Volume
  <2>2. t # file.head
    BY <1>4, <1>13, <2>1, WayLeaves
  <2>3. \A x \in DataSectors \ {s, t} : media'[x].link # t
    BY <1>4, <1>12, Volume DEF NoLinkTo
  <2>4. media'[s].data \in Seq(Bytes)
    BY <1>10, <1>12, DataLemma
  <2>5. Before(media', file.head, t, d \o media'[s].data)
    BY <1>4, <1>12, <1>13, <2>2, <2>3, <2>4, WayOn
  <2> QED
    BY <1>12, <2>5
<1>15. file.intent = d \o b.data
  <2>1. SubSeq(b.data, 1, DataSize) = b.data
    BY <1>10, DataLemma
  <2> QED
    BY <1>8, <1>9, <1>10, <2>1, Zenon
<1>16. EmptyData(t).link = t /\ EmptyData(t) \in SectorSet /\ t # LAST
  BY EmptyDataTypes, Volume
<1>17. /\ SubSeq(EmptyData(t).data, 1, 0) = <<>> /\ SubSeq(media'[t].data, 1, 0) = <<>>
       /\ (d \o b.data) \o <<>> = d \o b.data
  <2>1. SubSeq(EmptyData(t).data, 1, 0) = <<>>
    BY <1>16, DataLemma
  <2>2. SubSeq(media'[t].data, 1, 0) = <<>>
    BY <1>4, <1>10, <1>12, DataLemma, Volume
  <2>3. d \in Seq(Bytes) /\ b.data \in Seq(Bytes)
    BY <1>9, <1>10, BeforeTypes, DataLemma
  <2>4. PICK q : q \in Seq(Bytes) /\ q = d \o b.data
    BY <2>3, ConcatProperties
  <2> QED
    BY <2>1, <2>2, <2>4, ConcatEmptySeq
<1>18. media'[t].link = t /\ Count(media'[t]) = 0
  BY <1>4, <1>12, Volume
<1>19. WrittenUpTo(media', file', FALSE)
  <2>1. file'.intent = (d \o b.data) \o SubSeq(file'.buf.data, 1, file'.off)
    BY <1>6, <1>15, <1>17, Zenon
  <2>2. Before(media', file'.head, file'.sect, d \o b.data)
    BY <1>6, <1>14, Zenon
  <2>3. /\ media'[file'.sect].link \in {file'.sect, LAST}
        /\ ~file'.changed
        /\ media'[file'.sect].link = file'.buf.link
        /\ SubSeq(media'[file'.sect].data, 1, file'.off) = SubSeq(file'.buf.data, 1, file'.off)
        /\ file'.buf.link # LAST
        /\ Count(media'[file'.sect]) = file'.off
    BY <1>6, <1>8, <1>16, <1>17, <1>18
  <2> QED
    BY <2>1, <2>2, <2>3 DEF WrittenUpTo
<1>20. Filled' = FALSE
  BY <1>5 DEF Filled
<1>21. WrittenUpTo(media', file', Filled')
  BY <1>19, <1>20
<1> QED
  BY <1>21 DEF WrittenSoFar

LEMMA LoadWrites ==
  ASSUME IInv, CallSoFar, Load
  PROVE  WrittenSoFar'
<1> SUFFICES ASSUME file' # NoFile, file'.mode \in WritingModes PROVE WrittenSoFar'
  BY NotWriting
<1>1. pc = "load" /\ media' = media /\ pc' = "idle"
  BY DEF Load, Finish
<1>2. /\ file = NoFile /\ loc \in CallSet /\ StoreOK /\ loc.head \in DataSectors
      /\ loc.op \in {"read"} \union WritingModes
  BY <1>1, HeadLemma DEF IInv, OpsOK
<1>3. PICK s : s \in DataSectors /\ s = loc.ptr /\ Used(s)
  BY <1>1 DEF IInv, CallOK, Used
<1>4. PICK b : b \in SectorSet /\ b = media[s]
  BY <1>2, <1>3, Volume DEF StoreOK
<1>5. /\ file'.mode = loc.op /\ file'.head = loc.head /\ file'.sect = s /\ ~file'.changed
      /\ file'.intent = Content(loc.head) /\ file'.buf = b
      /\ file'.off = IF loc.op # "append" THEN 0
                     ELSE IF b.link = LAST THEN DataSize ELSE Count(b)
  BY <1>2, <1>3, <1>4 DEF Load
<1>6. b.link \in {s, LAST}
  BY <1>1, <1>2, <1>3, <1>4, <1>5 DEF IInv, CallOK, EndsChain
<1>7. PICK d : Before(media, loc.head, s, d)
  BY <1>1, <1>3 DEF CallSoFar
<1>8. loc.op # "append" => b.link = s /\ Count(b) = 0
  <2>1. loc.op # "append" => loc.op \in {"write", "create"}
    BY <1>5, CallsLemma
  <2> QED
    BY <1>1, <1>3, <1>4, <2>1, CallsLemma DEF CallSoFar
<1>9. /\ b.link = LAST => file'.off = DataSize
      /\ b.link = s => file'.off = Count(b)
  BY <1>3, <1>5, <1>6, <1>8, Volume
<1>10. Content(loc.head) = d \o Bytewise(s)
  <2>1. PICK r : /\ r \in Seq(Bytes) /\ Content(loc.head) = d \o (Bytewise(s) \o r)
                 /\ media[s].link \in {s, 0, LAST} => r = <<>>
    <3>1. \E r \in Seq(Bytes) : /\ Content(loc.head) = d \o (Bytewise(s) \o r)
                                /\ media[s].link \in {s, 0, LAST} => r = <<>>
      BY <1>2, <1>7, WayContent
    <3> QED
      BY <3>1, Zenon
  <2>2. r = <<>>
    BY <1>4, <1>6, <2>1
  <2>3. Bytewise(s) \in Seq(Bytes)
    BY <1>2, <1>3, BytewiseTypes
  <2>4. Bytewise(s) \o <<>> = Bytewise(s)
    BY <2>3, ConcatEmptySeq
  <2> QED
    BY <2>1, <2>2, <2>4
<1>11. Bytewise(s) = SubSeq(b.data, 1, file'.off)
  <2>1. CASE b.link = s
    BY <1>4, <1>9, <2>1 DEF Bytewise
  <2>2. CASE b.link = LAST
    BY <1>3, <1>4, <1>9, <2>2, DataLemma, Volume DEF Bytewise
  <2> QED
    BY <1>6, <2>1, <2>2
<1>12. Filled' = FALSE
  BY <1>1 DEF Filled
<1>13. WrittenUpTo(media', file', FALSE)
  <2>1. file'.intent = d \o SubSeq(file'.buf.data, 1, file'.off)
    BY <1>5, <1>10, <1>11, Zenon
  <2>2. Before(media', file'.head, file'.sect, d)
    BY <1>1, <1>5, <1>7, Zenon
  <2> QED
    BY <1>1, <1>4, <1>5, <1>6, <1>9, <2>1, <2>2 DEF WrittenUpTo
<1>14. WrittenUpTo(media', file', Filled')
  BY <1>12, <1>13
<1> QED
  BY <1>14 DEF WrittenSoFar

LEMMA FillWrites ==
  ASSUME IInv, IInv', WrittenSoFar, Fill
  PROVE  WrittenSoFar'
<1> SUFFICES ASSUME file' # NoFile PROVE WrittenSoFar'
  BY NotWriting
<1>1. pc = "write" /\ media' = media /\ file.buf.link # LAST
  BY DEF Fill, FillMarking
<1>2. /\ file # NoFile /\ file \in FileSet /\ loc \in CallSet /\ loc.op = "none"
      /\ file.mode \in WritingModes /\ file.buf.link = file.sect /\ file.off \in 0..DataSize-1
      /\ file.buf \in SectorSet /\ todo \in Seq(Bytes) /\ file.intent \in Seq(Bytes)
  BY <1>1, FileLemma DEF IInv, OpsOK, FileOK
<1>3. PICK n \in Nat : /\ n = Min({DataSize - file.off, Len(todo)})
                       /\ file.off + n \in 0..DataSize /\ n <= Len(todo)
  BY FillLemma
<1> DEFINE filled == file.off + n
           data == [i \in 1..DataSize |->
                      IF i \in file.off+1 .. filled THEN todo[i - file.off]
                      ELSE IF i = DataSize          THEN filled
                      ELSE file.buf.data[i]]
           link == IF filled = DataSize THEN LAST ELSE file.buf.link
           off == IF filled = DataSize THEN file.off ELSE filled
           added == SubSeq(todo, 1, n)
           changed == TRUE \/ filled = DataSize
<1>4. /\ file' = [file EXCEPT !.buf.data = data, !.buf.link = link, !.off = off,
                              !.changed = changed, !.intent = @ \o added]
      /\ pc' = (IF filled = DataSize THEN "page0" ELSE "idle")
      /\ loc' = [loc EXCEPT !.at = IF filled = DataSize THEN file.sect ELSE 0]
  BY <1>3 DEF Fill, FillMarking
<1>5. changed
  OBVIOUS
<1>6. /\ file'.mode = file.mode /\ file'.head = file.head /\ file'.sect = file.sect
      /\ file'.buf.data = data /\ file'.buf.link = link /\ file'.off = off
      /\ file'.changed /\ file'.intent = file.intent \o added
  <2> HIDE DEF data, link, off, changed, added
  <2> QED
    BY <1>2, <1>4, <1>5 DEF FileSet, SectorSet
<1>7. file' \in FileSet /\ file'.buf \in SectorSet
  <2>1. file' \in FileSet
    BY DEF IInv, FileOK
  <2> QED
    BY <2>1 DEF FileSet
<1>8. loc'.op = "none"
  BY <1>2, <1>4 DEF CallSet
<1>9. WrittenUpTo(media, file, Filled) /\ ~Filled
  BY <1>1, <1>2, CallsLemma DEF WrittenSoFar, Filled
<1>10. PICK d : /\ Before(media, file.head, file.sect, d)
                /\ file.intent = d \o SubSeq(file.buf.data, 1, file.off)
  <2> HIDE DEF Filled
  <2> QED
    BY <1>9 DEF WrittenUpTo
<1>11. SubSeq(file'.buf.data, 1, filled) = SubSeq(file.buf.data, 1, file.off) \o added
  <2>1. PICK b, c, i, k : /\ b \in SectorSet /\ b = file.buf /\ c \in SectorSet /\ c = file'.buf
                          /\ i \in 0..DataSize /\ i = file.off /\ k = filled
    BY <1>2, <1>7, Sizes
  <2>2. i + n \in 0..DataSize /\ n <= Len(todo) /\ i \in 0..DataSize-1 /\ k = i + n
    BY <1>2, <1>3, <2>1
  <2>3. c.data = data
    BY <1>6, <2>1
  <2> HIDE DEF filled
  <2>4. \A x \in 1..i : c.data[x] = b.data[x]
    <3> SUFFICES ASSUME NEW x \in 1..i PROVE c.data[x] = b.data[x]
      OBVIOUS
    <3>1. x \in 1..DataSize /\ x # DataSize /\ x \notin i+1..k
      BY <2>2, Sizes
    <3>2. data[x] = file.buf.data[x]
      BY <2>1, <3>1
    <3> QED
      BY <2>1, <2>3, <3>2
  <2>5. \A x \in i+1..i+n : c.data[x] = todo[x - i]
    <3> SUFFICES ASSUME NEW x \in i+1..i+n PROVE c.data[x] = todo[x - i]
      OBVIOUS
    <3>1. x \in 1..DataSize /\ x \in i+1..k
      BY <2>2, Sizes
    <3>2. data[x] = todo[x - i]
      BY <2>1, <3>1
    <3> QED
      BY <2>3, <3>2
  <2> HIDE DEF data
  <2>6. /\ b \in SectorSet /\ c \in SectorSet /\ todo \in Seq(Bytes)
        /\ i \in 0..DataSize /\ i + n \in 0..DataSize /\ n <= Len(todo)
    BY <1>2, <2>1, <2>2
  <2>7. SubSeq(c.data, 1, i + n) = SubSeq(b.data, 1, i) \o SubSeq(todo, 1, n)
    BY <2>4, <2>5, <2>6, FilledData, Zenon
  <2> QED
    BY <2>1, <2>2, <2>7
<1>12. file'.intent = d \o SubSeq(file'.buf.data, 1, filled)
  <2>1. d \in Seq(Bytes)
    BY <1>10, BeforeTypes
  <2>2. PICK q : q \in Seq(Bytes) /\ q = SubSeq(file.buf.data, 1, file.off)
    <3>1. file.off \in 0..DataSize
      BY <1>2, Sizes
    <3> QED
      BY <1>2, <3>1, PartOf
  <2>3. PICK r : r \in Seq(Bytes) /\ r = added
    <3>1. 1 \in Nat \ {0} /\ Len(todo) \in Nat
      BY <1>2
    <3> QED
      BY <1>2, <1>3, <3>1, PartTypes
  <2>4. q \in Seq(Bytes) /\ r \in Seq(Bytes)
    BY <2>2, <2>3
  <2>5. (d \o q) \o r = d \o (q \o r)
    BY <2>1, <2>4, ConcatAssociative
  <2> HIDE DEF added, filled
  <2>6. SubSeq(file'.buf.data, 1, filled) = q \o r
    BY <1>11, <2>2, <2>3, Zenon
  <2>7. file'.intent = (d \o q) \o r
    BY <1>6, <1>10, <2>2, <2>3, Zenon
  <2> QED
    BY <2>5, <2>6, <2>7, Zenon
<1>13. media[file.sect].link \in {file.sect, LAST}
  BY <1>9 DEF WrittenUpTo
<1> HIDE DEF data, added, changed
<1>14. CASE filled = DataSize
  <2>1. Filled' = TRUE
    BY <1>4, <1>8, <1>14 DEF Filled
  <2>2. SubSeq(file'.buf.data, 1, filled) = file'.buf.data
    BY <1>7, <1>14, DataLemma
  <2> HIDE DEF filled
  <2>3. WrittenUpTo(media', file', TRUE)
    BY <1>1, <1>6, <1>10, <1>12, <1>13, <2>2 DEF WrittenUpTo
  <2>4. WrittenUpTo(media', file', Filled')
    BY <2>1, <2>3
  <2> QED
    BY <2>4 DEF WrittenSoFar
<1>15. CASE filled # DataSize
  <2>1. Filled' = FALSE
    BY <1>4, <1>15 DEF Filled
  <2>2. file'.off = filled /\ file'.buf.link = file'.sect
    BY <1>2, <1>6, <1>15
  <2> HIDE DEF filled
  <2>3. WrittenUpTo(media', file', FALSE)
    BY <1>1, <1>6, <1>10, <1>12, <1>13, <2>2 DEF WrittenUpTo
  <2>4. WrittenUpTo(media', file', Filled')
    BY <2>1, <2>3
  <2> QED
    BY <2>4 DEF WrittenSoFar
<1> QED
  BY <1>14, <1>15

\* Nothing is known of the media while the file is being closed.
LEMMA FirstPageWrites ==
  ASSUME IInv, WrittenSoFar, ~IoErrors, WriteFirstPage, file # NoFile
  PROVE  WrittenSoFar'
<1>1. /\ pc = "page0" /\ pc' = "page1" /\ loc' = loc /\ file' = file
      /\ media' = [media EXCEPT ![loc.at] = FirstPage(@, Image)]
  BY DEF WriteFirstPage, Write, Goto
<1>2. /\ StoreOK /\ loc.at = file.sect /\ Image = file.buf /\ file.buf \in SectorSet
      /\ loc.op \in {"none", "close"} /\ file.sect \in DataSectors /\ file.mode \in WritingModes
  BY <1>1, FlushLemma, FileLemma
<1>3. PICK s \in Sectors, b \in SectorSet : s = file.sect /\ b = file.buf
  BY <1>2, Volume
<1>4. /\ \A x \in Sectors \ {s} : media'[x] = media[x]
      /\ media'[s].link = media[s].link
  <2>1. media' = [media EXCEPT ![s] = FirstPage(@, b)]
    BY <1>1, <1>2, <1>3
  <2> QED
    BY <1>2, <2>1, FirstPageLemma DEF StoreOK, SameLinks
<1>5. CASE loc.op = "close"
  BY <1>1, <1>5, NotWriting
<1>6. CASE loc.op = "none"
  <2>1. Filled /\ Filled' /\ Filled' = Filled
    BY <1>1, <1>6 DEF Filled
  <2>2. WrittenUpTo(media, file, Filled)
    BY <1>2, <1>6, CallsLemma DEF WrittenSoFar
  <2>3. file.changed
    BY <2>1, <2>2 DEF WrittenUpTo
  <2>4. \A x \in DataSectors \ {file.sect} : media[x].link # 0 => media'[x] = media[x]
    BY <1>3, <1>4, Volume
  <2> QED
    BY <1>1, <1>3, <1>4, <2>1, <2>3, <2>4, WritesOn
<1> QED
  BY <1>2, <1>5, <1>6

LEMMA SecondPageWrites ==
  ASSUME IInv, WrittenSoFar, ~IoErrors, WriteSecondPage, file # NoFile
  PROVE  WrittenSoFar'
<1>1. pc = "page1" /\ SectorWritten /\ media' = [media EXCEPT ![loc.at] = Image]
  BY DEF WriteSecondPage, Write
<1>2. /\ StoreOK /\ loc.at = file.sect /\ Image = file.buf /\ file.buf \in SectorSet
      /\ loc.op \in {"none", "close"} /\ file.sect \in DataSectors /\ file.mode \in WritingModes
      /\ file \in FileSet /\ (loc.op = "none" => file.buf.link = LAST)
  BY <1>1, FlushLemma, FileLemma
<1>3. CASE loc.op = "close"
  BY <1>1, <1>3, NotWriting DEF SectorWritten
<1>4. CASE loc.op = "none"
  <2>1. pc' = "write" /\ loc' = NoCall /\ file' = [file EXCEPT !.changed = FALSE, !.off = DataSize]
    BY <1>1, <1>4 DEF SectorWritten
  <2>2. /\ file'.mode = file.mode /\ file'.head = file.head /\ file'.sect = file.sect
        /\ file'.buf = file.buf /\ file'.off = DataSize /\ ~file'.changed
        /\ file'.intent = file.intent
    BY <1>2, <2>1 DEF FileSet
  <2>3. WrittenUpTo(media, file, TRUE)
    <3>1. Filled = TRUE
      BY <1>1, <1>4 DEF Filled
    <3>2. WrittenUpTo(media, file, Filled)
      BY <1>2, <1>4, CallsLemma DEF WrittenSoFar
    <3> QED
      BY <3>1, <3>2
  <2>4. PICK d : /\ Before(media, file.head, file.sect, d)
                 /\ file.intent = d \o file.buf.data
    BY <2>3 DEF WrittenUpTo
  <2>5. /\ \A x \in DataSectors \ {file.sect} : media[x].link # 0 => media'[x] = media[x]
        /\ media'[file.sect] = file.buf
    BY <1>1, <1>2, Volume DEF StoreOK
  <2>6. Before(media', file.head, file.sect, d)
    BY <2>4, <2>5, WayOfFile
  <2>7. SubSeq(file.buf.data, 1, DataSize) = file.buf.data
    BY <1>2, DataLemma
  <2>8. LAST # file.sect
    BY <1>2, Volume
  <2>9. Filled' = FALSE
    BY <2>1 DEF Filled
  <2>10. WrittenUpTo(media', file', FALSE)
    <3>1. file'.intent = d \o SubSeq(file'.buf.data, 1, file'.off)
      BY <2>2, <2>4, <2>7, Zenon
    <3>2. Before(media', file'.head, file'.sect, d)
      BY <2>2, <2>6, Zenon
    <3> QED
      BY <1>2, <1>4, <2>2, <2>5, <2>8, <3>1, <3>2 DEF WrittenUpTo
  <2>11. WrittenUpTo(media', file', Filled')
    BY <2>9, <2>10
  <2> QED
    BY <2>11 DEF WrittenSoFar
<1> QED
  BY <1>2, <1>3, <1>4

LEMMA WriteNext ==
  ASSUME SafeCalls, ~IoErrors, IInv, IInv', CallSoFar, WrittenSoFar, [Next]_vars
  PROVE  WrittenSoFar'
<1>1. CASE \/ \E n \in Names, mode \in Modes : Open(n, mode)
           \/ \E names \in Deletes : Delete(names)
           \/ PowerCut
  BY <1>1, NotWriting DEF Open, Delete, PowerCut
<1>2. ASSUME file # NoFile, file' = file, media' = media, loc' = loc, pc \in {"idle", "write"},
             pc' \in {"idle", "write"}
      PROVE  WrittenSoFar'
  <2>1. Filled' = Filled
    BY <1>2 DEF Filled
  <2> QED
    BY <1>2, <2>1, WritesOn
<1>3. CASE \E d \in Writes : CallWrite(d)
  BY <1>2, <1>3 DEF CallWrite
<1>4. ASSUME NEW k \in Reads, CallRead(k) PROVE WrittenSoFar'
  <2>1. file \in FileSet /\ file.mode = "read" /\ file' = [file EXCEPT !.ended = FALSE]
    BY <1>4, FileLemma DEF CallRead
  <2>2. file'.mode = "read"
    BY <2>1 DEF FileSet
  <2> QED
    BY <2>2, NotWriting, CallsLemma
<1>5. CASE Close
  <2>1. \/ file' = NoFile
        \/ loc' = [NoCall EXCEPT !.op = "close", !.at = file.sect]
    BY <1>5 DEF Close
  <2>2. loc' = [NoCall EXCEPT !.op = "close", !.at = file.sect] => loc'.op = "close"
    BY NoCallTypes DEF CallSet
  <2> QED
    BY <2>1, <2>2, NotWriting
<1>6. CASE Format
  BY <1>6 DEF Format, SafeCalls
<1>7. CASE CallStep
  <2>1. ~Release
    BY DEF Release, IInv, OpsOK
  <2>2. CASE Find \/ Add \/ AddRecord \/ Truncate \/ Clean \/ DelRecord \/ FindEof
    <3>1. file' = file /\ pc \in {"find", "add", "record", "truncate", "clean", "erase", "eof"}
      BY <2>2 DEF Find, Add, AddRecord, Truncate, Clean, DelRecord, FindEof
    <3>2. file = NoFile
      BY <3>1 DEF IInv, OpsOK
    <3> QED
      BY <3>1, <3>2, NotWriting
  <2>3. CASE Load
    BY <2>3, LoadWrites
  <2>4. CASE ClaimNext \/ Chain \/ Fill
    BY <2>4, ClaimNextWrites, ChainWrites, FillWrites
  <2>5. CASE WriteReturns
    <3>1. file # NoFile
      BY <2>5 DEF WriteReturns, IInv, OpsOK
    <3> QED
      BY <1>2, <2>5, <3>1 DEF WriteReturns, Goto
  <2>6. CASE WriteFirstPage \/ WriteSecondPage
    <3>1. CASE file # NoFile
      BY <2>6, <3>1, FirstPageWrites, SecondPageWrites
    <3>2. CASE file = NoFile
      <4>1. loc.op # "close"
        BY <2>6, <3>2, CallsLemma DEF WriteFirstPage, WriteSecondPage, IInv, OpsOK
      <4>2. SectorWritten => file' = NoFile
        BY <3>2, <4>1, CallsLemma, <2>6 DEF SectorWritten, WriteFirstPage, WriteSecondPage, IInv, OpsOK
      <4>3. file' = NoFile
        BY <2>6, <3>2, <4>1, <4>2 DEF WriteFirstPage, WriteSecondPage, Write
      <4> QED
        BY <4>3, NotWriting
    <3> QED
      BY <3>1, <3>2
  <2>7. CASE ReadStep
    <3>1. file # NoFile /\ file.mode = "read"
      BY <2>7 DEF ReadStep, IInv, OpsOK, FileOK
    <3>2. file \in FileSet
      BY <3>1, FileLemma
    <3> DEFINE b == Cached
               n == IF Valid(b) > file.off THEN Min({Valid(b) - file.off, loc.want}) ELSE 0
               g == SubSeq(b.data, file.off + 1, file.off + n)
               s == b.link
               e == loc.want > 0
               cached == [file EXCEPT !.buf = b, !.dataSect = file.sect]
    <3>3. \/ file' = [cached EXCEPT !.off = @ + n, !.got = @ \o g]
          \/ file' = [cached EXCEPT !.sect = s, !.off = 0]
          \/ file' = [cached EXCEPT !.ended = e]
          \/ file' = file
      BY <2>7 DEF ReadStep
    <3>4. file'.mode = "read"
      <4> HIDE DEF b, n, g, s, e
      <4> QED
        BY <3>1, <3>2, <3>3 DEF FileSet
    <3> QED
      BY <3>4, NotWriting, CallsLemma
  <2> QED
    BY <1>7, <2>1, <2>2, <2>3, <2>4, <2>5, <2>6, <2>7 DEF CallStep
<1>8. CASE UNCHANGED vars
  <2>1. file' = file /\ media' = media /\ pc' = pc /\ loc' = loc
    BY <1>8 DEF vars
  <2>2. Filled' = Filled
    BY <2>1 DEF Filled
  <2>3. CASE file = NoFile
    BY <2>1, <2>3, NotWriting
  <2>4. CASE file # NoFile
    BY <2>1, <2>2, <2>4, WritesOn
  <2> QED
    BY <2>3, <2>4
<1> QED
  BY <1>1, <1>3, <1>4, <1>5, <1>6, <1>7, <1>8 DEF Next

LEMMA StoreIsWritten == ASSUME SafeCalls, ~IoErrors PROVE Spec => [](ReadInv /\ WrittenSoFar)
<1>1. Init => ReadInv /\ WrittenSoFar
  BY InitIInv DEF Init, CallSoFar, ReadSoFar, ReadInv, WrittenSoFar
<1>2. ReadInv /\ WrittenSoFar /\ [Next]_vars => ReadInv' /\ WrittenSoFar'
  <2> SUFFICES ASSUME ReadInv, WrittenSoFar, [Next]_vars PROVE ReadInv' /\ WrittenSoFar'
    OBVIOUS
  <2>1. IInv' /\ ReadInv'
    BY NextInv, CallNext, ReadNext DEF ReadInv
  <2>2. WrittenSoFar'
    BY <2>1, WriteNext DEF ReadInv
  <2> QED
    BY <2>1, <2>2
<1> QED
  BY <1>1, <1>2, PTL DEF Spec

\* A file that is open for writing, between calls.
LEMMA WhatIsWritten ==
  ASSUME IInv, WrittenSoFar, file # NoFile, pc = "idle", file.mode \in WritingModes
  PROVE  IF file.changed
           THEN file.intent = SubSeq(Content(file.head), 1, Len(file.intent) - file.off)
                                \o SubSeq(file.buf.data, 1, file.off)
           ELSE file.intent = Content(file.head)
<1>1. /\ StoreOK /\ file.sect \in DataSectors /\ file.buf \in SectorSet
      /\ file.off \in 0..DataSize /\ loc.op = "none"
  BY FileLemma DEF IInv, OpsOK
<1>2. WrittenUpTo(media, file, FALSE)
  <2>1. Filled = FALSE
    BY DEF Filled
  <2>2. WrittenUpTo(media, file, Filled)
    BY <1>1, CallsLemma DEF WrittenSoFar
  <2> QED
    BY <2>1, <2>2
<1>3. PICK e, b : e \in DataSectors /\ e = file.sect /\ b \in SectorSet /\ b = media[e]
  BY <1>1, Volume DEF StoreOK
<1>4. PICK d : /\ Before(media, file.head, e, d)
               /\ file.intent = d \o SubSeq(file.buf.data, 1, file.off)
  BY <1>2, <1>3 DEF WrittenUpTo
<1>5. d \in Seq(Bytes)
  BY <1>4, BeforeTypes
<1>6. PICK r : /\ r \in Seq(Bytes) /\ Content(file.head) = d \o (Bytewise(e) \o r)
               /\ media[e].link \in {e, 0, LAST} => r = <<>>
  <2>1. \E r \in Seq(Bytes) : /\ Content(file.head) = d \o (Bytewise(e) \o r)
                              /\ media[e].link \in {e, 0, LAST} => r = <<>>
    BY <1>1, <1>4, WayContent
  <2> QED
    BY <2>1, Zenon
<1>7. PICK w : w \in Seq(Bytes) /\ w = Bytewise(e)
  BY <1>1, <1>3, BytewiseTypes
<1>8. r = <<>> /\ b.link \in {e, LAST}
  BY <1>2, <1>3, <1>6 DEF WrittenUpTo
<1>9. Content(file.head) = d \o w
  <2>1. w \o <<>> = w
    BY <1>7, ConcatEmptySeq
  <2> QED
    BY <1>6, <1>7, <1>8, <2>1
<1>10. PICK q : /\ q \in Seq(Bytes) /\ q = SubSeq(file.buf.data, 1, file.off)
                /\ Len(q) = file.off
  BY <1>1, PartOf
<1>11. CASE file.changed
  <2>1. Len(file.intent) - file.off = Len(d)
    <3>1. d \in Seq(Bytes) /\ q \in Seq(Bytes)
      BY <1>5, <1>10
    <3>2. Len(d \o q) = Len(d) + Len(q) /\ Len(d) \in Nat /\ Len(q) \in Nat
      BY <3>1, ConcatProperties, LenProperties
    <3>3. Len(file.intent) = Len(d) + file.off
      BY <1>4, <1>10, <3>2
    <3> QED
      BY <1>10, <3>2, <3>3
  <2>2. SubSeq(d \o w, 1, Len(d)) = d
    BY <1>5, <1>7, PrefixLemma
  <2>3. file.intent = d \o SubSeq(file.buf.data, 1, file.off)
    BY <1>4
  <2> QED
    BY <1>9, <1>11, <2>1, <2>2, <2>3, Zenon
<1>12. CASE ~file.changed
  <2>1. /\ b.link = file.buf.link
        /\ SubSeq(b.data, 1, file.off) = SubSeq(file.buf.data, 1, file.off)
        /\ b.link = LAST => file.off = DataSize
        /\ b.link = e => Count(b) = file.off
    BY <1>2, <1>3, <1>12 DEF WrittenUpTo
  <2>2. Bytewise(e) = SubSeq(b.data, 1, file.off)
    <3>1. CASE b.link = e
      BY <1>3, <2>1, <3>1 DEF Bytewise
    <3>2. CASE b.link = LAST
      <4>1. SubSeq(b.data, 1, DataSize) = b.data /\ LAST # e
        BY <1>3, DataLemma, Volume
      <4> QED
        BY <1>3, <2>1, <3>2, <4>1 DEF Bytewise
    <3> QED
      BY <1>8, <3>1, <3>2
  <2>3. file.intent = d \o w
    BY <1>4, <1>7, <2>1, <2>2, Zenon
  <2> QED
    BY <1>9, <1>12, <2>3
<1> QED
  BY <1>11, <1>12

\* While lf_write reports no error, what it was given is on the media, but for the end
\* that the cached sector holds and marks as changed: lf_flush loses nothing, wherever
\* the writes and the sectors end and whenever the power failed before.
THEOREM MediaFollowsCacheHolds ==
  ASSUME SafeCalls, ~IoErrors
  PROVE  Spec => []MediaFollowsCache
<1>1. ASSUME ReadInv, WrittenSoFar PROVE MediaFollowsCache
  <2> SUFFICES ASSUME file # NoFile, pc = "idle" PROVE MediaFollowsCache
    BY DEF MediaFollowsCache
  <2>1. IInv /\ file.mode \in {"read"} \union WritingModes
    BY <1>1, FileLemma DEF ReadInv
  <2>2. CASE file.mode = "read"
    <3>1. ~file.changed /\ file.intent = Content(file.head)
      BY <1>1, <2>2 DEF ReadInv, ReadSoFar
    <3> QED
      BY <3>1 DEF MediaFollowsCache
  <2>3. CASE file.mode \in WritingModes
    BY <1>1, <2>1, <2>3, WhatIsWritten DEF MediaFollowsCache
  <2> QED
    BY <2>1, <2>2, <2>3
<1>2. (ReadInv /\ WrittenSoFar) => MediaFollowsCache
  BY <1>1
<1> QED
  BY <1>2, StoreIsWritten, PTL

-----------------------------------------------------------------------------
(* The cached sector is never behind what the media holds of it *)

\* What sector b on the media holds for the file f is the beginning of what f's cached
\* sector holds, and less than a sector if that one has changed.
AheadOf(b, f) ==
  /\ b.link \in {f.sect, LAST}
  /\ f.changed => b.link = f.sect
  /\ b.link = f.sect => Count(b) <= f.off /\ \A i \in 1..Count(b) : f.buf.data[i] = b.data[i]
  /\ f.buf.link = f.sect => Count(f.buf) = f.off

CacheAhead ==
  file # NoFile /\ file.mode \in WritingModes =>
    /\ \E d : Before(media, file.head, file.sect, d)
    /\ AheadOf(media[file.sect], file)
    /\ pc \in {"page0", "page1"} => file.changed

LEMMA NotAhead ==
  ASSUME file' = NoFile \/ file'.mode \notin WritingModes
  PROVE  CacheAhead'
BY CallsLemma DEF CacheAhead

\* Other sectors are claimed, or nothing is written.
LEMMA AheadStays ==
  ASSUME CacheAhead, file' = file, file # NoFile, pc' \in {"page0", "page1"} => file.changed,
         \A s \in DataSectors \ {file.sect} : media[s].link # 0 => media'[s] = media[s],
         media'[file.sect] = media[file.sect]
  PROVE  CacheAhead'
<1> SUFFICES ASSUME file.mode \in WritingModes PROVE CacheAhead'
  BY CallsLemma DEF CacheAhead
<1>1. PICK d : Before(media, file.head, file.sect, d)
  BY DEF CacheAhead
<1>2. Before(media', file.head, file.sect, d)
  BY <1>1, WayOfFile
<1>3. AheadOf(media'[file.sect], file')
  BY DEF CacheAhead
<1> QED
  BY <1>2, <1>3 DEF CacheAhead

\* A cached sector that has just been read, claimed or written.
LEMMA FreshAhead ==
  ASSUME IInv', WrittenSoFar', loc'.op # "close", pc' \notin {"page0", "page1"},
         file' # NoFile => /\ ~file'.changed
                           /\ file'.buf.link = file'.sect => Count(file'.buf) = file'.off
  PROVE  CacheAhead'
<1> SUFFICES ASSUME file' # NoFile, file'.mode \in WritingModes PROVE CacheAhead'
  BY NotAhead
<1>1. PICK m, f, filled : m = media' /\ f = file' /\ filled = Filled'
  OBVIOUS
<1>2. WrittenUpTo(m, f, filled)
  BY <1>1 DEF WrittenSoFar
<1>3. /\ f.sect \in DataSectors /\ m[f.sect] \in SectorSet /\ f.buf \in SectorSet
      /\ f.off \in 0..DataSize
  BY <1>1, Volume DEF IInv, StoreOK, FileOK, FileSet
<1>4. PICK b : b \in SectorSet /\ b = m[f.sect]
  BY <1>3
<1>5. /\ \E d : Before(m, f.head, f.sect, d)
      /\ b.link \in {f.sect, LAST} /\ b.link = f.buf.link /\ ~f.changed
      /\ SubSeq(b.data, 1, f.off) = SubSeq(f.buf.data, 1, f.off)
      /\ f.buf.link = f.sect => Count(b) = f.off /\ Count(f.buf) = f.off
  BY <1>1, <1>2, <1>4 DEF WrittenUpTo
<1>6. ASSUME b.link = f.sect, NEW i \in 1..Count(b) PROVE f.buf.data[i] = b.data[i]
  <2>1. i \in 1..f.off /\ f.off \in 0..DataSize
    BY <1>3, <1>5, <1>6
  <2>2. /\ b.data \in [1..DataSize -> Bytes] /\ f.buf.data \in [1..DataSize -> Bytes]
        /\ DataSize \in Nat
    BY <1>3, <1>4, SectorFields, Sizes
  <2>3. SubSeq(b.data, 1, f.off)[i] = b.data[i]
    BY <2>1, <2>2
  <2>4. SubSeq(f.buf.data, 1, f.off)[i] = f.buf.data[i]
    BY <2>1, <2>2
  <2> QED
    BY <1>5, <2>3, <2>4
<1>7. b.link = f.sect => Count(b) <= f.off
  BY <1>3, <1>5
<1>8. AheadOf(b, f)
  BY <1>5, <1>6, <1>7 DEF AheadOf
<1> QED
  BY <1>1, <1>4, <1>5, <1>8 DEF CacheAhead

LEMMA LoadAhead ==
  ASSUME IInv, IInv', WrittenSoFar', Load
  PROVE  CacheAhead'
<1>1. pc = "load" /\ pc' = "idle" /\ loc'.op = "none"
  BY NoCallTypes DEF Load, Finish
<1>2. file = NoFile /\ loc \in CallSet
  BY <1>1 DEF IInv, OpsOK
<1>3. PICK b : b = media[loc.ptr]
  OBVIOUS
<1>4. file' # NoFile => /\ ~file'.changed /\ file'.sect = loc.ptr /\ file'.buf = b
                        /\ file'.mode = loc.op
                        /\ file'.off = IF loc.op # "append" THEN 0
                                       ELSE IF b.link = LAST THEN DataSize ELSE Count(b)
  BY <1>2, <1>3 DEF Load
<1> SUFFICES ASSUME file' # NoFile, file'.mode \in WritingModes PROVE CacheAhead'
  BY NotAhead
<1>5. WrittenUpTo(media', file', Filled')
  BY <1>1 DEF WrittenSoFar
<1>6. file'.buf.link = file'.sect => Count(file'.buf) = file'.off
  <2>1. PICK m, f, filled : m = media' /\ f = file' /\ filled = Filled'
    OBVIOUS
  <2>2. WrittenUpTo(m, f, filled) /\ ~f.changed
    BY <1>4, <1>5, <2>1
  <2>3. f.buf.link = f.sect => Count(m[f.sect]) = f.off
    BY <2>2 DEF WrittenUpTo
  <2>4. media' = media
    BY DEF Load
  <2> QED
    BY <1>3, <1>4, <2>1, <2>3, <2>4
<1> QED
  BY <1>1, <1>4, <1>6, FreshAhead

LEMMA ChainAhead ==
  ASSUME IInv, IInv', WrittenSoFar, WrittenSoFar', ~IoErrors, Chain
  PROVE  CacheAhead'
<1>1. pc = "chain"
  BY DEF Chain
<1>2. /\ file # NoFile /\ file \in FileSet /\ loc.op = "none" /\ file.mode \in WritingModes
      /\ file.buf.link = LAST /\ file.sect \in DataSectors
  BY <1>1, FileLemma DEF IInv, OpsOK, FileOK
<1>3. PICK t \in DataSectors : t = loc.sect
  BY <1>1 DEF IInv, CallOK, Used
<1>4. /\ pc' = "write" /\ loc' = loc
      /\ file' = [file EXCEPT !.buf = EmptyData(t), !.sect = t, !.dataSect = t, !.off = 0]
  BY <1>3 DEF Chain, Write
<1>5. /\ file'.buf = EmptyData(t) /\ file'.off = 0 /\ file'.changed = file.changed
  BY <1>2, <1>4 DEF FileSet
<1>6. WrittenUpTo(media, file, Filled) /\ ~Filled
  BY <1>1, <1>2, CallsLemma DEF WrittenSoFar, Filled
<1>7. ~file.changed
  BY <1>2, <1>6, Volume DEF WrittenUpTo
<1>8. Count(EmptyData(t)) = 0
  BY EmptyDataTypes, Volume
<1> QED
  BY <1>2, <1>4, <1>5, <1>7, <1>8, FreshAhead, CallsLemma

LEMMA FillAhead ==
  ASSUME IInv, IInv', WrittenSoFar, WrittenSoFar', CacheAhead, Fill
  PROVE  CacheAhead'
<1> SUFFICES ASSUME file' # NoFile PROVE CacheAhead'
  BY NotAhead
<1>1. pc = "write" /\ media' = media /\ file.buf.link # LAST
  BY DEF Fill, FillMarking
<1>2. /\ file # NoFile /\ file \in FileSet /\ loc \in CallSet /\ loc.op = "none" /\ StoreOK
      /\ file.mode \in WritingModes /\ file.buf.link = file.sect /\ file.off \in 0..DataSize-1
      /\ file.buf \in SectorSet /\ file.sect \in DataSectors
  BY <1>1, FileLemma DEF IInv, OpsOK, FileOK
<1>3. PICK n \in Nat : /\ n = Min({DataSize - file.off, Len(todo)})
                       /\ file.off + n \in 0..DataSize
  BY FillLemma
<1> DEFINE filled == file.off + n
           data == [i \in 1..DataSize |->
                      IF i \in file.off+1 .. filled THEN todo[i - file.off]
                      ELSE IF i = DataSize          THEN filled
                      ELSE file.buf.data[i]]
           link == IF filled = DataSize THEN LAST ELSE file.buf.link
           off == IF filled = DataSize THEN file.off ELSE filled
           intent == file.intent \o SubSeq(todo, 1, n)
           changed == TRUE \/ filled = DataSize
<1>4. /\ file' = [file EXCEPT !.buf.data = data, !.buf.link = link, !.off = off,
                              !.changed = changed, !.intent = intent]
      /\ pc' = (IF filled = DataSize THEN "page0" ELSE "idle")
      /\ loc' = [loc EXCEPT !.at = IF filled = DataSize THEN file.sect ELSE 0]
  BY <1>3 DEF Fill, FillMarking
<1>5. changed
  OBVIOUS
<1>6. /\ file'.mode = file.mode /\ file'.head = file.head /\ file'.sect = file.sect
      /\ file'.buf.data = data /\ file'.buf.link = link /\ file'.off = off
      /\ file'.changed
  <2> HIDE DEF data, link, off, changed, intent
  <2> QED
    BY <1>2, <1>4, <1>5 DEF FileSet, SectorSet
<1>7. PICK b : b \in SectorSet /\ b = media[file.sect]
  BY <1>2, Volume DEF StoreOK
<1>8. b.link = file.sect
  <2>1. CASE file.changed
    BY <1>2, <1>7, <2>1 DEF CacheAhead, AheadOf
  <2>2. CASE ~file.changed
    <3>1. WrittenUpTo(media, file, Filled)
      BY <1>2, CallsLemma DEF WrittenSoFar
    <3> QED
      BY <1>2, <1>7, <2>2, <3>1 DEF WrittenUpTo
  <2> QED
    BY <2>1, <2>2
<1>9. /\ Count(b) <= file.off /\ Count(b) \in 0..DataSize-1
      /\ \A i \in 1..Count(b) : file.buf.data[i] = b.data[i]
  BY <1>2, <1>7, <1>8 DEF CacheAhead, AheadOf, StoreOK, MarksOK
<1>10. Count(b) <= off
  BY <1>2, <1>3, <1>9
<1>11. ASSUME NEW i \in 1..Count(b) PROVE file'.buf.data[i] = b.data[i]
  <2>1. i \in 1..DataSize /\ i # DataSize /\ i \notin file.off+1 .. filled
    BY <1>2, <1>3, <1>9, Sizes
  <2>2. data[i] = file.buf.data[i]
    BY <2>1
  <2> QED
    BY <1>6, <1>9, <2>2
<1>12. file'.buf.link = file'.sect => Count(file'.buf) = file'.off
  <2> SUFFICES ASSUME file'.buf.link = file'.sect PROVE Count(file'.buf) = file'.off
    OBVIOUS
  <2>1. filled # DataSize
    BY <1>2, <1>6, Volume
  <2>2. DataSize \in 1..DataSize /\ DataSize \notin file.off+1 .. filled
    BY <1>2, <1>3, <2>1, Sizes
  <2>3. data[DataSize] = filled
    BY <2>2
  <2> QED
    BY <1>6, <2>1, <2>3 DEF Count
<1>13. AheadOf(b, file')
  <2> HIDE DEF data, off
  <2> QED
    BY <1>6, <1>8, <1>10, <1>11, <1>12 DEF AheadOf
<1>14. PICK d : Before(media, file.head, file.sect, d)
  BY <1>2 DEF CacheAhead
<1>15. Before(media', file'.head, file'.sect, d) /\ media'[file'.sect] = b
  BY <1>1, <1>6, <1>7, <1>14
<1> QED
  BY <1>6, <1>13, <1>15 DEF CacheAhead

\* The first page takes over what the cached sector holds.
LEMMA FirstPageData ==
  ASSUME media \in [Sectors -> SectorSet], NEW s \in Sectors, NEW b \in SectorSet,
         media' = [media EXCEPT ![s] = FirstPage(@, b)], NEW i \in 1..DataSize
  PROVE  media'[s].data[i] \in {media[s].data[i], b.data[i]}
<1>1. media'[s] = FirstPage(media[s], b) /\ media[s] \in SectorSet
  OBVIOUS
<1>2. FirstPage(media[s], b).data =
        [x \in 1..DataSize |-> IF x <= FirstPageSize(DataSize) THEN b.data[x] ELSE media[s].data[x]]
  BY <1>1 DEF FirstPage, SectorSet
<1> QED
  BY <1>1, <1>2

LEMMA FirstPageAhead ==
  ASSUME IInv, CacheAhead, ~IoErrors, WriteFirstPage, file # NoFile
  PROVE  CacheAhead'
<1>1. /\ pc = "page0" /\ pc' = "page1" /\ file' = file
      /\ media' = [media EXCEPT ![loc.at] = FirstPage(@, Image)]
  BY DEF WriteFirstPage, Write, Goto
<1>2. /\ StoreOK /\ loc.at = file.sect /\ Image = file.buf /\ file.buf \in SectorSet
      /\ file.sect \in DataSectors /\ file.mode \in WritingModes
  BY <1>1, FlushLemma, FileLemma
<1>3. PICK s \in Sectors, b \in SectorSet : s = file.sect /\ b = file.buf
  BY <1>2, Volume
<1>4. media' = [media EXCEPT ![s] = FirstPage(@, b)]
  BY <1>1, <1>2, <1>3
<1>5. /\ \A x \in Sectors \ {s} : media'[x] = media[x]
      /\ media'[s].link = media[s].link /\ Count(media'[s]) = Count(media[s])
  BY <1>2, <1>4, FirstPageLemma DEF StoreOK, SameLinks
<1>6. PICK d : Before(media, file.head, file.sect, d)
  BY <1>2 DEF CacheAhead
<1>7. Before(media', file.head, file.sect, d)
  <2>1. \A x \in DataSectors \ {file.sect} : media[x].link # 0 => media'[x] = media[x]
    BY <1>3, <1>5, Volume
  <2> QED
    BY <1>6, <2>1, WayOfFile
<1>8. AheadOf(media[s], file) /\ file.changed
  BY <1>1, <1>2, <1>3 DEF CacheAhead
<1>9. Count(media[s]) \in 0..DataSize-1
  BY <1>2, <1>3, <1>8 DEF AheadOf, StoreOK, MarksOK
<1>10. ASSUME NEW i \in 1..Count(media[s]) PROVE file.buf.data[i] = media'[s].data[i]
  <2>1. i \in 1..DataSize
    BY <1>9, Sizes
  <2>2. media'[s].data[i] \in {media[s].data[i], b.data[i]}
    BY <1>2, <1>4, <2>1, FirstPageData DEF StoreOK
  <2>3. file.buf.data[i] = media[s].data[i]
    BY <1>8 DEF AheadOf
  <2> QED
    BY <1>3, <2>2, <2>3
<1>11. AheadOf(media'[s], file)
  BY <1>5, <1>8, <1>10 DEF AheadOf
<1> QED
  BY <1>1, <1>3, <1>7, <1>8, <1>11 DEF CacheAhead

LEMMA SecondPageAhead ==
  ASSUME IInv, IInv', WrittenSoFar', ~IoErrors, WriteSecondPage, file # NoFile
  PROVE  CacheAhead'
<1>1. pc = "page1" /\ SectorWritten
  BY DEF WriteSecondPage, Write
<1>2. /\ loc.op \in {"none", "close"} /\ file.sect \in DataSectors /\ file \in FileSet
      /\ (loc.op = "none" => file.buf.link = LAST)
  BY <1>1, FlushLemma, FileLemma
<1>3. CASE loc.op = "close"
  BY <1>1, <1>3, NotAhead DEF SectorWritten
<1>4. CASE loc.op = "none"
  <2>1. /\ pc' = "write" /\ loc'.op = "none"
        /\ file' = [file EXCEPT !.changed = FALSE, !.off = DataSize]
    BY <1>1, <1>4, NoCallTypes DEF SectorWritten
  <2>2. file'.buf = file.buf /\ file'.sect = file.sect /\ ~file'.changed
    BY <1>2, <2>1 DEF FileSet
  <2>3. file'.buf.link # file'.sect
    BY <1>2, <1>4, <2>2, Volume
  <2> QED
    BY <2>1, <2>2, <2>3, FreshAhead
<1> QED
  BY <1>2, <1>3, <1>4

LEMMA AheadNext ==
  ASSUME FaultFree, IInv, IInv', WrittenSoFar, WrittenSoFar', CacheAhead, [Next]_vars
  PROVE  CacheAhead'
<1>1. ~IoErrors
  BY DEF FaultFree
<1>2. CASE \/ \E n \in Names, mode \in Modes : Open(n, mode)
           \/ \E names \in Deletes : Delete(names)
  BY <1>2, NotAhead DEF Open, Delete
<1>3. ASSUME file' = file, media' = media, pc' \in {"page0", "page1"} => file.changed
      PROVE  CacheAhead'
  BY <1>3, AheadStays, NotAhead
<1>4. CASE (\E d \in Writes : CallWrite(d)) \/ WriteReturns
  BY <1>3, <1>4 DEF CallWrite, WriteReturns, Goto
<1>5. ASSUME NEW k \in Reads, CallRead(k) PROVE CacheAhead'
  <2>1. file \in FileSet /\ file.mode = "read" /\ file' = [file EXCEPT !.ended = FALSE]
    BY <1>5, FileLemma DEF CallRead
  <2>2. file'.mode = "read"
    BY <2>1 DEF FileSet
  <2> QED
    BY <2>2, NotAhead, CallsLemma
<1>6. CASE Close
  BY <1>3, <1>6, NotAhead DEF Close
<1>7. CASE Find \/ Add \/ AddRecord \/ Truncate \/ Clean \/ DelRecord \/ FindEof
  <2>1. file' = file /\ pc \in {"find", "add", "record", "truncate", "clean", "erase", "eof"}
    BY <1>7 DEF Find, Add, AddRecord, Truncate, Clean, DelRecord, FindEof
  <2>2. file = NoFile
    BY <2>1 DEF IInv, OpsOK
  <2> QED
    BY <2>1, <2>2, NotAhead
<1>8. CASE Load
  BY <1>8, LoadAhead
<1>9. CASE ClaimNext
  <2>1. /\ pc = "write" /\ file' = file /\ pc' \in {"chain", "idle"}
        /\ \/ media' = media
           \/ FreeData # {} /\ media' = Claimed(Min(FreeData))
    BY <1>9 DEF ClaimNext, Write, GiveUpWriting, Finish
  <2>2. /\ file # NoFile /\ StoreOK /\ RecordsUsed /\ Used(file.sect)
        /\ \A p : ~Deleting(p)
    BY <2>1, FileLemma, NotDeleting DEF IInv, OpsOK
  <2>3. CASE FreeData # {} /\ media' = Claimed(Min(FreeData))
    <3>1. PICK s \in DataSectors : s = Min(FreeData) /\ Free(s)
      BY <2>3, FreeDataLemma
    <3>2. \A x \in Sectors \ {s} : media'[x] = media[x]
      BY <2>2, <2>3, <3>1, ClaimMedia DEF FreshlyClaimed
    <3>3. media[s].link = 0 /\ s # file.sect
      BY <2>2, <3>1 DEF Free, Used
    <3>4. /\ \A x \in DataSectors \ {file.sect} : media[x].link # 0 => media'[x] = media[x]
          /\ media'[file.sect] = media[file.sect]
      BY <2>2, <3>2, <3>3, Volume DEF Used
    <3> QED
      BY <2>1, <2>2, <3>4, AheadStays
  <2> QED
    BY <1>3, <2>1, <2>3
<1>10. CASE Chain
  BY <1>1, <1>10, ChainAhead
<1>11. CASE Fill
  BY <1>11, FillAhead
<1>12. CASE WriteFirstPage \/ WriteSecondPage
  <2>1. CASE file # NoFile
    BY <1>1, <1>12, <2>1, FirstPageAhead, SecondPageAhead
  <2>2. CASE file = NoFile
    <3>1. loc.op # "close"
      BY <1>12, <2>2, CallsLemma DEF WriteFirstPage, WriteSecondPage, IInv, OpsOK
    <3>2. SectorWritten => file' = NoFile
      BY <2>2, <3>1, CallsLemma, <1>12 DEF SectorWritten, WriteFirstPage, WriteSecondPage, IInv, OpsOK
    <3>3. file' = NoFile
      BY <1>1, <1>12, <2>2, <3>1, <3>2 DEF WriteFirstPage, WriteSecondPage, Write
    <3> QED
      BY <3>3, NotAhead
  <2> QED
    BY <2>1, <2>2
<1>13. CASE ReadStep
  <2>1. file # NoFile /\ file.mode = "read" /\ file \in FileSet
    BY <1>13, FileLemma DEF ReadStep, IInv, OpsOK, FileOK
  <2> DEFINE b == Cached
             n == IF Valid(b) > file.off THEN Min({Valid(b) - file.off, loc.want}) ELSE 0
             g == SubSeq(b.data, file.off + 1, file.off + n)
             s == b.link
             e == loc.want > 0
             cached == [file EXCEPT !.buf = b, !.dataSect = file.sect]
  <2>2. \/ file' = [cached EXCEPT !.off = @ + n, !.got = @ \o g]
        \/ file' = [cached EXCEPT !.sect = s, !.off = 0]
        \/ file' = [cached EXCEPT !.ended = e]
        \/ file' = file
    BY <1>13 DEF ReadStep
  <2>3. file'.mode = "read"
    <3> HIDE DEF b, n, g, s, e
    <3> QED
      BY <2>1, <2>2 DEF FileSet
  <2> QED
    BY <2>3, NotAhead, CallsLemma
<1>14. ~Format /\ ~PowerCut /\ ~Release
  BY DEF Format, PowerCut, Release, FaultFree, IInv, OpsOK
<1>15. CASE UNCHANGED vars
  <2>1. media' = media /\ pc' = pc /\ file' = file
    BY <1>15 DEF vars
  <2>2. CASE file = NoFile
    BY <2>1, <2>2, NotAhead
  <2>3. CASE file # NoFile /\ file.mode \notin WritingModes
    BY <2>1, <2>3, NotAhead
  <2>4. CASE file # NoFile /\ file.mode \in WritingModes
    BY <2>1, <2>4, AheadStays DEF CacheAhead
  <2> QED
    BY <2>2, <2>3, <2>4
<1> QED
  BY <1>2, <1>4, <1>5, <1>6, <1>7, <1>8, <1>9, <1>10, <1>11, <1>12, <1>13, <1>14, <1>15
     DEF Next, CallStep

-----------------------------------------------------------------------------
(* The files on the media, and which write changes which of them *)

\* Content by what one sector holds and what the next one leads to.
ContentIs ==
  StoreOK =>
    \E f : /\ \A s \in DataSectors : f[0][s] = <<>> /\ Content(s) = f[SectorCount][s]
           /\ \A n \in 1..SectorCount, s \in DataSectors :
                f[n][s] = IF media[s].link \in {s, 0, LAST} THEN Bytewise(s)
                            ELSE Bytewise(s) \o f[n - 1][media[s].link]

LEMMA ContentUnfolds == ContentIs
<1> SUFFICES ASSUME StoreOK PROVE ContentIs
  BY DEF ContentIs
<1>1. PICK f : ContentUpTo(f) /\ \A h \in DataSectors : Content(h) = f[SectorCount][h]
  BY ContentLemma
<1>2. \A s \in DataSectors : f[0][s] = <<>>
  BY <1>1 DEF ContentUpTo
<1>3. ASSUME NEW n \in 1..SectorCount, NEW s \in DataSectors
      PROVE  f[n][s] = IF media[s].link \in {s, 0, LAST} THEN Bytewise(s)
                         ELSE Bytewise(s) \o f[n - 1][media[s].link]
  <2>1. f[n] = LongerBy(f[n-1])
    BY <1>1 DEF ContentUpTo
  <2> QED
    BY <2>1, Zenon DEF LongerBy
<1> QED
  BY <1>1, <1>2, <1>3 DEF ContentIs

LEMMA ContentUnfoldsNext == ContentIs'
BY ContentUnfolds, PTL

\* Sectors that lead to none but each other hold what they held if they keep their
\* links and their bytes.
LEMMA ContentKept ==
  ASSUME StoreOK, StoreOK', NEW S \in SUBSET DataSectors,
         \A x \in S : media[x].link \in S \union {0, LAST},
         \A x \in S : media'[x].link = media[x].link /\ Bytewise(x)' = Bytewise(x),
         NEW h \in S
  PROVE  Content(h)' = Content(h)
<1>1. PICK f : /\ \A s \in DataSectors : f[0][s] = <<>> /\ Content(s) = f[SectorCount][s]
               /\ \A n \in 1..SectorCount, s \in DataSectors :
                    f[n][s] = IF media[s].link \in {s, 0, LAST} THEN Bytewise(s)
                                ELSE Bytewise(s) \o f[n - 1][media[s].link]
  BY ContentUnfolds DEF ContentIs
<1>2. PICK g : /\ \A s \in DataSectors : g[0][s] = <<>> /\ Content(s)' = g[SectorCount][s]
               /\ \A n \in 1..SectorCount, s \in DataSectors :
                    g[n][s] = IF media'[s].link \in {s, 0, LAST} THEN Bytewise(s)'
                                ELSE Bytewise(s)' \o g[n - 1][media'[s].link]
  BY ContentUnfoldsNext DEF ContentIs
<1> DEFINE W == {n \in Nat : n <= SectorCount /\ \E x \in S : f[n][x] # g[n][x]}
<1>3. W = {}
  <2> SUFFICES ASSUME W # {} PROVE FALSE
    OBVIOUS
  <2>1. PICK n \in W : \A x \in W : n <= x
    <3>1. W \in SUBSET Nat
      OBVIOUS
    <3> HIDE DEF W
    <3> QED
      BY <3>1, LeastLemma
  <2>2. PICK x \in S : f[n][x] # g[n][x]
    BY <2>1
  <2>3. n # 0 /\ n \in Nat /\ n <= SectorCount /\ x \in DataSectors
    BY <1>1, <1>2, <2>1, <2>2
  <2>4. n \in 1..SectorCount /\ n - 1 \in Nat /\ n - 1 <= SectorCount /\ ~(n <= n - 1)
    BY <2>3, Sizes
  <2>5. \A y \in S : f[n-1][y] = g[n-1][y]
    BY <2>1, <2>4
  <2>6. media[x].link \notin {x, 0, LAST} => media[x].link \in S
    BY <2>2
  <2>7. f[n][x] = IF media[x].link \in {x, 0, LAST} THEN Bytewise(x)
                    ELSE Bytewise(x) \o f[n - 1][media[x].link]
    BY <1>1, <2>3, <2>4
  <2>8. g[n][x] = IF media[x].link \in {x, 0, LAST} THEN Bytewise(x)
                    ELSE Bytewise(x) \o g[n - 1][media[x].link]
    BY <1>2, <2>2, <2>3, <2>4
  <2>9. media[x].link \notin {x, 0, LAST} => f[n-1][media[x].link] = g[n-1][media[x].link]
    BY <2>5, <2>6
  <2> HIDE DEF W
  <2> QED
    BY <2>2, <2>7, <2>8, <2>9
<1>4. SectorCount \in Nat /\ SectorCount <= SectorCount
  BY Sizes
<1>5. f[SectorCount][h] = g[SectorCount][h]
  BY <1>3, <1>4
<1> QED
  BY <1>1, <1>2, <1>5

\* Record p is of a file with the name n that holds c.
Is(p, n, c) ==
  /\ p \in Recs /\ RecordAt(p).name = n
  /\ \E h \in DataSectors : h = RecordAt(p).fptr /\ Used(h) /\ Content(h) = c

FilesAre ==
  WholeInv =>
    /\ Files = [n \in DOMAIN Files |-> Files[n]]
    /\ \A n, c : n \in DOMAIN Files /\ Files[n] = c <=> \E p : Is(p, n, c)

LEMMA FilesLemma == FilesAre
<1> SUFFICES ASSUME WholeInv PROVE FilesAre
  BY DEF FilesAre
<1>1. IInv /\ StoreOK /\ Indexed /\ NamesOK
  BY DEF WholeInv, IInv
<1>2. \A p : p \in Positions <=> p \in Recs
  <2>1. \A p \in Positions : p \in Recs
    BY <1>1, PositionsLemma
  <2>2. \A p \in Recs : p \in Positions
    BY <1>1 DEF Recs, Positions, RecordAt, Indexed
  <2> QED
    BY <2>1, <2>2
<1>3. ASSUME NEW p \in Recs PROVE Exists(p) <=> Used(RecordAt(p).fptr)
  <2>1. RecordAt(p).fptr \in DataSectors /\ ~media[RecordAt(p).fptr].index
    BY <1>1 DEF StoreOK, RecordsOK
  <2>2. media[RecordAt(p).fptr].link = 0 => Count(media[RecordAt(p).fptr]) = 0
    BY <1>1, <2>1, Volume DEF StoreOK, MarksOK
  <2> QED
    BY <2>1, <2>2 DEF Exists, Free, Used
<1> DEFINE D == {RecordAt(p).name : p \in {q \in Positions : Exists(q)}}
<1>4. \A n : n \in D <=> \E p \in Recs : Used(RecordAt(p).fptr) /\ RecordAt(p).name = n
  BY <1>2, <1>3
<1>5. ASSUME NEW p \in Recs, Used(RecordAt(p).fptr) PROVE FileOf(RecordAt(p).name) = p
  <2> DEFINE n == RecordAt(p).name
  <2>1. p \in Positions /\ RecordAt(p).name = n /\ Exists(p)
    BY <1>2, <1>3, <1>5
  <2>2. FileOf(n) \in Positions /\ RecordAt(FileOf(n)).name = n
    BY <2>1 DEF FileOf
  <2> QED
    BY <1>1, <1>2, <2>2 DEF NamesOK
<1>6. Files = [n \in D |-> Content(RecordAt(FileOf(n)).fptr)]
  BY DEF Files
<1> HIDE DEF D
<1>7. DOMAIN Files = D /\ \A n \in D : Files[n] = Content(RecordAt(FileOf(n)).fptr)
  BY <1>6
<1>8. ASSUME NEW n, NEW c, n \in D, Files[n] = c PROVE \E p : Is(p, n, c)
  <2>1. PICK p \in Recs : Used(RecordAt(p).fptr) /\ RecordAt(p).name = n
    BY <1>4, <1>8
  <2>2. FileOf(n) = p
    BY <1>5, <2>1
  <2>3. PICK h \in DataSectors : h = RecordAt(p).fptr
    BY <1>1 DEF StoreOK, RecordsOK
  <2>4. Content(h) = c /\ Used(h)
    BY <1>7, <1>8, <2>1, <2>2, <2>3
  <2> QED
    BY <2>1, <2>3, <2>4 DEF Is
<1>9. ASSUME NEW n, NEW c, NEW p, Is(p, n, c) PROVE n \in D /\ Files[n] = c
  <2>1. PICK h \in DataSectors : h = RecordAt(p).fptr /\ Used(h) /\ Content(h) = c
    BY <1>9 DEF Is
  <2>2. p \in Recs /\ RecordAt(p).name = n /\ Used(RecordAt(p).fptr)
    BY <1>9, <2>1 DEF Is
  <2>3. n \in D /\ FileOf(n) = p
    BY <1>4, <1>5, <2>2
  <2> QED
    BY <1>7, <2>1, <2>3
<1>10. Files = [n \in DOMAIN Files |-> Files[n]]
  BY <1>6, <1>7
<1>11. \A n, c : n \in DOMAIN Files /\ Files[n] = c <=> \E p : Is(p, n, c)
  BY <1>7, <1>8, <1>9
<1> QED
  BY <1>10, <1>11 DEF FilesAre

LEMMA FilesNext == FilesAre'
BY FilesLemma, PTL

\* Of two functions, the one is the other but for what they do with k.
SameBut(F, G, k) ==
  /\ F = [n \in DOMAIN F |-> F[n]] /\ G = [n \in DOMAIN G |-> G[n]]
  /\ \A n, c : n # k => ((n \in DOMAIN F /\ F[n] = c) <=> (n \in DOMAIN G /\ G[n] = c))

LEMMA SameButDomains ==
  ASSUME NEW F, NEW G, NEW k, SameBut(F, G, k)
  PROVE  \A n : n # k => /\ n \in DOMAIN F <=> n \in DOMAIN G
                         /\ n \in DOMAIN F => F[n] = G[n]
<1> SUFFICES ASSUME NEW n, n # k
             PROVE  (n \in DOMAIN F <=> n \in DOMAIN G) /\ (n \in DOMAIN F => F[n] = G[n])
  OBVIOUS
<1>1. \A c : (n \in DOMAIN F /\ F[n] = c) <=> (n \in DOMAIN G /\ G[n] = c)
  BY DEF SameBut
<1> QED
  BY <1>1

LEMMA SameButNothing ==
  ASSUME NEW F, NEW G, NEW k, SameBut(F, G, k),
         \A c : (k \in DOMAIN F /\ F[k] = c) <=> (k \in DOMAIN G /\ G[k] = c)
  PROVE  G = F
<1>1. F = [n \in DOMAIN F |-> F[n]] /\ G = [n \in DOMAIN G |-> G[n]]
  BY DEF SameBut
<1>2. \A n : n \in DOMAIN F <=> n \in DOMAIN G
  BY SameButDomains
<1>3. DOMAIN G = DOMAIN F
  BY <1>2
<1>4. \A n \in DOMAIN F : F[n] = G[n]
  BY SameButDomains
<1> QED
  BY <1>1, <1>3, <1>4

\* The function F with k empty.
AndEmpty(F, k) == [m \in DOMAIN F \union {k} |-> IF m = k THEN <<>> ELSE F[m]]

LEMMA SameButEmptied ==
  ASSUME NEW F, NEW G, NEW k, SameBut(F, G, k), k \in DOMAIN G, G[k] = <<>>
  PROVE  G = AndEmpty(F, k)
<1>1. G = [n \in DOMAIN G |-> G[n]]
  BY DEF SameBut
<1>2. \A n : n \in DOMAIN F \union {k} <=> n \in DOMAIN G
  BY SameButDomains
<1>3. DOMAIN G = DOMAIN F \union {k}
  BY <1>2
<1>4. \A n \in DOMAIN G : G[n] = IF n = k THEN <<>> ELSE F[n]
  BY SameButDomains
<1> QED
  BY <1>1, <1>3, <1>4 DEF AndEmpty

LEMMA SameButRemoved ==
  ASSUME NEW F, NEW G, NEW k, SameBut(F, G, k), k \notin DOMAIN G
  PROVE  G = [m \in DOMAIN F \ {k} |-> F[m]]
<1>1. G = [n \in DOMAIN G |-> G[n]]
  BY DEF SameBut
<1>2. \A n : n \in DOMAIN F \ {k} <=> n \in DOMAIN G
  BY SameButDomains
<1>3. DOMAIN G = DOMAIN F \ {k}
  BY <1>2
<1>4. \A n \in DOMAIN G : G[n] = F[n]
  BY SameButDomains
<1> QED
  BY <1>1, <1>3, <1>4

\* A record and the file it is of stay as they are.
FileStaysAsIs(p) ==
  \E h \in DataSectors :
    /\ p \in Recs /\ p \in Recs' /\ RecordAt(p)' = RecordAt(p) /\ RecordAt(p).fptr = h
    /\ Used(h)' <=> Used(h)
    /\ Used(h) => Content(h)' = Content(h)

LEMMA IsKept ==
  ASSUME NEW p, FileStaysAsIs(p), NEW n, NEW c
  PROVE  Is(p, n, c)' <=> Is(p, n, c)
<1>1. PICK h \in DataSectors :
        /\ p \in Recs /\ p \in Recs' /\ RecordAt(p)' = RecordAt(p) /\ RecordAt(p).fptr = h
        /\ Used(h)' <=> Used(h)
        /\ Used(h) => Content(h)' = Content(h)
  BY DEF FileStaysAsIs
<1>2. Is(p, n, c) <=> RecordAt(p).name = n /\ Used(h) /\ Content(h) = c
  BY <1>1 DEF Is
<1>3. Is(p, n, c)' <=> RecordAt(p)'.name = n /\ Used(h)' /\ Content(h)' = c
  BY <1>1 DEF Is
<1> QED
  BY <1>1, <1>2, <1>3

\* Every file stays as it is.
LEMMA FilesStay ==
  ASSUME WholeInv, WholeInv', Recs' = Recs, \A p \in Recs : FileStaysAsIs(p)
  PROVE  Files' = Files
<1>1. ASSUME NEW p, NEW n, NEW c PROVE Is(p, n, c)' <=> Is(p, n, c)
  <2>1. CASE p \in Recs
    BY <2>1, IsKept
  <2>2. CASE p \notin Recs
    BY <2>2 DEF Is
  <2> QED
    BY <2>1, <2>2
<1>2. /\ Files = [n \in DOMAIN Files |-> Files[n]]
      /\ \A n, c : (n \in DOMAIN Files /\ Files[n] = c) <=> \E p : Is(p, n, c)
  BY FilesLemma DEF FilesAre
<1>3. /\ Files' = [n \in DOMAIN Files' |-> Files'[n]]
      /\ \A n, c : (n \in DOMAIN Files' /\ Files'[n] = c) <=> \E p : Is(p, n, c)'
  BY FilesNext DEF FilesAre
<1> DEFINE F == Files
           G == Files'
<1>4. SameBut(F, G, 0)
  BY <1>1, <1>2, <1>3 DEF SameBut
<1>5. \A c : (0 \in DOMAIN F /\ F[0] = c) <=> (0 \in DOMAIN G /\ G[0] = c)
  BY <1>1, <1>2, <1>3
<1> HIDE DEF F, G
<1>6. G = F
  BY <1>4, <1>5, SameButNothing
<1> QED
  BY <1>6 DEF F, G

\* Of the files, only that of record q with the name k may change.
OnlyFile(q, k) ==
  /\ \A p : p # q => /\ p \in Recs <=> p \in Recs'
                     /\ p \in Recs => FileStaysAsIs(p) /\ RecordAt(p).name # k
  /\ q \in Recs => RecordAt(q).name = k
  /\ q \in Recs' => RecordAt(q)'.name = k

LEMMA OneFile ==
  ASSUME WholeInv, WholeInv', NEW q, NEW k, OnlyFile(q, k)
  PROVE  /\ SameBut(Files, Files', k)
         /\ \A c : (k \in DOMAIN Files /\ Files[k] = c) <=> Is(q, k, c)
         /\ \A c : (k \in DOMAIN Files' /\ Files'[k] = c) <=> Is(q, k, c)'
<1>1. ASSUME NEW p, p # q, NEW n, NEW c
      PROVE  (Is(p, n, c)' <=> Is(p, n, c)) /\ (Is(p, n, c) => n # k)
  <2>1. CASE p \in Recs
    BY <1>1, <2>1, IsKept DEF OnlyFile, Is
  <2>2. CASE p \notin Recs
    BY <1>1, <2>2 DEF OnlyFile, Is
  <2> QED
    BY <2>1, <2>2
<1>2. \A n, c : (Is(q, n, c) => n = k) /\ (Is(q, n, c)' => n = k)
  BY DEF OnlyFile, Is
<1>3. /\ Files = [n \in DOMAIN Files |-> Files[n]]
      /\ \A n, c : (n \in DOMAIN Files /\ Files[n] = c) <=> \E p : Is(p, n, c)
  BY FilesLemma DEF FilesAre
<1>4. /\ Files' = [n \in DOMAIN Files' |-> Files'[n]]
      /\ \A n, c : (n \in DOMAIN Files' /\ Files'[n] = c) <=> \E p : Is(p, n, c)'
  BY FilesNext DEF FilesAre
<1>5. ASSUME NEW n, NEW c, n # k
      PROVE  (\E p : Is(p, n, c)) <=> (\E p : Is(p, n, c)')
  BY <1>1, <1>2, <1>5
<1>6. SameBut(Files, Files', k)
  BY <1>3, <1>4, <1>5 DEF SameBut
<1>7. ASSUME NEW c
      PROVE  ((\E p : Is(p, k, c)) <=> Is(q, k, c)) /\ ((\E p : Is(p, k, c)') <=> Is(q, k, c)')
  BY <1>1
<1> QED
  BY <1>3, <1>4, <1>6, <1>7

\* The same for a step of FileStore.
Refines == Files' = Files \/ Store!Next

LEMMA Creates ==
  ASSUME WholeInv, WholeInv', NEW q, NEW k \in Names, OnlyFile(q, k),
         \A c : ~Is(q, k, c), Is(q, k, <<>>)'
  PROVE  Refines
<1>1. /\ SameBut(Files, Files', k)
      /\ k \notin DOMAIN Files
      /\ k \in DOMAIN Files' /\ Files'[k] = <<>>
  BY OneFile
<1>2. Files' = AndEmpty(Files, k)
  <2>1. PICK F, G : F = Files /\ G = Files'
    OBVIOUS
  <2>2. SameBut(F, G, k) /\ k \in DOMAIN G /\ G[k] = <<>>
    BY <1>1, <2>1
  <2>3. G = AndEmpty(F, k)
    BY <2>2, SameButEmptied
  <2> QED
    BY <2>1, <2>3
<1>3. Store!CreateFile(k)
  BY <1>1, <1>2 DEF Store!CreateFile, Store!Emptied, AndEmpty
<1> QED
  BY <1>3 DEF Refines, Store!Next

LEMMA Empties ==
  ASSUME WholeInv, WholeInv', NEW q, NEW k \in Names, OnlyFile(q, k),
         NEW c, Is(q, k, c), Is(q, k, <<>>)'
  PROVE  Refines
<1>1. /\ SameBut(Files, Files', k)
      /\ k \in DOMAIN Files
      /\ k \in DOMAIN Files' /\ Files'[k] = <<>>
  BY OneFile
<1>2. Files' = AndEmpty(Files, k)
  <2>1. PICK F, G : F = Files /\ G = Files'
    OBVIOUS
  <2>2. SameBut(F, G, k) /\ k \in DOMAIN G /\ G[k] = <<>>
    BY <1>1, <2>1
  <2>3. G = AndEmpty(F, k)
    BY <2>2, SameButEmptied
  <2> QED
    BY <2>1, <2>3
<1>3. Store!TruncateFile(k)
  BY <1>1, <1>2 DEF Store!TruncateFile, Store!Emptied, AndEmpty
<1> QED
  BY <1>3 DEF Refines, Store!Next

LEMMA Removes ==
  ASSUME WholeInv, WholeInv', NEW q, NEW k \in Names, OnlyFile(q, k),
         NEW c, Is(q, k, c), \A d : ~Is(q, k, d)'
  PROVE  Refines
<1>1. /\ SameBut(Files, Files', k)
      /\ k \in DOMAIN Files
      /\ k \notin DOMAIN Files'
  BY OneFile
<1>2. Files' = [m \in DOMAIN Files \ {k} |-> Files[m]]
  <2> DEFINE F == Files
             G == Files'
  <2>1. SameBut(F, G, k) /\ k \notin DOMAIN G
    BY <1>1
  <2> HIDE DEF F, G
  <2>2. G = [m \in DOMAIN F \ {k} |-> F[m]]
    BY <2>1, SameButRemoved
  <2> QED
    BY <2>2 DEF F, G
<1>3. Store!RemoveFile(k)
  BY <1>1, <1>2 DEF Store!RemoveFile
<1> QED
  BY <1>3 DEF Refines, Store!Next

LEMMA Extends ==
  ASSUME WholeInv, WholeInv', NEW q, NEW k \in Names, OnlyFile(q, k),
         NEW c \in Seq(Bytes), Is(q, k, c), NEW r \in Seq(Bytes), Is(q, k, c \o r)'
  PROVE  Refines
<1>1. /\ SameBut(Files, Files', k)
      /\ \A x : (k \in DOMAIN Files /\ Files[k] = x) <=> Is(q, k, x)
      /\ \A x : (k \in DOMAIN Files' /\ Files'[k] = x) <=> Is(q, k, x)'
  BY OneFile
<1>2. k \in DOMAIN Files /\ Files[k] = c
  BY <1>1
<1>3. k \in DOMAIN Files' /\ Files'[k] = c \o r
  BY <1>1
<1> DEFINE F == Files
           G == Files'
<1>4. SameBut(F, G, k) /\ k \in DOMAIN F /\ F[k] = c /\ k \in DOMAIN G /\ G[k] = c \o r
  BY <1>1, <1>2, <1>3
<1> HIDE DEF F, G
<1>5. CASE c \o r = c
  <2>1. G = F
    BY <1>4, <1>5, SameButNothing
  <2> QED
    BY <2>1 DEF F, G, Refines
<1>6. CASE c \o r # c
  <2>1. IsStrictPrefix(c, c \o r)
    <3>1. IsPrefix(c, c \o r)
      BY PrefixLemma
    <3> QED
      BY <1>6, <3>1 DEF IsStrictPrefix
  <2>2. \A n : n # k => (n \in DOMAIN F <=> n \in DOMAIN G) /\ (n \in DOMAIN F => F[n] = G[n])
    BY <1>4, SameButDomains
  <2>3. DOMAIN G = DOMAIN F
    <3>1. \A n : n \in DOMAIN G <=> n \in DOMAIN F
      BY <1>4, <2>2
    <3> QED
      BY <3>1
  <2>4. \A m \in DOMAIN F \ {k} : G[m] = F[m]
    BY <2>2
  <2>5. IsStrictPrefix(F[k], G[k])
    BY <1>4, <2>1
  <2>6. Store!ExtendFile(k)
    BY <1>4, <2>3, <2>4, <2>5 DEF F, G, Store!ExtendFile, Store!IsStrictPrefix, Store!IsPrefix,
       IsStrictPrefix, IsPrefix
  <2> QED
    BY <2>6 DEF Refines, Store!Next
<1> QED
  BY <1>5, <1>6

\* A file whose sectors are all in a set that no link leaves, and that keep their
\* links and bytes, stays as it is; so does one that is not there before or after.
LEMMA StaysInSet ==
  ASSUME StoreOK, StoreOK', NEW S \in SUBSET DataSectors,
         \A x \in S : media[x].link \in S \union {0, LAST},
         \A x \in S : media'[x].link = media[x].link /\ Bytewise(x)' = Bytewise(x),
         NEW p \in Recs, p \in Recs', RecordAt(p)' = RecordAt(p),
         NEW h \in DataSectors, RecordAt(p).fptr = h,
         h \in S \/ (~Used(h) /\ ~Used(h)')
  PROVE  FileStaysAsIs(p)
<1>1. h \in S => Content(h)' = Content(h)
  BY ContentKept
<1>2. h \in S => (Used(h)' <=> Used(h))
  BY DEF Used
<1> QED
  BY <1>1, <1>2 DEF FileStaysAsIs

LEMMA StoreTypes ==
  ASSUME WholeInv, WholeInv'
  PROVE  /\ IInv /\ StoreOK /\ StoreOK' /\ NamesOK /\ RecordsUsed
         /\ \A p \in Recs : RecordAt(p).fptr \in DataSectors /\ RecordAt(p).name \in Names
<1>1. IInv /\ StoreOK /\ StoreOK' /\ NamesOK /\ RecordsUsed
  BY DEF WholeInv, IInv
<1>2. ASSUME NEW p \in Recs
      PROVE  RecordAt(p).fptr \in DataSectors /\ RecordAt(p).name \in Names
  <2>1. p[1] \in Sectors /\ p[2] \in Slots /\ RecordAt(p) # Erased
    BY Volume DEF Recs
  <2>2. media[p[1]] \in SectorSet
    BY <1>1, <2>1 DEF StoreOK
  <2>3. media[p[1]].recs \in [Slots -> Records \union {Erased}]
    BY <2>2, SectorFields
  <2>4. RecordAt(p) \in Records
    BY <2>1, <2>3 DEF RecordAt
  <2> QED
    BY <1>1, <2>4 DEF Records, StoreOK, RecordsOK
<1> QED
  BY <1>1, <1>2

\* A step that keeps the records, and the links and bytes of the sectors in use,
\* and begins no file, is none of FileStore.
LEMMA UsedStay ==
  ASSUME WholeInv, WholeInv', RecsKept,
         \A x \in DataSectors :
           Used(x) => media'[x].link = media[x].link /\ Bytewise(x)' = Bytewise(x),
         \A x \in DataSectors : Used(x)' => Used(x) \/ NoRecordOf(x)
  PROVE  Refines
<1>1. /\ StoreOK /\ StoreOK'
      /\ \A p \in Recs : RecordAt(p).fptr \in DataSectors
  BY StoreTypes
<1> DEFINE S == {x \in DataSectors : Used(x)}
<1>2. \A x \in S : media[x].link \in S \union {0, LAST}
  <2> TAKE x \in S
  <2>1. media[x] \in SectorSet
    BY <1>1, Volume DEF StoreOK
  <2>2. media[x].link \in Sectors
    BY <2>1, SectorFields
  <2> QED
    BY <1>1, <2>2, Volume DEF StoreOK, LinksOK, Used
<1>3. S \in SUBSET DataSectors /\ \A x \in DataSectors : x \in S <=> Used(x)
  OBVIOUS
<1> HIDE DEF S
<1>4. ASSUME NEW p \in Recs PROVE FileStaysAsIs(p)
  <2>1. PICK h \in DataSectors : RecordAt(p).fptr = h
    BY <1>1
  <2>2. h \in S \/ (~Used(h) /\ ~Used(h)')
    BY <1>3, <2>1 DEF NoRecordOf
  <2>3. p \in Recs' /\ RecordAt(p)' = RecordAt(p)
    BY DEF RecsKept
  <2>4. \A x \in S : media'[x].link = media[x].link /\ Bytewise(x)' = Bytewise(x)
    BY <1>3
  <2> QED
    BY <1>1, <1>2, <1>3, <2>1, <2>2, <2>3, <2>4, StaysInSet
<1>5. Recs' = Recs
  BY DEF RecsKept
<1> QED
  BY <1>4, <1>5, FilesStay DEF Refines

LEMMA StillRefines ==
  ASSUME WholeInv, WholeInv', media' = media
  PROVE  Refines
<1>1. StoreKept
  BY StillMedia, StoreTypes
<1>2. RecsKept /\ \A x : Used(x)' <=> Used(x)
  BY <1>1 DEF StoreKept
<1>3. \A x : Bytewise(x)' = Bytewise(x)
  BY DEF Bytewise, Count
<1> QED
  BY <1>2, <1>3, UsedStay

\* What follows a claim, and the write of an index sector.
LEMMA ClaimRefines ==
  ASSUME WholeInv, WholeInv', NEW s \in DataSectors, FreshlyClaimed(s), ~Used(s)
  PROVE  Refines
<1>1. RecsKept /\ \A x : Used(x)' <=> Used(x) \/ x = s
  BY DEF FreshlyClaimed
<1>2. NoRecordOf(s)
  BY <1>1 DEF FreshlyClaimed, Unreferenced, NoRecordOf, RecsKept
<1>3. \A x \in DataSectors : Used(x) => media'[x] = media[x]
  BY Volume DEF FreshlyClaimed
<1>4. \A x \in DataSectors :
        Used(x) => media'[x].link = media[x].link /\ Bytewise(x)' = Bytewise(x)
  BY <1>3 DEF Bytewise, Count
<1> QED
  BY <1>1, <1>2, <1>4, UsedStay

LEMMA UsedClosed ==
  ASSUME StoreOK
  PROVE  \A x \in {y \in DataSectors : Used(y)} :
           media[x].link \in {y \in DataSectors : Used(y)} \union {0, LAST}
<1> SUFFICES ASSUME NEW x \in DataSectors, Used(x)
             PROVE  media[x].link \in {y \in DataSectors : Used(y)} \union {0, LAST}
  OBVIOUS
<1>1. media[x] \in SectorSet
  BY Volume DEF StoreOK
<1>2. media[x].link \in Sectors
  BY <1>1, SectorFields
<1> QED
  BY <1>2, Volume DEF StoreOK, LinksOK

\* An empty last sector.
EmptyContentIs ==
  StoreOK => \A s \in DataSectors :
    media[s].link = s /\ Count(media[s]) = 0 => Content(s) = <<>>

LEMMA EmptyContent == EmptyContentIs
<1> SUFFICES ASSUME StoreOK, NEW s \in DataSectors, media[s].link = s, Count(media[s]) = 0
             PROVE  Content(s) = <<>>
  BY DEF EmptyContentIs
<1>1. PICK f : /\ \A x \in DataSectors : f[0][x] = <<>> /\ Content(x) = f[SectorCount][x]
               /\ \A n \in 1..SectorCount, x \in DataSectors :
                    f[n][x] = IF media[x].link \in {x, 0, LAST} THEN Bytewise(x)
                                ELSE Bytewise(x) \o f[n - 1][media[x].link]
  BY ContentUnfolds DEF ContentIs
<1>2. SectorCount \in 1..SectorCount
  BY Sizes
<1>3. Content(s) = Bytewise(s)
  BY <1>1, <1>2
<1>4. media[s] \in SectorSet
  BY Volume DEF StoreOK
<1>5. Bytewise(s) = <<>>
  BY <1>4, DataLemma DEF Bytewise
<1> QED
  BY <1>3, <1>5

LEMMA EmptyContentNext == EmptyContentIs'
BY EmptyContent, PTL

LEMMA SameBytes ==
  ASSUME NEW x, media'[x].link = media[x].link, media'[x].data = media[x].data
  PROVE  Bytewise(x)' = Bytewise(x)
BY DEF Bytewise, Count

LEMMA AddRefines ==
  ASSUME WholeInv, WholeInv', FaultFree, Add
  PROVE  Refines
<1>1. /\ loc.at \in Sectors /\ ~IoErrors /\ StoreOK /\ RecordsUsed
      /\ \A p : ~Deleting(p)
  BY NotDeleting, StoreTypes DEF Add, FaultFree, WholeInv, IInv, CallSet
<1>2. CASE media' = media
  BY <1>2, StillRefines
<1>3. CASE FreeData # {} /\ media' = Claimed(Min(FreeData))
  <2>1. PICK s \in DataSectors : s = Min(FreeData) /\ Free(s)
    BY <1>3, FreeDataLemma
  <2>2. FreshlyClaimed(s) /\ ~Used(s)
    BY <1>1, <1>3, <2>1, ClaimMedia, FreeLemma
  <2> QED
    BY <2>2, ClaimRefines
<1>4. CASE FreeIndex # {} /\ media' = [media EXCEPT ![loc.at].next = Min(FreeIndex)]
           /\ pc' = "page0" /\ loc' = [loc EXCEPT !.at = Min(FreeIndex)]
  <2>1. PICK a \in Sectors, s \in Sectors :
          a = loc.at /\ media' = [media EXCEPT ![a].next = s]
    <3>1. loc'.at = Min(FreeIndex) /\ loc'.at \in Sectors
      BY <1>4 DEF WholeInv, IInv, CallSet
    <3> QED
      BY <1>1, <1>4, <3>1
  <2>2. StoreKept
    BY <1>1, <2>1, NextMedia
  <2>3. \A x \in Sectors : media'[x].link = media[x].link /\ media'[x].data = media[x].data
    BY <1>1, <2>1 DEF StoreOK, SectorSet
  <2>4. RecsKept /\ \A x : Used(x)' <=> Used(x)
    BY <2>2 DEF StoreKept
  <2>5. \A x \in DataSectors : media'[x].link = media[x].link /\ Bytewise(x)' = Bytewise(x)
    BY <2>3, SameBytes, Volume
  <2> QED
    BY <2>4, <2>5, UsedStay
<1>5. \/ media' = media
      \/ FreeData # {} /\ media' = Claimed(Min(FreeData))
      \/ /\ FreeIndex # {} /\ media' = [media EXCEPT ![loc.at].next = Min(FreeIndex)]
         /\ pc' = "page0" /\ loc' = [loc EXCEPT !.at = Min(FreeIndex)]
  BY <1>1 DEF Add, Write
<1> QED
  BY <1>2, <1>3, <1>4, <1>5

LEMMA ClaimNextRefines ==
  ASSUME WholeInv, WholeInv', FaultFree, ClaimNext
  PROVE  Refines
<1>1. /\ ~IoErrors /\ StoreOK /\ RecordsUsed /\ \A p : ~Deleting(p)
  BY NotDeleting, StoreTypes DEF ClaimNext, FaultFree
<1>2. CASE media' = media
  BY <1>2, StillRefines
<1>3. CASE FreeData # {} /\ media' = Claimed(Min(FreeData))
  <2>1. PICK s \in DataSectors : s = Min(FreeData) /\ Free(s)
    BY <1>3, FreeDataLemma
  <2>2. FreshlyClaimed(s) /\ ~Used(s)
    BY <1>1, <1>3, <2>1, ClaimMedia, FreeLemma
  <2> QED
    BY <2>2, ClaimRefines
<1> QED
  BY <1>1, <1>2, <1>3 DEF ClaimNext, Write

\* A new index sector, page by page.
LEMMA NewIndexRefines ==
  ASSUME WholeInv, WholeInv', FaultFree, WriteFirstPage \/ WriteSecondPage, file = NoFile
  PROVE  Refines
<1>1. /\ pc \in {"page0", "page1"} /\ ~IoErrors /\ IInv /\ StoreOK /\ RecordsUsed
  BY StoreTypes DEF WriteFirstPage, WriteSecondPage, FaultFree
<1>2. PICK s \in Sectors \ {0} : s = loc.at /\ Free(s)
  BY <1>1, NewIndexLemma
<1>3. ~media[s].index /\ Image = EmptyIndex /\ \A p : ~Deleting(p)
  BY <1>1, <1>2, NewIndexLemma
<1>4. \/ media' = [media EXCEPT ![s] = FirstPage(@, EmptyIndex)]
      \/ media' = [media EXCEPT ![s] = EmptyIndex]
  BY <1>1, <1>2, <1>3 DEF WriteFirstPage, WriteSecondPage, Write
<1>5. RecsKept /\ \A x : Used(x)' <=> Used(x)
  <2>1. CASE media' = [media EXCEPT ![s] = FirstPage(@, EmptyIndex)]
    <3>1. EmptyIndex \in SectorSet /\ s \in Sectors
      BY EmptyTypes
    <3>2. StoreKept
      BY <1>1, <1>3, <2>1, <3>1, FirstPageMedia
    <3> QED
      BY <3>2 DEF StoreKept
  <2>2. CASE media' = [media EXCEPT ![s] = EmptyIndex]
    BY <1>1, <1>2, <1>3, <2>2, NewIndexMedia
  <2> QED
    BY <1>4, <2>1, <2>2
<1>6. \A x \in Sectors \ {s} : media'[x] = media[x]
  BY <1>1, <1>4 DEF StoreOK
<1>7. \A x \in DataSectors : Used(x) => x # s /\ media'[x] = media[x]
  BY <1>2, <1>6, Volume DEF Used, Free
<1>8. \A x \in DataSectors :
        Used(x) => media'[x].link = media[x].link /\ Bytewise(x)' = Bytewise(x)
  BY <1>7, SameBytes
<1> QED
  BY <1>5, <1>8, UsedStay

LEMMA AddRecordRefines ==
  ASSUME WholeInv, WholeInv', ReadInv, FaultFree, AddRecord
  PROVE  Refines
<1>1. /\ pc = "record" /\ file = NoFile /\ ~IoErrors
      /\ loc \in CallSet /\ loc.op \in CreatingModes /\ StoreOK /\ StoreOK' /\ RecordsUsed
      /\ NamesOK /\ \A p : ~Deleting(p)
  BY NotDeleting, StoreTypes DEF AddRecord, FaultFree, WholeInv, IInv, OpsOK
<1>2. PICK n \in Names : loc.names = {n}
  BY <1>1, CallsLemma DEF WholeInv, IInv, OpsOK
<1>3. PICK a \in Sectors, i \in Slots, c \in DataSectors :
        /\ a = loc.at /\ i = loc.slot /\ c = loc.sect /\ i \in SlotsOf(a)
  <2>1. loc.sect \in DataSectors
    BY <1>1 DEF WholeInv, IInv, CallOK, Used
  <2> QED
    BY <1>1, <2>1, Volume DEF WholeInv, IInv, CallOK, CallSet
<1>4. /\ media[a].index /\ RecordAt(<<a, i>>) = Erased /\ Used(c) /\ Unreferenced(c)
      /\ media[c].link = c /\ Count(media[c]) = 0
  BY <1>1, <1>3 DEF WholeInv, IInv, ReadInv, CallOK, CallSoFar, IsIndex
<1>5. PICK r \in Records : r = [name |-> n, fptr |-> c]
  BY <1>3, Volume DEF Records
<1>6. media' = [media EXCEPT ![a].recs[i] = r]
  <2>1. (CHOOSE x \in loc.names : TRUE) = n
    BY <1>2
  <2> QED
    BY <1>1, <1>3, <1>5, <2>1 DEF AddRecord, Write
<1>7. /\ Recs' = Recs \union {<<a, i>>} /\ RecordAt(<<a, i>>)' = r
      /\ \A p \in Recs : RecordAt(p)' = RecordAt(p)
  <2>1. r.fptr = c
    BY <1>5
  <2>2. Used(r.fptr) /\ Unreferenced(r.fptr)
    BY <1>4, <2>1
  <2> QED
    BY <1>1, <1>3, <1>4, <1>6, <2>2, AddedRecordMedia
<1>8. \A x \in Sectors : media'[x].link = media[x].link /\ media'[x].data = media[x].data
  BY <1>1, <1>6 DEF StoreOK, SectorSet
<1>9. PICK q : q = <<a, i>>
  OBVIOUS
<1>10. q \notin Recs /\ q \in Recs' /\ RecordAt(q)' = r
  BY <1>4, <1>7, <1>9 DEF Recs
<1> DEFINE S == {x \in DataSectors : Used(x)}
<1>11. \A x \in S : media[x].link \in S \union {0, LAST}
  BY <1>1, UsedClosed
<1>12. \A x \in S : media'[x].link = media[x].link /\ Bytewise(x)' = Bytewise(x)
  BY <1>8, SameBytes, Volume
<1>13. S \in SUBSET DataSectors /\ \A x \in DataSectors : x \in S <=> Used(x)
  OBVIOUS
<1> HIDE DEF S
<1>14. ASSUME NEW p \in Recs PROVE FileStaysAsIs(p) /\ RecordAt(p).name # n
  <2>1. PICK h \in DataSectors : RecordAt(p).fptr = h
    BY StoreTypes
  <2>2. h \in S
    BY <1>1, <1>13, <2>1 DEF RecordsUsed
  <2>3. p \in Recs' /\ RecordAt(p)' = RecordAt(p)
    BY <1>7
  <2>4. FileStaysAsIs(p)
    BY <1>1, <1>11, <1>12, <1>13, <2>1, <2>2, <2>3, StaysInSet
  <2> QED
    BY <1>1, <1>2, <2>4 DEF NamesOK, Named
<1>15. OnlyFile(q, n)
  BY <1>5, <1>7, <1>9, <1>10, <1>14 DEF OnlyFile
<1>16. \A d : ~Is(q, n, d)
  BY <1>10 DEF Is
<1>17. Is(q, n, <<>>)'
  <2>1. media'[c].link = c /\ Count(media'[c]) = 0
    BY <1>4, <1>8, Volume DEF Count
  <2>2. Content(c)' = <<>>
    BY <1>1, <2>1, EmptyContentNext DEF EmptyContentIs
  <2>3. Used(c)'
    BY <2>1, Volume DEF Used
  <2>4. c = RecordAt(q)'.fptr /\ RecordAt(q)'.name = n
    BY <1>5, <1>10
  <2> QED
    BY <1>10, <2>2, <2>3, <2>4 DEF Is
<1> QED
  BY <1>15, <1>16, <1>17, Creates

\* A write to a sector that no other leads to: only the file it is the first of,
\* that of record q, may change.
LEMMA OthersStay ==
  ASSUME WholeInv, WholeInv', RecsKept, NEW s \in DataSectors, NoLinkTo(s),
         \A x \in DataSectors \ {s} : media'[x] = media[x],
         NEW p \in Recs, RecordAt(p).fptr # s
  PROVE  FileStaysAsIs(p)
<1>1. PICK h \in DataSectors : RecordAt(p).fptr = h
  BY StoreTypes
<1> DEFINE S == {x \in DataSectors : Used(x)} \ {s}
<1>2. \A x \in S : media[x].link \in S \union {0, LAST}
  <2> SUFFICES ASSUME NEW x \in S PROVE media[x].link \in S \union {0, LAST}
    OBVIOUS
  <2>1. media[x].link \in {y \in DataSectors : Used(y)} \union {0, LAST}
    BY UsedClosed, StoreTypes
  <2>2. media[x].link # s
    BY DEF NoLinkTo
  <2> QED
    BY <2>1, <2>2
<1>3. \A x \in S : media'[x].link = media[x].link /\ Bytewise(x)' = Bytewise(x)
  BY SameBytes
<1>4. h \in S \/ (~Used(h) /\ ~Used(h)')
  BY <1>1 DEF Used
<1>5. S \in SUBSET DataSectors
  OBVIOUS
<1> HIDE DEF S
<1>6. p \in Recs' /\ RecordAt(p)' = RecordAt(p)
  BY DEF RecsKept
<1> QED
  BY <1>1, <1>2, <1>3, <1>4, <1>5, <1>6, StaysInSet, StoreTypes

LEMMA TruncateRefines ==
  ASSUME WholeInv, WholeInv', FaultFree, Truncate
  PROVE  Refines
<1>1. /\ pc = "truncate" /\ ~IoErrors /\ StoreOK /\ StoreOK' /\ NamesOK /\ loc.ptr = loc.head
      /\ loc.op # "delete"
  BY StoreTypes DEF Truncate, FaultFree, WholeInv, IInv, CallOK, OpsOK
<1>2. PICK s \in DataSectors, q \in Recs :
        /\ s = loc.ptr /\ ~media[s].index /\ Used(s) /\ NoLinkTo(s)
        /\ RecordAt(q).fptr = s /\ \A p \in Recs : RecordAt(p).fptr = s => p = q
  BY <1>1, HeadLemma DEF WholeInv
<1>3. media' = Claimed(s)
  BY <1>1, <1>2 DEF Truncate, Write
<1>4. LinkSet(media', s, s, 0)
  BY <1>1, <1>2, <1>3, SetNextLemma, Sizes, Volume DEF Claimed, StoreOK
<1>5. /\ \A x \in Sectors \ {s} : media'[x] = media[x]
      /\ ~media'[s].index /\ media'[s].link = s /\ Count(media'[s]) = 0
  BY <1>4 DEF LinkSet
<1>6. RecsKept
  <2>1. {s} \in SUBSET Sectors
    BY Volume
  <2> QED
    BY <1>2, <1>5, <2>1, RecsKeptLemma
<1>7. PICK k \in Names : RecordAt(q).name = k
  BY StoreTypes
<1>8. OnlyFile(q, k)
  <2>1. ASSUME NEW p \in Recs, p # q PROVE FileStaysAsIs(p) /\ RecordAt(p).name # k
    <3>1. FileStaysAsIs(p)
      <4>1. \A x \in DataSectors \ {s} : media'[x] = media[x]
        BY <1>5, Volume
      <4> QED
        BY <1>2, <1>6, <2>1, <4>1, OthersStay
    <3> QED
      BY <1>1, <1>7, <2>1, <3>1 DEF NamesOK
  <2> QED
    BY <1>6, <1>7, <2>1 DEF OnlyFile, RecsKept
<1>9. Is(q, k, Content(s))
  BY <1>2, <1>7 DEF Is
<1>10. Is(q, k, <<>>)'
  <2>1. Content(s)' = <<>>
    BY <1>1, <1>5, EmptyContentNext DEF EmptyContentIs
  <2>2. Used(s)'
    BY <1>5, Volume DEF Used
  <2>3. q \in Recs' /\ RecordAt(q)' = RecordAt(q)
    BY <1>6 DEF RecsKept
  <2> QED
    BY <1>2, <1>7, <2>1, <2>2, <2>3 DEF Is
<1>11. PICK c : Is(q, k, c)
  BY <1>9
<1> QED
  BY <1>8, <1>10, <1>11, Empties

LEMMA CleanRefines ==
  ASSUME WholeInv, WholeInv', FaultFree, Clean
  PROVE  Refines
<1>1. pc = "clean" /\ ~IoErrors /\ IInv /\ StoreOK /\ StoreOK' /\ NamesOK
  BY StoreTypes DEF Clean, FaultFree
<1>2. PICK s \in DataSectors : CleanAt(s)
  BY <1>1, CleanAtLemma
<1>3. media' = SetNext(s, 0, 0)
  BY <1>1, <1>2 DEF Clean, Write, CleanAt
<1>4. /\ Used(s) /\ NoLinkTo(s) /\ ~media[s].index
  BY <1>2 DEF CleanAt
<1>5. Freed(s)
  BY <1>1, <1>3, <1>4, FreedMedia
<1>6. /\ RecsKept /\ ~Used(s)' /\ \A x \in DataSectors \ {s} : media'[x] = media[x]
  BY <1>5, Volume DEF Freed
<1>7. CASE \A p \in Recs : RecordAt(p).fptr # s
  <2>1. \A p \in Recs : FileStaysAsIs(p)
    BY <1>4, <1>6, <1>7, OthersStay
  <2> QED
    BY <1>6, <2>1, FilesStay DEF RecsKept, Refines
<1>8. ASSUME NEW q \in Recs, RecordAt(q).fptr = s PROVE Refines
  <2>1. PICK k \in Names : RecordAt(q).name = k
    BY StoreTypes
  <2>2. \A p \in Recs : RecordAt(p).fptr = s => p = q
    BY <1>1, <1>8 DEF StoreOK, RecordsOK
  <2>3. OnlyFile(q, k)
    <3>1. ASSUME NEW p \in Recs, p # q PROVE FileStaysAsIs(p) /\ RecordAt(p).name # k
      <4>1. FileStaysAsIs(p)
        BY <1>4, <1>6, <2>2, <3>1, OthersStay
      <4> QED
        BY <1>1, <2>1, <3>1, <4>1 DEF NamesOK
    <3> QED
      BY <1>6, <2>1, <3>1 DEF OnlyFile, RecsKept
  <2>4. PICK c : Is(q, k, c)
    BY <1>4, <1>8, <2>1 DEF Is
  <2>5. \A d : ~Is(q, k, d)'
    <3>1. q \in Recs' /\ RecordAt(q)'.fptr = s
      BY <1>6, <1>8 DEF RecsKept
    <3> QED
      BY <1>6, <3>1 DEF Is
  <2> QED
    BY <2>3, <2>4, <2>5, Removes
<1> QED
  BY <1>7, <1>8

\* The file that lf_delete erases the record of is gone already.
LEMMA DelRecordRefines ==
  ASSUME WholeInv, WholeInv', FaultFree, DelRecord
  PROVE  Refines
<1>1. /\ pc = "erase" /\ ~IoErrors /\ StoreOK /\ StoreOK' /\ NamesOK
  BY StoreTypes DEF DelRecord, FaultFree
<1>2. PICK a \in Sectors, i \in Slots :
        a = loc.at /\ i = loc.slot /\ i \in SlotsOf(a) /\ media[a].index
  BY <1>1, HeadLemma, Volume DEF WholeInv
<1>3. PICK h0 \in DataSectors : h0 = loc.head /\ RecordAt(<<a, i>>).fptr = h0
  BY <1>1, <1>2, HeadLemma DEF WholeInv
<1>4. media' = [media EXCEPT ![a].recs[i] = Erased]
  <2>1. IsIndex(a)
    BY <1>1, <1>2 DEF IsIndex, StoreOK, MarksOK
  <2> QED
    BY <1>1, <1>2, <2>1 DEF DelRecord, Write
<1>5. Recs' = Recs \ {<<a, i>>} /\ \A p \in Recs' : RecordAt(p)' = RecordAt(p)
  BY <1>1, <1>2, <1>4, ErasedRecordMedia
<1>6. PICK q : q = <<a, i>>
  OBVIOUS
<1>7. q \in Recs /\ RecordAt(q).fptr = h0 /\ ~Used(h0)
  <2>1. media[h0].link = 0
    BY <1>1, <1>3 DEF WholeInv, Accounted
  <2> QED
    BY <1>1, <1>2, <1>3, <1>6, <2>1, HeadLemma DEF WholeInv, Used
<1>8. \A x \in Sectors : media'[x].link = media[x].link /\ media'[x].data = media[x].data
  BY <1>1, <1>4 DEF StoreOK, SectorSet
<1>9. PICK k \in Names : RecordAt(q).name = k
  BY <1>7, StoreTypes
<1> DEFINE S == {x \in DataSectors : Used(x)}
<1>11. \A x \in S : media[x].link \in S \union {0, LAST}
  BY <1>1, UsedClosed
<1>12. \A x \in S : media'[x].link = media[x].link /\ Bytewise(x)' = Bytewise(x)
  BY <1>8, SameBytes, Volume
<1>13. S \in SUBSET DataSectors /\ \A x \in DataSectors : x \in S <=> Used(x)
  OBVIOUS
<1> HIDE DEF S
<1>14. ASSUME NEW p \in Recs, p # q PROVE FileStaysAsIs(p) /\ RecordAt(p).name # k
  <2>1. PICK h \in DataSectors : RecordAt(p).fptr = h
    BY StoreTypes
  <2>2. h \in S \/ (~Used(h) /\ ~Used(h)')
    BY <1>8, <1>13, Volume DEF Used
  <2>3. p \in Recs' /\ RecordAt(p)' = RecordAt(p)
    BY <1>5, <1>6, <1>14
  <2>4. FileStaysAsIs(p)
    BY <1>1, <1>11, <1>12, <1>13, <2>1, <2>2, <2>3, StaysInSet
  <2> QED
    BY <1>1, <1>7, <1>9, <1>14, <2>4 DEF NamesOK
<1>15. OnlyFile(q, k)
  BY <1>5, <1>6, <1>7, <1>9, <1>14 DEF OnlyFile
<1>16. SameBut(Files, Files', k) /\ k \notin DOMAIN Files /\ k \notin DOMAIN Files'
  <2>1. \A c : ~Is(q, k, c)
    BY <1>7 DEF Is
  <2>2. \A c : ~Is(q, k, c)'
    BY <1>5, <1>6 DEF Is
  <2> QED
    BY <1>15, <2>1, <2>2, OneFile
<1>17. PICK F, G : F = Files /\ G = Files'
  OBVIOUS
<1>18. G = F
  BY <1>16, <1>17, SameButNothing
<1> QED
  BY <1>17, <1>18 DEF Refines

LEMMA WayBegins ==
  ASSUME NEW m, NEW h, NEW e, NEW d, Before(m, h, e, d), h # e
  PROVE  m[h].link \in DataSectors
<1>1. PICK k, p, c : Way(m, h, e, k, p, c)
  BY DEF Before
<1>2. k \in Nat /\ k > 1
  BY <1>1 DEF Way
<1>3. 1 \in 1..k-1 /\ 1 + 1 \in 1..k
  BY <1>2
<1>4. m[p[1]].link = p[1+1] /\ p[1+1] \in DataSectors
  BY <1>1, <1>3 DEF Way
<1> QED
  BY <1>1, <1>4 DEF Way

\* There is a way from the first sector of a file to each sector of it.
LEMMA ChainWay ==
  ASSUME StoreOK, NEW h \in DataSectors, NoLinkTo(h), NEW t \in ChainOf(h)
  PROVE  \E d : Before(media, h, t, d)
<1> DEFINE C == {x \in ChainOf(h) : \E d : Before(media, h, x, d)}
<1>1. /\ ChainOf(h) \in SUBSET DataSectors /\ h \in ChainOf(h)
      /\ \A s \in ChainOf(h) : media[s].link \in ChainOf(h) \union {0, LAST}
  BY ChainForth
<1>2. h \in C
  BY <1>1, WayStart
<1>3. \A x \in C : media[x].link \in C \union {0, LAST}
  <2> SUFFICES ASSUME NEW x \in C, media[x].link \notin {x, 0, LAST}
               PROVE  media[x].link \in C
    OBVIOUS
  <2>1. PICK d : Before(media, h, x, d)
    OBVIOUS
  <2>2. PICK y \in ChainOf(h) : y = media[x].link /\ y \in DataSectors /\ y # x
    BY <1>1
  <2>3. Before(media, h, y, d \o media[x].data)
    BY <2>1, <2>2, WayForth
  <2> QED
    BY <2>2, <2>3
<1>4. C \in SUBSET DataSectors
  BY <1>1
<1>5. ChainOf(h) \subseteq C
  <2> HIDE DEF C
  <2> QED
    BY <1>2, <1>3, <1>4, ChainLeast
<1> QED
  BY <1>5

\* The sector s in use is one of the file of record q, whose first sector is h.
Owns(q, h, s) ==
  /\ q \in Recs /\ RecordAt(q).fptr = h /\ NoLinkTo(h) /\ s \in ChainOf(h)
  /\ \E d : Before(media, h, s, d)

LEMMA OwnerLemma ==
  ASSUME WholeInv, pc # "clean", NEW s \in DataSectors, Used(s),
         pc \in {"record", "chain"} => s # loc.sect
  PROVE  \E q \in Recs, h \in DataSectors : Owns(q, h, s)
<1>1. StoreOK
  BY DEF WholeInv, IInv
<1>2. PICK h \in Heads : s \in ChainOf(h)
  BY DEF WholeInv, Accounted
<1>3. h \in DataSectors
  BY HeadsTypes DEF WholeInv
<1>4. PICK q \in Recs : h = RecordAt(q).fptr
  <2>1. CASE pc \in {"record", "chain"} /\ h = loc.sect
    <3>1. media[h].link = h
      BY <2>1 DEF WholeInv, IInv, CallOK
    <3> QED
      BY <1>2, <1>3, <2>1, <3>1, ChainAlone
  <2> QED
    BY <1>2, <2>1 DEF Heads
<1>5. NoLinkTo(h)
  BY <1>1, <1>4 DEF StoreOK, RecordsOK
<1>6. \E d : Before(media, h, s, d)
  BY <1>1, <1>2, <1>3, <1>5, ChainWay
<1> QED
  BY <1>2, <1>3, <1>4, <1>5, <1>6 DEF Owns

LEMMA OnlyOwner ==
  ASSUME WholeInv, WholeInv', RecsKept, NEW q, NEW h \in DataSectors, NEW s \in DataSectors,
         Owns(q, h, s), \A x \in DataSectors \ {s} : media'[x] = media[x],
         NEW k \in Names, RecordAt(q).name = k
  PROVE  OnlyFile(q, k)
<1>1. /\ StoreOK /\ StoreOK' /\ NamesOK /\ q \in Recs /\ RecordAt(q).fptr = h
      /\ NoLinkTo(h) /\ s \in ChainOf(h)
  BY StoreTypes DEF Owns
<1>2. ASSUME NEW p \in Recs, p # q PROVE FileStaysAsIs(p) /\ RecordAt(p).name # k
  <2>1. PICK g \in DataSectors : RecordAt(p).fptr = g
    BY StoreTypes
  <2>2. g # h /\ NoLinkTo(g)
    BY <1>1, <1>2, <2>1 DEF StoreOK, RecordsOK
  <2>3. s \notin ChainOf(g)
    BY <1>1, <2>2, ChainsDisjoint
  <2>4. /\ ChainOf(g) \in SUBSET DataSectors /\ g \in ChainOf(g)
        /\ \A x \in ChainOf(g) : media[x].link \in ChainOf(g) \union {0, LAST}
    BY <1>1, ChainForth
  <2>5. PICK S \in SUBSET DataSectors : S = ChainOf(g)
    BY <2>4
  <2>6. \A x \in S : media'[x].link = media[x].link /\ Bytewise(x)' = Bytewise(x)
    BY <2>3, <2>5, SameBytes
  <2>7. p \in Recs' /\ RecordAt(p)' = RecordAt(p)
    BY DEF RecsKept
  <2>8. g \in S /\ \A x \in S : media[x].link \in S \union {0, LAST}
    BY <2>4, <2>5
  <2>9. FileStaysAsIs(p)
    BY <1>1, <2>1, <2>6, <2>7, <2>8, StaysInSet
  <2> QED
    BY <1>1, <1>2, <2>9 DEF NamesOK
<1> QED
  BY <1>1, <1>2 DEF OnlyFile, RecsKept

WayContentIs ==
  StoreOK => \A h, e, d : Before(media, h, e, d) =>
    \E r \in Seq(Bytes) : /\ Content(h) = d \o (Bytewise(e) \o r)
                          /\ media[e].link \in {e, 0, LAST} => r = <<>>

LEMMA WayContentNow == WayContentIs
BY WayContent DEF WayContentIs

LEMMA WayContentNext == WayContentIs'
BY WayContentNow, PTL

\* The file of q ends with sector s, and its end is made to hold more.
LEMMA EndGrows ==
  ASSUME WholeInv, WholeInv', RecsKept, NEW q, NEW h \in DataSectors, NEW s \in DataSectors,
         Owns(q, h, s), \A x \in DataSectors \ {s} : media'[x] = media[x],
         Used(s), Used(s)', media[s].link \in {s, LAST}, media'[s].link \in {s, LAST},
         NEW b \in Seq(Bytes), NEW r \in Seq(Bytes), Bytewise(s) = b, Bytewise(s)' = b \o r
  PROVE  Refines
<1>1. /\ StoreOK /\ StoreOK' /\ q \in Recs /\ RecordAt(q).fptr = h
      /\ q \in Recs' /\ RecordAt(q)' = RecordAt(q) /\ s \in ChainOf(h)
  BY StoreTypes DEF Owns, RecsKept
<1>2. PICK k \in Names : RecordAt(q).name = k
  BY <1>1, StoreTypes
<1>3. PICK d : Before(media, h, s, d)
  BY DEF Owns
<1>4. d \in Seq(Bytes)
  BY <1>3, BeforeTypes
<1>5. Before(media', h, s, d)
  <2>1. \A x \in DataSectors \ {s} : media[x].link \in DataSectors =>
          media'[x].link = media[x].link /\ media'[x].data = media[x].data
    OBVIOUS
  <2> QED
    BY <1>3, <2>1, WayKept
<1>6. Content(h) = d \o b
  <2>1. PICK e \in Seq(Bytes) : Content(h) = d \o (Bytewise(s) \o e) /\ e = <<>>
    BY <1>1, <1>3, WayContent
  <2>2. b \o e = b
    BY <2>1, Joins
  <2> QED
    BY <2>1, <2>2
<1>7. Content(h)' = d \o (b \o r)
  <2>1. PICK e \in Seq(Bytes) : Content(h)' = d \o (Bytewise(s)' \o e) /\ e = <<>>
    BY <1>1, <1>5, WayContentNext DEF WayContentIs
  <2>2. PICK br \in Seq(Bytes) : br = b \o r
    BY Joins
  <2>3. br \o e = br
    BY <2>1, Joins
  <2> QED
    BY <2>1, <2>2, <2>3
<1>8. PICK c \in Seq(Bytes) : c = d \o b /\ d \o (b \o r) = c \o r
  <2>1. d \o b \in Seq(Bytes) /\ (d \o b) \o r = d \o (b \o r)
    BY ONLY <1>4, b \in Seq(Bytes), r \in Seq(Bytes), Joins
  <2> QED
    BY ONLY <2>1
<1>9. Used(h) /\ Used(h)'
  <2>1. h # s => media[h].link \in DataSectors
    <3>1. Before(media, h, s, d)
      BY <1>3
    <3> QED
      BY <3>1, WayBegins
  <2>2. h # s => media'[h] = media[h]
    OBVIOUS
  <2> QED
    BY <2>1, <2>2, Volume DEF Used
<1>10. Is(q, k, c)
  BY <1>1, <1>2, <1>6, <1>8, <1>9 DEF Is
<1>11. Is(q, k, c \o r)'
  <2>1. Content(h)' = c \o r
    BY <1>7, <1>8
  <2> QED
    BY <1>1, <1>2, <1>9, <2>1 DEF Is
<1>12. OnlyFile(q, k)
  BY <1>2, OnlyOwner
<1> QED
  BY <1>10, <1>11, <1>12, Extends

LEMMA SameStart ==
  ASSUME NEW b \in SectorSet, NEW c \in SectorSet, NEW i \in 0..DataSize,
         \A x \in 1..i : c.data[x] = b.data[x]
  PROVE  SubSeq(c.data, 1, i) = SubSeq(b.data, 1, i)
<1>1. i \in Nat /\ \A x \in 1..i : b.data[x] \in Bytes /\ c.data[x] \in Bytes
  BY SectorFields, Sizes
<1>2. SubSeq(c.data, 1, i) = [x \in 1..i |-> c.data[x]]
  BY <1>1
<1>3. SubSeq(b.data, 1, i) = [x \in 1..i |-> b.data[x]]
  BY <1>1
<1>4. [x \in 1..i |-> c.data[x]] = [x \in 1..i |-> b.data[x]]
  OBVIOUS
<1> QED
  BY <1>2, <1>3, <1>4

\* The first page of the cached sector brings nothing that COUNT would count.
LEMMA FlushBeginsRefines ==
  ASSUME WholeInv, WholeInv', CacheAhead, FaultFree, WriteFirstPage, file # NoFile
  PROVE  Refines
<1>1. /\ pc = "page0" /\ ~IoErrors /\ IInv /\ StoreOK /\ StoreOK'
      /\ media' = [media EXCEPT ![loc.at] = FirstPage(@, Image)]
  BY StoreTypes DEF WriteFirstPage, Write, FaultFree
<1>2. /\ loc.at = file.sect /\ Image = file.buf /\ file.buf \in SectorSet
      /\ file.sect \in DataSectors /\ file.mode \in WritingModes /\ ~media[file.sect].index
  BY <1>1, FlushLemma, FileLemma
<1>3. PICK s \in DataSectors, b \in SectorSet : s = file.sect /\ b = file.buf /\ s \in Sectors
  BY <1>2, Volume
<1>4. media' = [media EXCEPT ![s] = FirstPage(@, b)]
  BY <1>1, <1>2, <1>3
<1>5. /\ \A x \in Sectors \ {s} : media'[x] = media[x]
      /\ media'[s].link = media[s].link /\ Count(media'[s]) = Count(media[s])
  BY <1>1, <1>3, <1>4, FirstPageLemma DEF StoreOK, SameLinks
<1>6. StoreKept
  BY <1>1, <1>2, <1>3, <1>4, FirstPageMedia
<1>7. AheadOf(media[s], file) /\ file.changed
  BY <1>1, <1>2, <1>3 DEF CacheAhead
<1>8. PICK c \in 0..DataSize : /\ c = Count(media[s]) /\ media[s].link = s
                               /\ \A i \in 1..c : b.data[i] = media[s].data[i]
  <2>1. Count(media[s]) \in 0..DataSize-1 /\ media[s].link = s
    BY <1>1, <1>3, <1>7 DEF AheadOf, StoreOK, MarksOK
  <2>2. Count(media[s]) \in 0..DataSize
    BY <2>1, Sizes
  <2> QED
    BY <1>3, <1>7, <2>1, <2>2 DEF AheadOf
<1>9. \A i \in 1..c : media'[s].data[i] = media[s].data[i]
  <2> TAKE i \in 1..c
  <2>1. i \in 1..DataSize
    BY <1>8, Sizes
  <2>2. media'[s].data[i] \in {media[s].data[i], b.data[i]}
    BY <1>1, <1>3, <1>4, <2>1, FirstPageData DEF StoreOK
  <2> QED
    BY <1>8, <2>2
<1>10. SubSeq(media'[s].data, 1, c) = SubSeq(media[s].data, 1, c)
  <2>1. media[s] \in SectorSet /\ media'[s] \in SectorSet
    BY <1>1, <1>3 DEF StoreOK
  <2>2. PICK m, n : m = media[s] /\ n = media'[s]
    OBVIOUS
  <2>3. m \in SectorSet /\ n \in SectorSet /\ \A i \in 1..c : n.data[i] = m.data[i]
    BY <1>9, <2>1, <2>2
  <2>4. SubSeq(n.data, 1, c) = SubSeq(m.data, 1, c)
    BY <2>3, SameStart
  <2> QED
    BY <2>2, <2>4
<1>11. Bytewise(s)' = Bytewise(s)
  <2>1. Bytewise(s) = SubSeq(media[s].data, 1, c)
    BY <1>8 DEF Bytewise
  <2>2. Bytewise(s)' = SubSeq(media'[s].data, 1, c)
    BY <1>5, <1>8 DEF Bytewise
  <2> QED
    BY <1>10, <2>1, <2>2
<1>12. \A x \in DataSectors : media'[x].link = media[x].link /\ Bytewise(x)' = Bytewise(x)
  BY <1>5, <1>11, SameBytes, Volume
<1>13. RecsKept /\ \A x : Used(x)' <=> Used(x)
  BY <1>6 DEF StoreKept
<1> QED
  BY <1>12, <1>13, UsedStay

\* The second page makes the rest of the cached sector count.
LEMMA FlushEndsRefines ==
  ASSUME WholeInv, WholeInv', CacheAhead, FaultFree, WriteSecondPage, file # NoFile
  PROVE  Refines
<1>1. /\ pc = "page1" /\ ~IoErrors /\ IInv /\ StoreOK /\ StoreOK'
      /\ media' = [media EXCEPT ![loc.at] = Image]
  BY StoreTypes DEF WriteSecondPage, Write, FaultFree
<1>2. /\ loc.at = file.sect /\ Image = file.buf /\ file.buf \in SectorSet
      /\ file.sect \in DataSectors /\ file.mode \in WritingModes /\ ~media[file.sect].index
      /\ Used(file.sect) /\ ~file.buf.index /\ file.buf.link \in {file.sect, LAST}
      /\ file.buf.link = file.sect => Count(file.buf) \in 0..DataSize-1
  BY <1>1, FlushLemma, FileLemma
<1>3. PICK s \in DataSectors, b \in SectorSet : s = file.sect /\ b = file.buf /\ s \in Sectors
  BY <1>2, Volume
<1>4. media' = [media EXCEPT ![s] = b]
  BY <1>1, <1>2, <1>3
<1>5. /\ \A x \in Sectors \ {s} : media'[x] = media[x]
      /\ media'[s] = b
  BY <1>1, <1>3, <1>4 DEF StoreOK
<1>6. RecsKept
  <2>1. {s} \in SUBSET Sectors
    BY <1>3
  <2> QED
    BY <1>2, <1>3, <1>5, <2>1, RecsKeptLemma
<1>7. AheadOf(media[s], file) /\ file.changed
  BY <1>1, <1>2, <1>3 DEF CacheAhead
<1>8. PICK a \in SectorSet : a = media[s]
  BY <1>1, <1>3 DEF StoreOK
<1>9. PICK c \in 0..DataSize : c = Count(a) /\ a.link = s
                               /\ \A i \in 1..c : b.data[i] = a.data[i]
  <2>1. Count(a) \in 0..DataSize-1 /\ a.link = s
    BY <1>1, <1>3, <1>7, <1>8 DEF AheadOf, StoreOK, MarksOK
  <2>2. Count(a) \in 0..DataSize
    BY <2>1, Sizes
  <2> QED
    BY <1>3, <1>7, <1>8, <2>1, <2>2 DEF AheadOf
<1>10. PICK k \in c..DataSize : Bytewise(s)' = SubSeq(b.data, 1, k)
  <2>1. CASE b.link = s
    <3>1. Count(b) = file.off /\ c <= file.off /\ Count(b) \in 0..DataSize-1
      BY <1>2, <1>3, <1>7, <1>8, <1>9, <2>1 DEF AheadOf
    <3>2. Count(b) \in c..DataSize
      BY <1>9, <3>1, Sizes
    <3>3. Bytewise(s)' = SubSeq(b.data, 1, Count(b))
      BY <1>5, <2>1 DEF Bytewise
    <3> QED
      BY <3>2, <3>3
  <2>2. CASE b.link # s
    <3>1. Bytewise(s)' = b.data
      BY <1>5, <2>2 DEF Bytewise
    <3>2. SubSeq(b.data, 1, DataSize) = b.data
      BY DataLemma
    <3>3. DataSize \in c..DataSize
      BY <1>9, Sizes
    <3> QED
      BY <3>1, <3>2, <3>3
  <2> QED
    BY <2>1, <2>2
<1>11. PICK f \in Seq(Bytes) : f = SubSeq(b.data, 1, c) /\ f = Bytewise(s)
  <2>1. SubSeq(b.data, 1, c) = SubSeq(a.data, 1, c)
    BY <1>9, SameStart
  <2>2. Bytewise(s) = SubSeq(a.data, 1, c)
    BY <1>8, <1>9 DEF Bytewise
  <2>3. SubSeq(b.data, 1, c) \in Seq(Bytes)
    BY PartOf
  <2> QED
    BY <2>1, <2>2, <2>3
<1>12. PICK r \in Seq(Bytes) : r = SubSeq(b.data, c + 1, k)
  BY DataLemma
<1>13. Bytewise(s)' = f \o r
  BY <1>10, <1>11, <1>12, DataJoins
<1>14. PICK q \in Recs, h \in DataSectors : Owns(q, h, s)
  BY <1>1, <1>2, <1>3, OwnerLemma
<1>15. /\ Used(s) /\ Used(s)' /\ media[s].link \in {s, LAST} /\ media'[s].link \in {s, LAST}
  BY <1>2, <1>3, <1>5, <1>8, <1>9, Volume DEF Used
<1>16. \A x \in DataSectors \ {s} : media'[x] = media[x]
  BY <1>5, Volume
<1>17. Bytewise(s) = f
  BY <1>11
<1> QED
  BY <1>6, <1>13, <1>14, <1>15, <1>16, <1>17, EndGrows

\* The sector that is linked to the end of a file is empty.
LEMMA ChainRefines ==
  ASSUME WholeInv, WholeInv', ReadInv, WrittenSoFar, FaultFree, Chain
  PROVE  Refines
<1>1. pc = "chain" /\ ~IoErrors /\ IInv /\ StoreOK /\ StoreOK'
  BY StoreTypes DEF Chain, FaultFree
<1>2. /\ file # NoFile /\ file \in FileSet /\ loc.op = "none" /\ file.mode \in WritingModes
      /\ file.buf.link = LAST
  BY <1>1, FileLemma DEF Chain, IInv, OpsOK, FileOK
<1>3. PICK s \in DataSectors : s = file.sect /\ Used(s) /\ ~media[s].index
  BY <1>1, <1>2, FileLemma
<1>4. PICK t \in DataSectors : /\ t = loc.sect /\ t # s /\ Used(t) /\ NoLinkTo(t)
                               /\ NoRecordOf(t) /\ media[t].link = t /\ Count(media[t]) = 0
  BY <1>1, <1>3 DEF IInv, ReadInv, CallOK, Used, Unreferenced, CallSoFar
<1>5. media' = Linked(s, t)
  BY <1>1, <1>3, <1>4 DEF Chain, Write
<1>6. WrittenUpTo(media, file, Filled) /\ ~Filled
  BY <1>1, <1>2, CallsLemma DEF WrittenSoFar, Filled
<1>7. media[s].link = LAST
  BY <1>2, <1>3, <1>6, Volume DEF WrittenUpTo
<1>8. PICK b : b \in SectorSet /\ b = media[s] /\ s \in Sectors /\ media[t] \in SectorSet
  BY <1>1, <1>3, Volume DEF StoreOK
<1>9. PICK c : c \in Bytes /\ c = Count(b)
  BY <1>8, SectorFields
<1>10. LinkSet(media', s, t, c)
  BY <1>1, <1>3, <1>4, <1>5, <1>8, <1>9, SetNextLemma, Volume DEF Linked, StoreOK
<1>11. /\ \A x \in Sectors \ {s} : media'[x] = media[x]
       /\ media'[s].link = t /\ media'[s].data = b.data
  <2>1. media' = [media EXCEPT ![s].link = t, ![s].data[DataSize] = c]
    BY <1>5, <1>8, <1>9 DEF Linked, SetNext
  <2>2. media'[s].data = [b.data EXCEPT ![DataSize] = c]
    BY <1>1, <1>8, <2>1 DEF StoreOK, SectorSet
  <2>3. [b.data EXCEPT ![DataSize] = c] = b.data
    BY <1>8, <1>9, SectorFields, Sizes DEF Count
  <2> QED
    BY <1>10, <2>2, <2>3 DEF LinkSet
<1>12. RecsKept
  <2>1. {s} \in SUBSET Sectors /\ ~media'[s].index
    BY <1>8, <1>10 DEF LinkSet
  <2> QED
    BY <1>3, <1>11, <2>1, RecsKeptLemma
<1>13. PICK q \in Recs, h \in DataSectors : Owns(q, h, s)
  BY <1>1, <1>3, <1>4, OwnerLemma
<1>14. PICK d : Before(media, h, s, d)
  BY <1>13 DEF Owns
<1>15. \A x \in DataSectors \ {s} : media'[x] = media[x]
  BY <1>11, Volume
<1>16. Before(media', h, t, d \o b.data)
  <2>1. Before(media', h, s, d)
    <3>1. \A x \in DataSectors \ {s} : media[x].link \in DataSectors =>
            media'[x].link = media[x].link /\ media'[x].data = media[x].data
      BY <1>15
    <3> QED
      BY <1>14, <3>1, WayKept
  <2>2. t # h
    BY <1>4, <1>13 DEF Owns, NoRecordOf
  <2>3. \A x \in DataSectors \ {s, t} : media'[x].link # t
    BY <1>4, <1>15 DEF NoLinkTo
  <2>4. media'[s].data \in Seq(Bytes)
    BY <1>8, <1>11, DataLemma
  <2>5. Before(media', h, t, d \o media'[s].data)
    BY <1>4, <1>11, <2>1, <2>2, <2>3, <2>4, WayOn
  <2> QED
    BY <1>11, <2>5
<1>17. PICK e \in Seq(Bytes) : e = d \o b.data
  BY <1>16, BeforeTypes
<1>18. Content(h) = e
  <2>1. PICK r \in Seq(Bytes) : Content(h) = d \o (Bytewise(s) \o r) /\ r = <<>>
    BY <1>1, <1>7, <1>14, WayContent
  <2>2. Bytewise(s) = b.data
    BY <1>7, <1>8, Volume DEF Bytewise
  <2>3. PICK f \in Seq(Bytes) : f = b.data
    BY <1>8, DataLemma
  <2>4. f \o r = f
    BY <2>1, Joins
  <2> QED
    BY <1>17, <2>1, <2>2, <2>3, <2>4
<1>19. Content(h)' = e
  <2>1. media'[t] = media[t]
    BY <1>4, <1>15
  <2>2. PICK r \in Seq(Bytes) : Content(h)' = e \o (Bytewise(t)' \o r) /\ r = <<>>
    BY <1>1, <1>4, <1>16, <1>17, <2>1, WayContentNext DEF WayContentIs
  <2>3. Bytewise(t)' = <<>>
    BY <1>4, <1>8, <2>1, DataLemma DEF Bytewise, Count
  <2>4. <<>> \o r = r /\ e \o r = e
    BY <2>2, Joins
  <2> QED
    BY <2>2, <2>3, <2>4
<1>20. PICK k \in Names : RecordAt(q).name = k
  BY StoreTypes
<1>21. OnlyFile(q, k)
  BY <1>12, <1>13, <1>15, <1>20, OnlyOwner
<1>22. Used(h) /\ Used(h)' /\ RecordAt(q).fptr = h
  <2>1. h # s => media[h].link \in DataSectors
    BY <1>14, WayBegins
  <2>2. RecordAt(q).fptr = h
    BY <1>13 DEF Owns
  <2> QED
    BY <1>3, <1>4, <1>11, <1>15, <2>1, <2>2, Volume DEF Used
<1>23. Is(q, k, e)
  BY <1>18, <1>20, <1>22 DEF Is
<1>24. Is(q, k, e \o <<>>)'
  <2>1. q \in Recs' /\ RecordAt(q)' = RecordAt(q)
    BY <1>12 DEF RecsKept
  <2>2. e \o <<>> = e
    BY Joins
  <2> QED
    BY <1>19, <1>20, <1>22, <2>1, <2>2 DEF Is
<1>25. PICK r \in Seq(Bytes) : r = <<>>
  BY EmptySeq
<1>26. Is(q, k, e \o r)'
  BY <1>24, <1>25
<1> QED
  BY <1>21, <1>23, <1>26, Extends

LEMMA RefinesNext ==
  ASSUME FaultFree, WholeInv, WholeInv', ReadInv, WrittenSoFar, CacheAhead, [Next]_vars
  PROVE  Refines
<1>1. CASE media' = media
  BY <1>1, StillRefines
<1>2. CASE \/ \E n \in Names, mode \in Modes : Open(n, mode)
           \/ \E names \in Deletes : Delete(names)
           \/ \E d \in Writes : CallWrite(d)
           \/ \E k \in Reads : CallRead(k)
  <2>1. media' = media
    BY <1>2 DEF Open, Delete, CallWrite, CallRead
  <2> QED
    BY <1>1, <2>1
<1>3. CASE Close \/ Find \/ FindEof \/ WriteReturns
  <2>1. media' = media
    BY <1>3 DEF Close, Find, FindEof, WriteReturns
  <2> QED
    BY <1>1, <2>1
<1>4. CASE Load \/ Fill \/ ReadStep
  <2>1. Load => media' = media
    BY DEF Load
  <2>2. Fill => media' = media
    BY DEF Fill, FillMarking
  <2>3. ReadStep => media' = media
    BY DEF ReadStep
  <2> QED
    BY <1>1, <1>4, <2>1, <2>2, <2>3
<1>5. CASE Add \/ ClaimNext \/ AddRecord
  BY <1>5, AddRefines, ClaimNextRefines, AddRecordRefines
<1>6. CASE Truncate \/ Clean \/ DelRecord
  BY <1>6, TruncateRefines, CleanRefines, DelRecordRefines
<1>7. CASE Chain
  BY <1>7, ChainRefines
<1>8. CASE WriteFirstPage
  BY <1>8, NewIndexRefines, FlushBeginsRefines
<1>9. CASE WriteSecondPage
  BY <1>9, NewIndexRefines, FlushEndsRefines
<1>10. ~Format /\ ~PowerCut /\ ~Release
  BY DEF Format, PowerCut, Release, FaultFree, WholeInv, IInv, OpsOK
<1>11. CASE UNCHANGED vars
  BY <1>1, <1>11 DEF vars
<1> QED
  BY <1>2, <1>3, <1>4, <1>5, <1>6, <1>7, <1>8, <1>9, <1>10, <1>11 DEF Next, CallStep

LEMMA NoFilesYet ==
  ASSUME Init
  PROVE  Files = [n \in {} |-> <<>>]
<1>1. WholeInv
  BY WholeInit
<1>2. Recs = {}
  <2>1. \A s \in Sectors : media[s] = IF s = 0 THEN EmptyIndex ELSE EmptyData(0)
    BY DEF Init
  <2>2. ASSUME NEW p \in Recs PROVE FALSE
    <3>1. p[1] \in Sectors /\ media[p[1]].index /\ p[2] \in Slots /\ RecordAt(p) # Erased
      BY Volume DEF Recs
    <3>2. p[1] = 0
      <4>1. 0 \in Sectors /\ ~EmptyData(0).index
        BY Volume, EmptyDataTypes
      <4> QED
        BY <2>1, <3>1, <4>1
    <3>3. media[p[1]] = EmptyIndex
      BY <2>1, <3>1, <3>2
    <3> QED
      BY <3>1, <3>3, EmptyTypes DEF RecordAt
  <2> QED
    BY <2>2
<1>3. /\ Files = [n \in DOMAIN Files |-> Files[n]]
      /\ \A n, c : n \in DOMAIN Files /\ Files[n] = c <=> \E p : Is(p, n, c)
  BY <1>1, FilesLemma DEF FilesAre
<1>4. DOMAIN Files = {}
  BY <1>2, <1>3 DEF Is
<1> QED
  BY <1>3, <1>4

LEMMA StoreIsAhead ==
  ASSUME FaultFree
  PROVE  Spec => [](WholeInv /\ ReadInv /\ WrittenSoFar /\ CacheAhead)
<1>1. SafeCalls /\ ~IoErrors
  BY DEF FaultFree, SafeCalls
<1>2. Spec => []WholeInv
  BY StoreIsWhole
<1>3. Spec => [](ReadInv /\ WrittenSoFar)
  BY <1>1, StoreIsWritten
<1>4. Init => CacheAhead
  BY DEF Init, CacheAhead
<1>5. ASSUME WholeInv, WholeInv', WrittenSoFar, WrittenSoFar', CacheAhead, [Next]_vars
      PROVE  CacheAhead'
  BY <1>5, AheadNext DEF WholeInv
<1> QED
  BY <1>2, <1>3, <1>4, <1>5, PTL DEF Spec

\* Without a format and a power failure, and with every access to the media
\* succeeding, each write to the media creates, empties, extends or removes one
\* file, or leaves all the files as they were.
THEOREM ImplementsFileStoreHolds == ASSUME FaultFree PROVE Spec => ImplementsFileStore
<1>1. Spec => [](WholeInv /\ ReadInv /\ WrittenSoFar /\ CacheAhead)
  BY StoreIsAhead
<1>2. Init => Store!Init
  BY NoFilesYet DEF Store!Init
<1>3. ASSUME WholeInv, WholeInv', ReadInv, WrittenSoFar, CacheAhead, [Next]_vars
      PROVE  [Store!Next]_Files
  BY <1>3, RefinesNext DEF Refines
<1> QED
  BY <1>1, <1>2, <1>3, PTL DEF Spec, ImplementsFileStore, Store!Spec
=============================================================================
