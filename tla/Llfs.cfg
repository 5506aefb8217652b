\* No faults: create, truncate, append, read and delete two files on a volume
\* of three data sectors.
CONSTANTS
  f1 = f1
  f2 = f2
  f3 = f3
  Erased = Erased
  NoFile = NoFile
  Names = {f1, f2}
  SectorCount = 5
  DataSize = 2
  RecordCount = 2
  Bytes = {0, 1}
  EmptyByte = 1
  Modes = {"read", "create", "append"}
  Writes <- ShortAndLong
  Reads = {1, 3}
  Deletes = {{f1}, {f2}, {f1, f2}}
  Formats = FALSE
  PowerCuts = FALSE
  IoErrors = FALSE
SYMMETRY Symmetry
SPECIFICATION Spec
INVARIANTS
  TypeOK
  EverySectorAccountedFor
  MediaFollowsCache
  ReadDeliversContent
  OneRecordPerName
PROPERTIES
  ImplementsFileStore
