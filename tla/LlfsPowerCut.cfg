\* The volume may be formatted and the power may fail at any time; the records of
\* all files fit in the first index sector, two of them in its first page.
CONSTANTS
  f1 = f1
  f2 = f2
  f3 = f3
  Erased = Erased
  NoFile = NoFile
  Names = {f1, f2, f3}
  SectorCount = 5
  DataSize = 2
  RecordCount = 5
  Bytes = {0, 1}
  EmptyByte = 1
  Modes = {"read", "create", "append"}
  Writes <- OneWrite
  Reads = {3}
  Deletes = {}
  Formats = TRUE
  PowerCuts = TRUE
  IoErrors = FALSE
SPECIFICATION FairSpec
PROPERTIES
  ImplementsFileStore
  CallsReturn
