\* The power may fail while a file is deleted.
CONSTANTS
  f1 = f1
  f2 = f2
  f3 = f3
  Erased = Erased
  NoFile = NoFile
  Names = {f1, f2}
  SectorCount = 5
  DataSize = 2
  RecordCount = 2
  Bytes = {0, 1}
  EmptyByte = 1
  Modes = {"create"}
  Writes <- OneWrite
  Reads = {1, 3}
  Deletes = {{f1}}
  Formats = FALSE
  PowerCuts = TRUE
  IoErrors = FALSE
SPECIFICATION Spec
INVARIANTS
  FilesSeparate
