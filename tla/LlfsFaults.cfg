\* The power may fail between any two page writes and any access to the media
\* may fail; nothing is deleted.
CONSTANTS
  f1 = f1
  f2 = f2
  f3 = f3
  Erased = Erased
  NoFile = NoFile
  Names = {f1, f2}
  SectorCount = 5
  DataSize = 2
  RecordCount = 2
  Bytes = {0, 1}
  EmptyByte = 1
  Modes = {"create", "append"}
  Writes <- ShortAndLong
  Reads = {1, 3}
  Deletes = {}
  Formats = FALSE
  PowerCuts = TRUE
  IoErrors = TRUE
SYMMETRY Symmetry
SPECIFICATION Spec
INVARIANTS
  FilesSeparate
  NoLinkIntoFreeSector
