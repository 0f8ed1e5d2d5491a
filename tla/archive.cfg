CONSTANTS
  Max16 = 2
  Max32 = 8
  ChunkSize = 3
  ReadSize = 4
  UnzipSize = 3
  Trees <- MCTrees
  Contents <- MCContents
SPECIFICATION Spec
INVARIANTS
  TypeOK
  DirectoryIsTrue
  FieldsFit
  AcceptedIsComplete
  OnlyLastIsBroken
  ReaderIsAligned
PROPERTIES
  WrittenIsRead
CHECK_DEADLOCK FALSE
