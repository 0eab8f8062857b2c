SPECIFICATION Spec
CONSTANTS
  FileSizes <- SmallAndLargeSizes
  ConnectionCounts <- UpToFive
  Layouts <- AllOrShortLines
  ScanWindow = 4
  Garbage = Garbage
INVARIANTS
  TypeOK
  ChunksTile
  SkewBounded
  CutsOnlyLongLines
  ShortLinesStayInside
CHECK_DEADLOCK FALSE
