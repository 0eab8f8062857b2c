SPECIFICATION Spec
CONSTANTS
  FileSizes <- SmallAndLargeSizes
  ConnectionCounts <- UpToFive
  Layouts <- AllOrShortLines
  ScanWindow = 4
  Garbage = Garbage
INVARIANTS
  LastNodeGetsRemaining
CHECK_DEADLOCK FALSE
