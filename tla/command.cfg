SPECIFICATION FairSpec
CONSTANTS
  Hosts = {h1, h2}
  MAX_IPS = 3
  FileSizes = {0, 5}
  ConnectionCounts <- Counts
  Layouts <- SomeLayouts
  ScanWindow = 3
  Garbage = Garbage
  LocalBuffer = 2
  Failed = Failed
  MaxCommands = 2
INVARIANTS
  TypeOK
  PrintsWholeFile
PROPERTIES
  FreesNothingInUse
  CommandEnds
CHECK_DEADLOCK FALSE
