SPECIFICATION FairSpec
CONSTANTS
  s1 = s1  s2 = s2
  Slices = {s1, s2}
  Local = {s1}
  Lengths = {0, 3, 4}
  BUF_SIZE = 2
  InCap = 1
  OutCap = 1
  Node = Node
  Failed = Failed
INVARIANTS
  TypeOK
  ComputesWhatWasRead
  LeaksOnlyAtStart
  DeadlockHasCause
PROPERTIES
  SlicesReturn
CHECK_DEADLOCK FALSE
