SPECIFICATION FairSpec
CONSTANTS
  j1 = j1
  j2 = j2
  s1 = s1
  NoOne = NoOne
  Failed = Failed
  Jobs = {j1}
  Kinds = {"code", "train"}
  Senders = {}
  FileSize <- TwoByteChunks
  MaxSize = 2
  BaseName <- ExpectedNames
  GateCommands = {}
  Faulty <- AllTransfers
  Dying = {j1}
  BUF_SIZE = 2
  EmptyOutput = {}
  After <- Independent
INVARIANTS
  TypeOK
  ReportsJobsResult
  NeverStarves
PROPERTIES
  SendsEnd
  JobCompletes
CHECK_DEADLOCK FALSE
