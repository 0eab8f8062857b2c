SPECIFICATION Spec
CONSTANTS
  j1 = j1
  j2 = j2
  s1 = s1
  NoOne = NoOne
  Failed = Failed
  Jobs = {j1, j2}
  Kinds = {"code", "train"}
  Senders = {}
  FileSize <- OneByteChunks
  MaxSize = 1
  BaseName <- ExpectedNames
  GateCommands = {}
  Faulty = {}
  Dying = {}
  BUF_SIZE = 1
  EmptyOutput = {}
  After <- Independent
INVARIANTS
  OwnCodeFinished
CHECK_DEADLOCK FALSE
