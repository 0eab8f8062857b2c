SPECIFICATION Spec
CONSTANTS
  j1 = j1
  j2 = j2
  s1 = s1
  NoOne = NoOne
  Failed = Failed
  Jobs = {j1}
  Kinds = {"code", "train", "reducer"}
  Senders = {}
  FileSize <- OneByteChunks
  MaxSize = 1
  BaseName <- ExpectedNames
  GateCommands = {}
  Faulty = {}
  Dying = {}
  BUF_SIZE = 2
  EmptyOutput = {}
  After <- Independent
INVARIANTS
  OpensItsOwnPath
CHECK_DEADLOCK FALSE
