SPECIFICATION Spec
CONSTANTS
  j1 = j1
  j2 = j2
  s1 = s1
  NoOne = NoOne
  Failed = Failed
  Jobs = {j1,j2}
  Kinds = {"code", "train"}
  Senders = {s1}
  FileSize <- OneByteChunks
  MaxSize = 1
  BaseName <- ExpectedNames
  GateCommands = {"receiveFile", "closeReceiveFile"}
  Faulty <- Manual
  Dying = {}
  BUF_SIZE = 2
  EmptyOutput = {}
  After <- Independent
INVARIANTS
  CodeTokens
CONSTRAINT TwoAtOnce
SYMMETRY JobSymmetry
CHECK_DEADLOCK FALSE
