SPECIFICATION MCSpec
CONSTANTS
  c1 = c1  c2 = c2  o1 = o1  o2 = o2
  Clients = {c1, c2}
  Calls = {o1, o2}
  Requests = {"receiveFile", "shareFile", "distributiveComputing", "hello"}
  Remotes = {"r"}
  Fds = {1, 2}
  Backlog = 1
  Nothing = Nothing
  Table <- MCTable
  Lines <- MCLines
ACTION_CONSTRAINT Bounded
INVARIANTS
  TypeOK
  SocketsIntact
  AnswersOwnCommand
  AbortsOnlyOnFaults
PROPERTIES
  FirstStrike
  SuggestsFairly
  ClientsServed
  ConsoleReturns
CHECK_DEADLOCK FALSE
