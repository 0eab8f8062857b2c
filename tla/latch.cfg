SPECIFICATION FairSpec
CONSTANTS
  w1 = w1
  w2 = w2
  w3 = w3
  r1 = r1
  r2 = r2
  Waiters <- ThreeWaiters
  Resumers <- TwoResumers
  NoThread = NoThread
  MaxSpurious = 1
INVARIANTS
  TypeOK
  NoLostWakeup
PROPERTIES
  ImplementsLatch
  RaisedLatchIsTaken
CHECK_DEADLOCK FALSE
