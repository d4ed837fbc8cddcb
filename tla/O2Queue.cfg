CONSTANTS
  n1 = n1
  n2 = n2
  t1 = t1
  t2 = t2
  NULL = NULL
  Nodes <- TwoNodes
  Threads <- TwoThreads
  MaxAba = 5
SPECIFICATION FairSpec
INVARIANTS QueueLinked OneOwner
PROPERTIES StackSpec OperationsReturn
CHECK_DEADLOCK FALSE
