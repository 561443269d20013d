SPECIFICATION TSSpec
CONSTANTS
  first = first second = second t1 = t1 t2 = t2 t3 = t3
  BatchSeq <- TwoBatches
  TaskSeq <- TwoTasks
  Deps <- TwoDeps
  Old = first
  New = second
  WebFallback = TRUE
  ForegroundLimit = 2
  MaxOwner = 1
  MaxCrashes = 1
CHECK_DEADLOCK FALSE
INVARIANT QueueInv
PROPERTY KeepsOrders
PROPERTY NeverWaitsSilently
