SPECIFICATION TSSpec
CONSTANTS
  first = first second = second t1 = t1 t2 = t2 t3 = t3
  BatchSeq <- TwoBatches
  TaskSeq <- ThreeTasks
  Deps <- ThreeDeps
  Old = first
  New = second
  WebFallback = TRUE
  ForegroundLimit = 2
  MaxOwner = 1
  MaxCrashes = 0
CHECK_DEADLOCK FALSE
PROPERTY BlocksOnlyWhenNothingReady
