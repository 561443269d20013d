SPECIFICATION FairSpec
CONSTANTS
  j1 = j1 j2 = j2 j3 = j3 t1 = t1
  Jobs = {j1, j2}
  Clients = {c1}
  NoJob = NoJob
  Tasks = {t1}
  NoTask = NoTask
  TaskOf <- PairTask
  Mode <- PairMode
  Uses <- PairUses
  NumResources = 0
  Unix = FALSE
  WslJobs = {j1, j2}
  QueueLimit = 1
  RunningLimit = 2
  HeavyLimit = 1
  MayCancel = {j1}
  MaxCrashes = 1
PROPERTY JobsProgress
