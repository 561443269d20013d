SPECIFICATION Spec
CONSTANTS
  j1 = j1 j2 = j2 j3 = j3 t1 = t1
  Jobs = {j1, j2, j3}
  Clients = {c1}
  NoJob = NoJob
  Tasks = {}
  NoTask = NoTask
  TaskOf <- TrioTask
  Mode <- TrioMode
  Uses <- TrioUses
  NumResources = 1
  Unix = TRUE
  WslJobs = {}
  QueueLimit = 2
  RunningLimit = 2
  HeavyLimit = 1
  MayCancel = {}
  MaxCrashes = 0
INVARIANT CapacityRespected
INVARIANT JobsInv
