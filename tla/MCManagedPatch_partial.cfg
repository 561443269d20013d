SPECIFICATION Spec
CONSTANTS
  r1 = r1 r2 = r2 f1 = f1 f2 = f2 w = w b = b t1 = t1 skill = skill
  Requests = {r1, r2}
  NoRequest = NoRequest
  Callers = {c1}
  Files = {f1, f2}
  Touches <- PairTouches
  Local <- OtherGate
  Source = Source
  Jobs = {}
  JobMode <- NoModes
  Tasks = {t1}
  TaskOf <- PairTask
  NoTask = NoTask
  MaxCrashes = 1
INVARIANT Transactional
