SPECIFICATION MCSpec
CONSTANTS
  Parts = {"patches", "gate"}
  r1 = r1 r2 = r2 f1 = f1 f2 = f2 w = w b = b t1 = t1 skill = skill
  Requests = {r1, r2}
  NoRequest = NoRequest
  Callers = {c1, c2}
  Files = {f1, f2}
  Touches <- PairTouches
  Local <- SameGate
  Source = Source
  Jobs = {w, b}
  JobMode <- BothModes
  Tasks = {t1}
  TaskOf <- PairTask
  NoTask = NoTask
  MaxCrashes = 1
  rootDir = rootDir subDir = subDir
  gitProgram = gitProgram ownProgram = ownProgram pwdProgram = pwdProgram
  Runners = {e1}
  Folders = {rootDir, subDir}
  Root = rootDir
  Programs = {gitProgram, ownProgram, pwdProgram}
  Allowed = {gitProgram, pwdProgram}
  OnPath = {gitProgram}
  LocalEntries = TRUE
  Mode = "dangerous"
  Wanted <- Wishes
  NoFolder = NoFolder
  MaxChanges = 1
  MaxMoves = 1
  MaxRuns = 1
SYMMETRY AnyCaller
INVARIANT PatchInv
INVARIANT GateInv
PROPERTY KeepsEdits
PROPERTY BuildStable
