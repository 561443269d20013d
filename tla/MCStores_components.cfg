SPECIFICATION MCSpec
CONSTANTS
  Parts = {"patches", "archive", "upgrade", "tasks", "activation", "audit", "access",
           "harness", "public", "desktop", "receipts", "skills", "listeners", "git", "tasklist"}
  r1 = r1 r2 = r2 f1 = f1 f2 = f2 t1 = t1 skill = skill b = b
  conv = conv goal1 = goal1 goal2 = goal2 id1 = id1 id2 = id2 th1 = th1 th2 = th2 k1 = k1 k2 = k2
  Requests = {r1, r2}
  NoRequest = NoRequest
  Callers = {c1, c2}
  Files = {f1, f2}
  Touches <- PairTouches
  Local <- OtherGate
  Source = Source
  Jobs = {}
  JobMode <- NoModes
  Tasks = {t1}
  TaskOf <- PairTask
  NoTask = NoTask
  MaxCrashes = 1
  Keys = {k1, k2}
  Turns = {t1}
  Texts = {x1}
  NoText = NoText
  Damaged = Damaged
  Archivists = {q1, q2}
  MaxCalls = 3
  MaxFaults = 1
  Upgrades = {g1, g2}
  Builds = {b, b2}
  NoApp = NoApp
  MaxMeddling = 2
  Owners = {conv}
  Nowhere = Nowhere
  Goals = {goal1, goal2}
  NoGoal = NoGoal
  RequestIds = {id1, id2}
  NoId = NoId
  Steps = {sp}
  Opens <- Openings
  Checkpoints <- Updates
  MaxTasks = 2
  MaxEvents = 3
  MaxStarts = 3
  MaxFalls = 1
  Threads = {th1, th2}
  Commands = {k1, k2}
  Greps = {k1}
  Calls <- ToolCalls
  Settings <- TwoSettings
  MaxSessions = 1
  MaxDay = 2
  MaxErrors = 1
  MaxOrders = 1
  Visits = {v1, v2}
  Keeps = {0, 1}
  LastDay = 2
  Clients = {w1, w2}
  MaxHarnessTasks = 1
  MaxRequests = 3
  MaxEnds = 1
  Visitors = {n1}
  CodeTtl = 0
  TokenTtl = 1
  LastTick = 1
  MaxUrls = 2
  MaxCodes = 1
  MaxRenewals = 1
  MaxListeners = 2
  ws1 = ws1 ws2 = ws2 ws3 = ws3 dom1 = dom1 dom2 = dom2
  Deskers = {x1, x2}
  Workspaces = {ws1, ws2, ws3}
  Beginnings <- FirstDesktops
  NoSecrets = {ws2}
  Forms <- FourForms
  NoDomain = NoDomain
  TornFile = TornFile
  NotServed = NotServed
  PortMcp = 2
  PortActions = 1
  LastPort = 6
  MaxCommands = 2
  MaxMishaps = 1
  Patches = {1, 2}
  LastPlace = 2
  ScanRows = 1
  PageSizes = {1, 2}
  MaxTraversals = 1
  MaxRefusals = 1
  MaxNews = 1
  w1 = w1 x1 = x1 x2 = x2
  SkillFiles = {1, 2}
  Drafts <- TwoDrafts
  Missing = Missing
  FirstLibrary <- OneSkill
  Browsers = {w1, x1, x2}
  Wants <- SkillCalls
  CatalogOf <- WhoseCatalog
  MaxFound = 2
  MaxCachedSkills = 1
  LookLimit = 1
  RootIds = {1}
  RootPlace <- EachItsOwn
  SkillPlace <- EachItsOwn
  MaxEdits = 1
  MaxToggles = 1
  MaxLooks = 2
  MaxRootChanges = 1
  v1 = v1 v2 = v2 void = void d1 = d1 d2 = d2
  Paths = {1, 2, 3}
  Versions = {v1, v2, void}
  NoFile = NoFile
  Empty = void
  Alike <- TwoAlike
  Bare = {}
  Names = {1, 2, 3, 4}
  ReadAs <- WithTab
  LooksLike <- ThirdName
  NoName = 0
  Inquiries <- SomeInquiries
  FirstRepos <- SomeRepos
  SkipCap = 2
  MaxWorks = 1
  MaxInquiries = 2
  Continued = {"log"}
  Directories = {d1, d2}
  TaskNumbers = {1, 2}
  Desks = 3
  PlaceOf <- EveryOther
  FirstRows <- SomeRows
  NoRow = NoRow
  PageLimits = {1, 2}
  Filters = {"all", "ready"}
  MaxTouches = 1
  MaxListings = 1
  MaxAbsences = 1
  Setups <- SomeSetups
  Asks <- SomeAsks
  Repos = {"host", "member"}
  Host = "host"
  NoRepo = "nothing"
  MaxListenerRuns = 2
  MaxWebCalls = 2
VIEW ActiveState
CHECK_DEADLOCK FALSE
INVARIANT ReceiptTruthful
INVARIANT ArchiveInv
INVARIANT UpgradeInv
INVARIANT TaskInv
INVARIANT ActivationInv
INVARIANT AuditInv
INVARIANT AccessInv
INVARIANT HarnessInv
INVARIANT PublicInv
INVARIANT DesktopInv
INVARIANT ReceiptsInv
INVARIANT SkillsInv
INVARIANT ListenersInv
INVARIANT GitInv
INVARIANT WorkbenchInv
PROPERTY AnswersCurrent
