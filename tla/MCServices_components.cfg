SPECIFICATION MCSpec
CONSTANTS
  Parts = {"session", "upstream", "lanes", "reading", "search", "patchtext", "output"}
  ask1 = ask1 ask2 = ask2 main = main
  Outputs <- SomeOutputs
  LogCap = 3
  TailCap = 2
  BufferCap = 3
  Limits = {1, 3}
  Users = {u1, u2}
  MaxUses = 3
  Upstreams = {main, other}
  ToolCalls = {ask1, ask2}
  Target <- Same
  Nobody = Nobody
  Closer = Closer
  MaxNotices = 1
  HttpCalls = {1, 2, 3, 4, 5, 6}
  Frames = {11, 12, 13, 14}
  Control = {1, 2, 11, 12}
  Long = {3, 4}
  HttpRequests = 3
  HttpWaiting = 1
  HttpReserved = 1
  StdioWorkers = {s1, s2}
  ControlWorkers = {s1}
  QueueRoom <- OneFrame
  Idle = Idle
  MaxSize = 4
  MaxChunk = 2
  MaxLine = 2
  MaxBytes = 2
  Trees <- SomeTrees
  Searches <- SomeSearches
  MaxRemoved = 1
  Texts = {"x", "y", "blank", "dashes", "pluses"}
  Blank = "blank"
  Dashes = {"dashes"}
  Pluses = {"pluses"}
  Stray = 6
  PatchPaths = {1, 2, 3, 4, 5, 6}
  PathKind <- Kinds
  Requested <- SomePatches
CHECK_DEADLOCK FALSE
INVARIANT SessionInv
INVARIANT UpstreamInv
INVARIANT FilesInv
INVARIANT OutputInv
PROPERTY CallsEnd
