SPECIFICATION SVSpec
CONSTANTS
  mcp1 = mcp1 act1 = act1 mcp2 = mcp2 ws1 = ws1 ws2 = ws2
  Services = {mcp1, act1, mcp2}
  Of <- Three
  Mcp = {mcp1}
  Configs = {"one", "bad"}
  Procs = {p1, p2}
  Ops = {"stop", "restart", "delete", "reopen", "test"}
  ImageKills = TRUE
  MaxCommands = 2
  MaxEvents = 1
CHECK_DEADLOCK FALSE
INVARIANT TunnelInv
PROPERTY LiveRouteKept
PROPERTY OthersUntouched
PROPERTY LinesComeBack
