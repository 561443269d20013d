SPECIFICATION SVSpec
CONSTANTS
  mcp1 = mcp1 act1 = act1 mcp2 = mcp2 ws1 = ws1 ws2 = ws2
  Services = {mcp1, mcp2}
  Of <- Apart
  Mcp = {mcp1}
  Configs = {"one"}
  Procs = {p1, p2}
  Ops = {"start", "delete"}
  ImageKills = FALSE
  MaxCommands = 2
  MaxEvents = 0
CHECK_DEADLOCK FALSE
INVARIANT DeletedHasNoTunnel
