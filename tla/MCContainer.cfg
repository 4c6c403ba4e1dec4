SPECIFICATION SumSpec
CONSTANTS
  Parts = {"async", "bridge", "background", "cluster"}
  App = {a1, a2}
  Path = {p1, p2}
  NoPath = NoPath
  Calls = {"complete", "dispatch", "setTimeout"}
  Reaper = TRUE
  MaxCycles = 3
  Requests = {"r", "q"}
  Workers = {"w", "v"}
  Leavers = {"r"}
  BodyLen = 2
  MaxCalls = 1
  MaxPanics = 1
  Contexts <- Deployed
  MaxTime = 2
  MaxChanges = 2
  MaxTicks = 3
CHECK_DEADLOCK FALSE
INVARIANTS EndsOnceHeard BridgeSound ReportsOwnChanges
PROPERTY EveryoneAnswered
