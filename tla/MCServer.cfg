SPECIFICATION SumSpec
CONSTANTS
  Parts = {"session", "login", "digest", "hpack", "start", "pipeline", "jdbc", "redis", "files", "histogram", "calls"}
  Sid = {s1, s2}
  Req = {r1, r2}
  Name = {a, b}
  Workers = {1, 2}
  Tasks = {"t1", "t2"}
  Users = {"u"}
  Secrets = {"p", "q"}
  Tokens = {"k"}
  Realms <- TwoRealms
  FailureCount = 2
  LockoutTime = 2
  NonceTtl = 1
  MaxNonces = 1
  MaxClock = 4
  Requests = {"r"}
  Filters = {"log", "error", "addr", "methods", "headers", "pass"}
  Basics = {"wrapper", "app"}
  MaxValves = 2
  Clients = {"t1", "t2"}
  Intervals = {0, 1, 2, 4}
  MaxOps = 4
  MaxFaults = 1
  Lengths = {1, 2}
  MaxVersions = 3
  MaxSeconds = 3
  Ranges <- SomeRanges
  Plans <- WebXml
  Names = {"a", "b", "c"}
  Initializers <- Initialised
  NoLoad <- Unspecified
  MaxDeploys = 2
  MaxStartFaults = 1
CHECK_DEADLOCK FALSE
INVARIANTS SessionsSerial CredentialsGuarded CodecsSurvive StartsSound ResponsesReported RemoteStoresKeep CopiesGood SamplesKept RequestsRouted RequestsRead WebappsRead ExpressionsMean BridgeFaithful
