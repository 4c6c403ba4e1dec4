SPECIFICATION Spec
CONSTANTS
  Parts = {"http1"}
  Peers = {"p"}
  Tasks = {"t", "u"}
  MaxMessages = 3
  MaxConns = 3
  MaxRestarts = 1
  QueueDepth = 1
  InboxDepth = 1
  SocketDepth = 1
  Directed = {"p"}
  Eager = TRUE
  Connectors = {"http", "https"}
  Conns = {1, 2}
  MaxSignals = 2
  PeerFrames <- WsFrames
  MaxPeerFrames = 3
  MaxWrites = 1
  MaxEvents = 3
  MaxMessageSize = 4
  MaxFrameSize = 2
  MaxControl = 3
  AcceptUnmasked = FALSE
INVARIANT NoneLost
CHECK_DEADLOCK FALSE
