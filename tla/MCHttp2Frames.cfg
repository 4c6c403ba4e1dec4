SPECIFICATION Spec
CONSTANTS
  NStreams = 3
  Profiles <- ThreeClients
  Legal = FALSE
  MaxSent = 3
  MaxConc = 2
  Window = 1
  MaxWindow = 2
  BadRequests = TRUE
INVARIANTS TypeOK OpenCount OneAnswer
PROPERTIES WithinCredit
CHECK_DEADLOCK FALSE
