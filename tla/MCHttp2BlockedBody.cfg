SPECIFICATION FairSpec
CONSTANTS
  NStreams = 2
  Profiles <- Pipeliner
  Legal = TRUE
  MaxSent = 2
  MaxConc = 2
  Window = 1
  MaxWindow = 2
  BadRequests = FALSE
PROPERTIES BodyCompletes
CHECK_DEADLOCK FALSE
