SPECIFICATION FairSpec
CONSTANTS
  Apps = {1, 2}
  Configured = {1}
  Servlets = 2
  Descriptors = {"good", "empty", "bad"}
  Roles = {"watcher", "redeployer", "manager"}
  Requests = {"deploy"}
  Stops = FALSE
  MaxContexts = 3
  MaxClock = 3
CHECK_DEADLOCK FALSE
INVARIANT StartedMeansChildren
PROPERTIES FixPickedUp DropsRegistered
