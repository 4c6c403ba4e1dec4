SPECIFICATION Spec
CONSTANTS
  Apps = {1, 2}
  Configured = {1}
  Servlets = 1
  Descriptors = {"good", "empty"}
  Roles = {"watcher", "manager"}
  Requests = {"start", "stop", "reload", "undeploy"}
  Stops = TRUE
  MaxContexts = 3
  MaxClock = 1
CHECK_DEADLOCK FALSE
INVARIANT TypeOK
PROPERTIES NeverReplaced WiredOnce
