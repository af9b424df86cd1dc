SPECIFICATION Spec
CONSTANTS
  h1 = h1
  Local = Local
  Hosts = {h1}
  Layouts <- RemoteLayout
  MaxBuilds = 2
  JobIDs = {1, 2}
  Pids = {1, 2}
  BoolBytes = 1
  MaxJobNum = 3
INVARIANTS NoForbidden
CHECK_DEADLOCK FALSE
