\* A request made while margo is being installed.
SPECIFICATION Spec
CONSTANTS
  Reqs = {r1}
  Blocking = {}
  MaxProcs = 1
  MaxCrashes = 0
  MaxRebuilds = 0
PROPERTIES
  InstallIsAwaited
CHECK_DEADLOCK FALSE
