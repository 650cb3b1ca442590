\* Two requests while margo is installed, dies and is rebuilt.
SPECIFICATION FairSpec
CONSTANTS
  Reqs = {r1, r2}
  Blocking = {r2}
  MaxProcs = 2
  MaxCrashes = 1
  MaxRebuilds = 1
INVARIANTS
  CallbackOnce
  ErrorMeansUnsent
  OneServer
  CurrentIsRead
PROPERTIES
  AcallsAnswered
  BcallsReturn
CHECK_DEADLOCK FALSE
