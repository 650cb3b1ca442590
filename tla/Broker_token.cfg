\* A call whose data json cannot encode.
SPECIFICATION Spec
CONSTANTS
  Reqs = {r1}
  Wait = FALSE
  ChCap = 1
  MaxPosts = 0
  MaxPolls = 0
  MaxStream = 0
  MaxReadErrors = 0
INVARIANTS
  TokenReturned
CHECK_DEADLOCK FALSE
