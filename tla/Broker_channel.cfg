\* The channel of posted messages, the poll and read errors beside one call.
SPECIFICATION Spec
CONSTANTS
  Reqs = {r1}
  Wait = FALSE
  ChCap = 2
  MaxPosts = 3
  MaxPolls = 1
  MaxStream = 0
  MaxReadErrors = 1
INVARIANTS
  TypeOK
  PostsInOrder
CHECK_DEADLOCK FALSE
