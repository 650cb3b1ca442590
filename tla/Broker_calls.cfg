\* Two calls that stream and answer, refused and dropped requests, exits; with -wait,
\* leaving waits for the calls that are under way.
SPECIFICATION FairSpec
CONSTANTS
  Reqs = {r1, r2}
  Wait = TRUE
  ChCap = 1
  MaxPosts = 0
  MaxPolls = 0
  MaxStream = 1
  MaxReadErrors = 0
INVARIANTS
  WholeLines
  WaitGroupCounts
  StreamBeforeAnswer
  WaitDrains
PROPERTIES
  AnswersOnce
  CallsFinish
CHECK_DEADLOCK FALSE
