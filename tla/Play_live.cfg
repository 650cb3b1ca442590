\* A .play, another command and a cancel that contend for a cid; commands end (CallsAnswered
\* is about those).
SPECIFICATION PlaySpec
CONSTANTS
  Jobs = {j1, j2}
  Plays = {j1}
  Cancels = {k1}
  Cids = {a}
  Nil = Nil
  Kinds = {"finite"}
INVARIANT
  DirsRemoved
PROPERTIES
  CallsAnswered
CHECK_DEADLOCK FALSE
