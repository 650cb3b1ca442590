\* A command is started while an earlier .play with its cid is being built.
SPECIFICATION PlaySpec
CONSTANTS
  Jobs = {j1, j2}
  Plays = {j1}
  Cancels = {}
  Cids = {a}
  Nil = Nil
  Kinds = {"finite"}
PROPERTIES
  PreviousBuildIsKilled
CHECK_DEADLOCK FALSE
