SPECIFICATION FairSpec
CONSTANTS
  Jobs = {j1, j2}
  Cancels = {k1}
  Cids = {a}
  Nil = Nil
  Kinds = {"server", "stubborn"}
PROPERTIES
  PreviousInstanceIsKilled
CHECK_DEADLOCK FALSE
