\* Three commands and a cancel contending for one cid.
\* Without fairness a command that may end may also run on or ignore SIGINT:
\* "finite" has every behaviour of the other kinds.
SPECIFICATION Spec
CONSTANTS
  Jobs = {j1, j2, j3}
  Cancels = {k1}
  Cids = {a}
  Nil = Nil
  Kinds = {"finite"}
SYMMETRY Symmetry
INVARIANTS
  AtMostOneRunning
  TableInv
PROPERTIES
  CancelReturnsOnIdleCid
  HookReachesEveryProcess
  ImplementsSlots
CHECK_DEADLOCK FALSE
