\* Every kind of call: lines, rewritten, indented and discarded ones, read in
\* pieces of one or two bytes, and a command that falls silent without ending.
SPECIFICATION FairSpec
CONSTANTS
  Modes <- AllModes
  Bytes = {"a", "b", "cr", "nl", "sp"}
  Matching = {"b"}
  MaxBytes = 5
  MaxMatches = 2
  MaxWrite = 2
  FlushSize = 3
INVARIANTS
  OutputIntact
  ChunksAligned
  MatchesKept
  GatheredBounded
PROPERTIES
  EndIsLast
  OutputIsSent
CHECK_DEADLOCK FALSE
