CONSTANTS
  SynchkCalls = {1, 2}
  FileLists <- MCFileLists
  BadTexts = {"bad"}
  NoText = "none"
  DirCalls = {1, 2}
  Root = "root"
  Paths <- MCPaths
  DirOf <- MCDirOf
  Kinds = {"dir", "file"}
  GoFiles <- MCGoFiles
  MaxRemovals = 1
  PathCalls = {1}
  SrcDirs = {"goroot", "gopath"}
  Trees <- MCTrees
  Excluded = {"main"}
  ChanCap = 1
  ImportCalls = {1, 2, 3}
  Toggles <- MCToggles
  PathC = "C"
  AutoInstCap = 1
  MsgCap = 1
SPECIFICATION MethodsSpec
INVARIANTS SynchkNamesFiles PkgDirsComplete PkgPathsWhole ImportsToggled
PROPERTY MethodsReturn
CHECK_DEADLOCK FALSE
