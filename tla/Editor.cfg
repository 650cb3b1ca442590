CONSTANTS
  Callers = {main, installer}
  NoSig = NoSig
  MaxCalls = 3
  HookCmd = HookCmd
  main = main
  installer = installer
  Cmds <- MCCmds
  Programs <- MCPrograms
SPECIFICATION EditorSpec
INVARIANTS NothingForgotten ResumedOnce ChainsAsDocumented NewestHighlights NoChainStalls NotesSeeEveryEdit
PROPERTIES EditsAreLinted ChainsEnd
CHECK_DEADLOCK FALSE
