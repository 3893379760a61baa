SPECIFICATION Spec
CONSTANTS
  Names <- FourNames
  Files <- SomeFiles
  NameLen <- Lengths
  Short <- FirstFifteen
  Archives = {"lib", "new", "bare"}
  Lines <- SomeLines
  RanlibArgs <- LibThenBare
  ScriptArgs <- FewArguments
  ScriptOpts = {{"s"}}
  StartDisk <- SeveralDisk
  CopyFails = TRUE
  WriteFails = TRUE
  MaxRuns = 2
  MaxCommands = 3
CHECK_DEADLOCK FALSE
INVARIANT SymtabRight
INVARIANT OthersKept
PROPERTY ScriptsEditCopies
