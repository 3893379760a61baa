SPECIFICATION RelocationsSpec
CONSTANTS
  Script <- SmallScript
  Links <- SmallLinks
  PageSize = 64
  EhdrSize = 16
  PhdrSize = 8
  ShdrSize = 8
  RelSize = 6
  SymSize = 6
  StrSize = 11
  Symbols = 2
  SymbolIds = {1, 2}
  Kinds <- SmallKinds
  Outputs <- SmallOutputs
  MaxRefs = 2
  SymbolNames <- SmallNames
  VersionNames = {"C1", "C2", "V1", "V2"}
  HashOf <- SmallHash
  FirstFile <- SmallLibc
  LinkJobs <- SmallJobs
  FrameJobs <- SmallFrames
  SymbolAt <- SmallAddresses
  EhAddr = 100
  HdrAddr = 70
CHECK_DEADLOCK FALSE
INVARIANT DsoReferencesRelocated
