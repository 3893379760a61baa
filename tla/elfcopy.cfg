SPECIFICATION CopySpec
CONSTANTS
  EhdrSize = 4
  PhentSize = 2
  ShentSize = 2
  ShdrAlign = 2
  SymSize = 1
  RelSize = 1
  DebugNames = {".debug_info"}
  DwoNames = {".data.dwo"}
  LocalLabels = {".L1"}
  LoReserve = 100
  Cases <- AllCases
  NameLength <- Lengths
  MagicSize = 2
  ArHdrSize = 4
  WordSize = 2
  LongName = 3
  Topics = {"elf", "pe", "names", "records"}
  DosSize = 4
  SigSize = 1
  CoffSize = 2
  SecHdrSize = 2
  SymEntrySize = 2
  OptSize <- OptSizes
  PeAlign = 2
  ImageAlign = 8
  ObjectAlign = 4
  Starts <- SmallStarts
  Stubs <- SmallStubs
  Pieces <- SmallPieces
  Elfs <- SmallElfs
  MaxCalls = 3
  MaxUpdates = 2
  Heads <- SmallHeads
  Bases <- SmallTypes
  Marks <- SmallMarks
  MaxGrowth = 3
  SourceNames = {"Foo", "Bar", "Box", "fn", "xy"}
  Numbers = {"0", "5", "16"}
  Byte = 16
  LineLength = 4
  Paragraph = 4
  Images <- SmallImages
CHECK_DEADLOCK FALSE
INVARIANT RebuiltSymbols
INVARIANT ReferencesFollow
INVARIANT SegmentsMap
INVARIANT NothingLost
INVARIANT MembersIndependent
PROPERTY SectionsComeBack
INVARIANT DemangledIsDeclared
INVARIANT FormatsComeBack
