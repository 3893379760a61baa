SPECIFICATION Spec
CONSTANTS
    EhdrSize = 4
    PhentSize = 2
    ShentSize = 2
    PhdrAlign = 2
    ShdrAlign = 2
    FAlign <- MCFAlign
    Objects <- AllObjects
    Types = {"WORD"}
    PhNums = {1}
    Offsets = {8}
    Sizes = {3}
    Aligns = {4}
    EhdrFaults = {"version", "order"}
    DataFaults = {"size"}
    MaxScn = 3
    MaxData = 2
    MaxUpdates = 2
INVARIANT ImageRight
INVARIANT ExtentsSorted
PROPERTY ResyncStable
CHECK_DEADLOCK FALSE
