SPECIFICATION ReadSpec
CONSTANTS
    Magic = 2
    HdrSize = 4
    Archives <- AllArchives
    LoReserve = 3
    XNum = 2
    MaxScns = 3
    MaxPhdrs = 2
    MaxUpdates = 2
CHECK_DEADLOCK FALSE
INVARIANT OpensWhatWasAsked
PROPERTY VisitsEachOnce
PROPERTY FirstCommitComplete
