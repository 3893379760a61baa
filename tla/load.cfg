SPECIFICATION Spec
CONSTANTS
    Names = {"f", "g", "h", "i", "j"}
    Versions = {}
    Sizes = {}
    Contents <- SmallContents
    Libraries <- SmallLibraries
    Provided <- NoNames
    CmdLines <- LongDriverLines
    Archs = {"amd64","i386"}
INVARIANT ComdatKeptOnce
INVARIANT NoFalseConflict
PROPERTY GroupsSearched
PROPERTY Progress
