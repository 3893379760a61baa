SPECIFICATION Spec
CONSTANTS
    Handles = {h1, h2, h3, h4}
    None = None
    MaxRefs = 2
SYMMETRY Symmetry
CHECK_DEADLOCK FALSE
INVARIANT HeldIsLive
INVARIANT MemberHasArchive
INVARIANT NothingKept
