SPECIFICATION MCSpec
CONSTANTS
    MaxDies = 4
    MaxAttrs = 1
    Consts <- SmallConsts
    Other <- SmallUnit
    MaxEntries = 6
    Offsets = {0, 4, 72, 120}
    Sources <- SmallSources
    Symbol <- SmallSymbols
    Machines = {"x86", "mips"}
    Cies <- SmallCies
    Insts <- SmallInsts
    MaxInsts = 5
    Regs = {1, 2}
    Linked <- OneFunction
    Base <- SmallBases
    Programs <- SmallPrograms
    Queries = {0, 1, 2, 3, 4, 5, 7, 9}
CHECK_DEADLOCK FALSE
INVARIANT TreeComesBack
INVARIANT RefsResolve
INVARIANT LineRight
INVARIANT UnwindRight
INVARIANT FunctionRight
