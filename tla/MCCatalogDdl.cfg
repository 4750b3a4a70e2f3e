SPECIFICATION Spec
CONSTANTS
    t1 = "t1"
    t2 = "t2"
    Tables = {"t1", "t2"}
    Layouts <- BothLayouts
    RowsPerPage = 2
    MaxPages = 3
    MaxFaults = 2
    MaxCrashes = 1
INVARIANTS
    PublishedIsDurable
    AbsentLeavesNoTrace
    MemoryAgrees
    ReopensIfWrittenAtOnce
