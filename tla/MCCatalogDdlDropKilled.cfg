SPECIFICATION Spec
CONSTANTS
    t1 = "t1"
    t2 = "t2"
    Tables = {"t1", "t2"}
    Layouts <- BothLayouts
    RowsPerPage = 2
    MaxPages = 2
    MaxFaults = 0
    MaxCrashes = 1
INVARIANTS
    Reopens
