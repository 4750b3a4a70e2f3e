SPECIFICATION Spec
CONSTANTS
    Values = {"v1", "v2"}
    Wide = "wide"
    Gone = "gone"
    RowsPerPage = 2
    MaxPages = 3
    Failing = TRUE
    Widening = TRUE
    Asked <- MCAsked
    Users = {u1, u2, u3}
    NoPage = NoPage
    Capacity = 2
    Policies = {"LRU"}
    MaxRestarts = 1
INVARIANTS
    PageOrFile
    PinsAreAccounted
PROPERTIES
    PagewiseProgress
    TableIsARowList
