SPECIFICATION Spec
CONSTANTS
    Dirs = {"d1", "d2"}
    FirstDir = "d1"
    BadDirs = {"bad"}
    MaxServices = 3
    MaxVersion = 1
INVARIANTS
    SingleOwner
    TreeIsCurrent
    OrderlyEndLosesNothing
PROPERTIES
    Answered
    TreeCatchesUp
    CloseEnds
CHECK_DEADLOCK FALSE
