SPECIFICATION Spec
CONSTANTS
    Layouts <- MCLayouts
    Contents <- MCContents
    FirstDir = "one"
    Values = {1, 2}
    MaxRows = 2
    MaxClicks = 4
    None = None
INVARIANTS
    AimIsTrue
    GridIsCurrent
PROPERTIES
    UpdateIsShown
CHECK_DEADLOCK FALSE
