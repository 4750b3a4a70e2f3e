SPECIFICATION Spec
CONSTANTS
    MaxPages = 4
    MaxCrashes = 2
INVARIANTS
    PagesIntact
    PagesHaveOnePlace
