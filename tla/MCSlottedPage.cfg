SPECIFICATION Spec
CONSTANTS
    PageSize = 13
    HeaderSize = 2
    SlotSize = 2
    Values = {"a", "b"}
    Lengths = {1, 2}
    RowCells <- RowCellsDef
    Rows <- RowsDef
INVARIANTS
    TypeOK
    Layout
PROPERTIES
    SlotsNotReused
    PageStoresRows
