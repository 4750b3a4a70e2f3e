SPECIFICATION CodecSpec
CONSTANTS
    Columns <- MCColumns
    Strings <- MCStrings
    INT_MAX = 1
    MaxRows = 2
INVARIANTS
    RoundTrip
    WideOnlyByCopy
CHECK_DEADLOCK FALSE
