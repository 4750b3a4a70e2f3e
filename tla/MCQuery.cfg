SPECIFICATION Spec
CONSTANTS
    None = None
    SemanticError = SemanticError
    ExecError = ExecError
    StorageError = StorageError
    Crash = Crash
    Columns <- MCColumns
    Kinds <- MCKinds
    Statements <- MCStatements
    Tables <- MCTables
    Width = 2
    IntMin <- MCIntMin
    IntMax = 2
    MaxStatements = 1
CHECK_DEADLOCK FALSE
INVARIANTS
    CrashesOnlyOnGroups
    OptimizerKeepsMeaning
    SelectsWhatItSays
PROPERTIES
    WritesAreExact
