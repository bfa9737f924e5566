SPECIFICATION InterfaceSpec
CONSTANTS
    PortFields <- MCPortFields
    SignalFields <- MCSignalFields
    ParentFields <- MCParentFields
    Selections <- MCSelections
    FieldNames = {"a", "b"}
    MaxFields = 2
    MaxMoves = 2
    MaxBinds = 2
    WordBits = 2
    LongBits = 4
    Width = 9
    Count = 2
    Fields = {"a", "b"}
    PortOrder <- MCPortOrder
    Lsb <- MCLsb
    Bits <- MCBits
    TypeBits <- MCTypeBits
    Signed = {"a"}
    Evaluated <- MCEvaluated
    PortName = "b"
    Verilated <- MCVerilated
    Patterns <- MCPatterns
INVARIANTS BindsTheAlike CreatedSignalsBind InputIsClean
PROPERTIES BoundByName IsRecord
CHECK_DEADLOCK FALSE
