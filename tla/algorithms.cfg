SPECIFICATION Spec
CONSTANTS
    Window = 3
    Pattern = 3
    BoundaryLevels = 3
    CompositeKeys = {8, 9}
    MaxSpliceMatrix = 100
    MaxMatrixSize = 100
    FieldNames <- MCFieldNames
    NumberNames <- MCNumberNames
    HashNames <- MCHashNames
    MaxTypes = 3
INVARIANTS
    
    
    PathRoundTrips
    TableReads
    
    LogIsTheHistory
    MostRecentAncestor
    TypesSound
CHECK_DEADLOCK FALSE
