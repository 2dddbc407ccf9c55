CONSTANTS
    Window = 3
    Pattern = 3
    BoundaryLevels = 3
    ListItems <- MCListItems
    Bytes = {0, 1, 2}
    Keys = {0, 1, 2, 3, 4}
    Vals = {0, 1}
    MaxLen = 5
SPECIFICATION Spec
INVARIANTS
    Canonical
    ReadsAgree
