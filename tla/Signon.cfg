SPECIFICATION Spec
CONSTANTS
    a = a
    b = b
    None = None
    Bad = Bad
    File = {a, b}
    Models <- MCModels
    Blocks = 3
    SERVERONLY = FALSE
    MaxLevel = 3
    MaxUser = 1
INVARIANTS
    TypeOK
    OnLevel
    HasLevel
    ListsWhole
    FilesWhole
    StaysConnected
PROPERTIES
    Enters
CHECK_DEADLOCK FALSE
