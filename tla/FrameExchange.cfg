SPECIFICATION RecordSpec
CONSTANTS
    UPDATE_BACKUP = 4
    BYTE = 4
    DropLimit = 4
    SERVERONLY = TRUE
    Nodelta = {FALSE}
    MaxSequence = 6
    MaxLevel = 2
INVARIANTS
    TypeOK
    Shown
    Predicted
    AsAsked
    RunsEach
    PlayedBack
CHECK_DEADLOCK FALSE
