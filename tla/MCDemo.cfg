CONSTANTS
    Entity = {1}
    Pos = {0, 1}
    Command = {0, 1}
    MaxLinks = 2
    MaxRecords = 2
SPECIFICATION Spec
INVARIANTS TypeOK ReplayShowsRecorded
PROPERTIES ReplayStrings ReplayInput
CONSTRAINT Apart
CHECK_DEADLOCK FALSE
