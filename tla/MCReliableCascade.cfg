SPECIFICATION Spec
CONSTANTS
    N = 2
    MAX_RELIABLE_COMMANDS = 1
    MessageCapacity = 1
    MaxCommands = 2
    MaxUpdates = 1
    MaxRestarts = 1
INVARIANTS OverrunIsDropped
PROPERTIES DropIsComplete
