SPECIFICATION FairSpec
CONSTANTS
    N = 1
    MAX_RELIABLE_COMMANDS = 2
    MessageCapacity = 2
    MaxCommands = 4
    MaxUpdates = 1
    MaxRestarts = 1
INVARIANTS TypeOK ReceivedAsAdded KeyKept
PROPERTIES CommandReaches
