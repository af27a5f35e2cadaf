SPECIFICATION FairSpec
CONSTANTS
    Bodies <- MCBodies
    FRAGMENT_SIZE = 2
    MAX_MSGLEN = 6
    SHORT_RANGE = 64
    ReliableWire = TRUE
    MaxMessages = 3
    MaxCommands = 0
PROPERTIES EveryMessageArrives
CHECK_DEADLOCK FALSE
