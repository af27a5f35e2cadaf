SPECIFICATION Spec
CONSTANTS
    Bodies <- MCBodies
    FRAGMENT_SIZE = 2
    MAX_MSGLEN = 6
    SHORT_RANGE = 64
    ReliableWire = FALSE
    MaxMessages = 3
    MaxCommands = 1
INVARIANTS TypeOK DeliveredIntact DeliveredInOrder IInv
PROPERTIES ImplementsChannel
