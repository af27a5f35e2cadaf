CONSTANTS
    Bits <- MCBits
    SERVER_MAXBANS = 3
    MaxFaults = 1
SPECIFICATION Spec
INVARIANTS TypeOK NothingIdle
PROPERTIES CommandsDoWhatTheySay
