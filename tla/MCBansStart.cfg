CONSTANTS
    Bits <- MCBits
    SERVER_MAXBANS = 2
    MaxFaults = 1
SPECIFICATION Spec
PROPERTIES SavedBansLoaded
