SPECIFICATION FairSpec
CONSTANTS
    f0 = f0
    f2 = f2
    f3 = f3
    fr = fr
    Files = {f0, f2, f3, fr}
    Blocks <- MCBlocks
    Refused = {fr}
    NoFile = NoFile
    MAX_DOWNLOAD_WINDOW = 2
    CanStop = TRUE
    MaxRequests = 2
    MaxUnderWay = 2
CHECK_DEADLOCK FALSE
INVARIANTS TypeOK FileIntact AcksExpectedInTime
PROPERTIES DownloadEnds
