CONSTANTS
    Address = {a, b, c, d}
    Other = d
    NA_BAD = NA_BAD
    Hash <- MCHash
    MAX_BUCKETS = 3
    MAX_HASHES = 2
    Burst = 1
    Period = 1
    OutBurst = 1
    OutPeriod = 2
    IntMax = 2
    Window = 2
SPECIFICATION Spec
SYMMETRY Symmetry
INVARIANTS TypeOK ChainsSound RequestsLimited BucketsBusy
