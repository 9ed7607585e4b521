SPECIFICATION Spec
CONSTANTS
    N = 3
    T = 2
    Key = {k1, k2}
    Signing = {s1}
    Refreshing = {r1, r2}
    MayFail = {}
    MayLag = {}
SYMMETRY CallSymmetry
INVARIANTS
    TypeOK
    PublishedKeyHasShares
    SerialRefreshesAgree
    UndisturbedSignVerifies
    EpochCountsRefreshes
