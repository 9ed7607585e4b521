SPECIFICATION FairSpec
CONSTANTS
    N = 3
    T = 2
    Key = {k1}
    Signing = {s1}
    Refreshing = {r1}
    MayFail = {1}
    MayLag = {2}
INVARIANTS
    PublishedKeyHasShares
    SerialRefreshesAgree
    QuorumOfDistinctNodes
    LossTolerated
PROPERTY
    CallsReturn
