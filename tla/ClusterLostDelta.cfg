SPECIFICATION Spec
CONSTANTS
    N = 2
    T = 2
    Key = {k1}
    Signing = {}
    Refreshing = {r1, r2}
    MayFail = {}
    MayLag = {}
INVARIANT SharesAgreeAtRest
