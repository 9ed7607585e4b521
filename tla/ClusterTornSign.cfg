SPECIFICATION Spec
CONSTANTS
    N = 2
    T = 2
    Key = {k1}
    Signing = {s1}
    Refreshing = {r1}
    MayFail = {}
    MayLag = {}
INVARIANT SignatureVerifies
