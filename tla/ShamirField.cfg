SPECIFICATION Spec
CONSTANTS
    P = 5
    N = 4
    T = 3
    CheckedInvert = TRUE
INVARIANTS
    AnyQuorumReconstructs
    BelowThresholdSaysNothing
    MixedSharesMiss
