CONSTANTS
    c1 = c1
    c2 = c2
    c3 = c3
    Call <- MCCall
    Operation <- MCOperation
    Environment <- MCEnvironment
SPECIFICATION FairSpec
INVARIANTS
    TypeOK
    KeyMapMatchesClusters
    KnownKeyIsFound
    EpochsAdvance
PROPERTY
    ShutdownCompletes
