SPECIFICATION Spec
CONSTANTS
    Session = {c1, c2}
    Capacity = 2
    Retries = 0
    Sinks = {TRUE}
    U64 = 8
    MaxSkew = 1
    Horizon = 2
    Request <- MCApproved
    WalletReply <- MCFewReplies
    Configs <- MCProduction
SYMMETRY CallSymmetry
INVARIANTS
    TypeOK
    SingleUse
    RecordsTellOutcome
    AnsweredAttemptsSettled
PROPERTIES
    SessionsMoveForward
    UsesEngine
