SPECIFICATION Spec
CONSTANTS
    Session = {c1}
    Capacity = 1
    Retries = 3
    Sinks = {TRUE}
    U64 = 8
    MaxSkew = 1
    Horizon = 2
    Request <- MCOneToken
    WalletReply <- MCFewReplies
    Configs <- MCProduction
INVARIANT EndedAttemptsEmit
