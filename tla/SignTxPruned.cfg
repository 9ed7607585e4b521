SPECIFICATION SpecWithPrune
CONSTANTS
    Session = {c1, c2}
    Capacity = 2
    Retries = 0
    Sinks = {TRUE}
    U64 = 8
    MaxSkew = 1
    Horizon = 2
    Request <- MCOneToken
    WalletReply <- MCFewReplies
    Configs <- MCProduction
INVARIANT SingleUse
