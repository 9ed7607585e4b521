SPECIFICATION FairSpec
CONSTANTS
    Session = {c1}
    Capacity = 1
    Retries = 0
    Sinks = {TRUE, FALSE}
    U64 = 8
    MaxSkew = 1
    Horizon = 3
    Request <- MCEveryVerdict
    WalletReply <- MCWalletReply
    Configs <- Config
INVARIANTS
    DispatchAuthorised
    RecordsTellOutcome
PROPERTY
    AttemptsEnd
