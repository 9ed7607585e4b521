CONSTANTS
    Call = {c1, c2}
    MaxPolls = 2
    Provider <- MCProvider
    KeyChain <- MCKeyChain
    Operation <- MCOperation
SPECIFICATION FairSpec
CHECK_DEADLOCK FALSE
INVARIANTS
    TypeOK
    OnlyVerifiedSignatures
    OneChangePerCall
    CreatedKeysAreOwn
PROPERTIES
    ImplementsEngine
    CallsEnd
