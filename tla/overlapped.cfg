SPECIFICATION FairSpec
CONSTANTS
    Clients = {c1, c2}
    Long = {c2}
    Instances = {i1, i2, i3}
    None = None
    MayFail = TRUE
INVARIANTS
    TypeOK
    OneOperationEach
    NobodyIsForgotten
    RepliesMatch
    LetInMeansServed
    AcceptsAgain
PROPERTIES
    ReadsEnd
CHECK_DEADLOCK FALSE
