SPECIFICATION Spec
CONSTANTS
    Calls = {c1, c2}
    NoCall = NoCall
    Instances = {h1, h2, h3}
    NoInst = NoInst
    BufSize <- MCBufSize
    Lengths <- MCLengths
    Waits <- AnyWait
    Replies <- AnyReply
    FaultSets <- AnyFaults
SYMMETRY CallSymmetry
INVARIANTS
    TypeOK
    OneInstance
    StopTrueMeansDown
    AnswersOwnRequest
    OneLiveLeak
PROPERTIES
    KeepsPromise
CHECK_DEADLOCK FALSE
