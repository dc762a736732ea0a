SPECIFICATION Spec
CONSTANTS
    Calls = {c1}
    NoCall = NoCall
    Instances = {h1, h2}
    NoInst = NoInst
    BufSize <- MCBufSize
    Lengths <- Shortest
    Waits <- NoWait
    Replies <- NoReply
    FaultSets <- NoFault
PROPERTIES
    ClosedUnused
CHECK_DEADLOCK FALSE
