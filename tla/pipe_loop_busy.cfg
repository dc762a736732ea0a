SPECIFICATION FairSpec
CONSTANTS
    Calls = {c1, c2}
    NoCall = NoCall
    Instances = {h1, h2, h3}
    NoInst = NoInst
    BufSize <- MCBufSize
    Lengths <- Shortest
    Waits <- AlwaysWait
    Replies <- NoReply
    FaultSets <- NoFault
PROPERTIES
    LoopIsFree
CHECK_DEADLOCK FALSE
