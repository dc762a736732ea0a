SPECIFICATION FairSpec
CONSTANTS
    Calls = {c1, c2}
    NoCall = NoCall
    Instances = {h1, h2, h3}
    NoInst = NoInst
    BufSize <- MCBufSize
    Lengths <- MCLengths
    Waits <- NoWait
    Replies <- NoReply
    FaultSets <- DeployedFaults
INVARIANTS
    OneInstance
PROPERTIES
    CallsReturn
    AcceptedIsHandled
    StopReturns
    LoopIsFree
CHECK_DEADLOCK FALSE
