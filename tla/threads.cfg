SPECIFICATION FairSpec
CONSTANTS
    Clients = {c1, c2}
    Writers = {c2}
    Handles = {h1, h2, h3}
    None = None
    Rounds = 2
INVARIANTS
    TypeOK
    PostsToOwnClient
PROPERTIES
    StuckUntilGone
    LoopIsFree
    ConnectionsEnd
CHECK_DEADLOCK FALSE
