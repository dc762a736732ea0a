SPECIFICATION FairSpec
CONSTANTS
    Threads = {s1, s2}
    Clients = {c1, c2, c3}
    None = None
    Big = Big
    Absent = Absent
    Secret = Secret
    Files = {Big, Absent, Secret}
    Size <- MCSize
    Missing = {Absent}
    Denied = {Secret}
    NameLength = 300
INVARIANTS
    TypeOK
    OwnContents
    CountsThreads
PROPERTIES
    MainExits
CHECK_DEADLOCK FALSE
