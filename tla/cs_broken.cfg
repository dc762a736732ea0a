SPECIFICATION Spec
CONSTANTS
    Threads = {s1, s2}
    Clients = {c1, c2, c3}
    None = None
    Big = Big
    Absent = Absent
    Secret = Secret
    Files = {Big, Absent, Secret}
    Size <- MCSize
    Missing = {Absent}
    Denied = {}
    NameLength = 300
INVARIANTS
    BrokenIsCaught
CHECK_DEADLOCK FALSE
