SPECIFICATION Spec
CONSTANTS
    Tells = {t1}
    Requests = {r1}
    States = {Initializing, Listening}
    Initializing = Initializing
    NoState = NoState
    Commands = {command}
    Torn = Torn
    Indexes <- MCIndexes
INVARIANTS
    StateIsState
CHECK_DEADLOCK FALSE
