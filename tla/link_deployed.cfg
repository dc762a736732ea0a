SPECIFICATION FairSpec
CONSTANTS
    Tells = {t1, t2}
    Requests = {r1}
    States = {Initializing, Listening}
    Initializing = Initializing
    NoState = NoState
    Commands = {command}
    Torn = Torn
    Indexes <- MCIndexes
INVARIANTS
    TypeOK
    ShownIsCurrent
    AnswersAreStates
    CallbackOutlivesCall
PROPERTIES
    InstructionUnderstood
    StopIsNotBlocked
CHECK_DEADLOCK FALSE
