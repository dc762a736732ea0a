SPECIFICATION FairSpec
CONSTANTS
    MaxCommands = 3
    CommandLength = 17
    PieceLength = 32
    MaxReads = 5
INVARIANTS
    TypeOK
    PiecesAreCommands
    MisuseMeansNoClient
    HangsUpLate
PROPERTIES
    HangsUpInTheEnd
    NoOrphan
CHECK_DEADLOCK FALSE
