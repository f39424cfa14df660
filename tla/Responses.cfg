SPECIFICATION FairSpec
CONSTANTS
    Streams <- Streams3
    MaxPieces = 4
INVARIANTS
    BodiesAreRelayed
    AnswersDisjoint
    NoAnswerLost
PROPERTIES
    OriginEnds
CHECK_DEADLOCK FALSE
