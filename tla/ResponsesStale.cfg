SPECIFICATION FairSpec
CONSTANTS
    Streams <- Streams2
    MaxPieces = 4
INVARIANTS
    OneBodyPerResponse

CHECK_DEADLOCK FALSE
