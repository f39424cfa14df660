SPECIFICATION FairSpec
CONSTANTS
    Calls <- MCCalls
    Workers = {w1, w2}
    ChunkSize = 2
INVARIANTS
    NothingReadIsLost
    PieceAnswersEarlierData
PROPERTIES
    Implements
    RoundtripEnds
    FanoutEnds
CHECK_DEADLOCK FALSE
