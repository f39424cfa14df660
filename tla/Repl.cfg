SPECIFICATION Spec
CONSTANTS
    Services <- MCServices
    Lines <- MCLines
    Number <- MCNumber
    Unencodable <- MCUnencodable
    Wanted <- MCWanted
    MaxLines = 1
    MaxPieces = 2
INVARIANTS
    EndsOnlyFor
    SentFromThisPipeline
    FramesAsWritten
PROPERTIES
    ShownUnderOwnName
CHECK_DEADLOCK FALSE
