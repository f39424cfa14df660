SPECIFICATION FairSpec
CONSTANTS
    c1 = c1
    c2 = c2
    Conns = {c1, c2}
    Streams <- TwoStreams
    Logs <- AloneOrRacing
    PayloadLimit = 3
    UseTLS = TRUE
INVARIANTS
    EchoFaithful
    EndsAnswered
    StampOrder
    EndingStreamsHoldFrames
    H1EchoesAll
PROPERTIES
    H1Ends
    EndEventuallyAnswered
CHECK_DEADLOCK FALSE
