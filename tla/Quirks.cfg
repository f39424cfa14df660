CONSTANTS
    Servers = {"s1", "s2"}
    MaxProbes = 2
    Names <- MCNames
    Translated <- MCTranslated
    Lengths <- MCLengths
    Behaviours <- TwoWaysPairs
SPECIFICATION Spec
INVARIANTS
    RecordedAsItIs
    BenignIgnored
    RealDiscrepanciesShown
CHECK_DEADLOCK FALSE
