CONSTANTS
    Servers = {"s1", "s2"}
    MaxProbes = 2
    Names <- MCNames
    Translated <- MCTranslated
    Lengths <- MCLengths
    Behaviours <- PlainPairs
SPECIFICATION Spec
INVARIANTS
    RefusalOf09Ignored
CHECK_DEADLOCK FALSE
