CONSTANTS
    Names <- MCNames
    Translated <- MCTranslated
    Lengths <- MCLengths
    Lineups <- JoinedLineups
SPECIFICATION Spec
INVARIANTS
    JoinedDuplicatesIgnored
CHECK_DEADLOCK FALSE
