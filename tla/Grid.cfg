CONSTANTS
    Names <- MCNames
    Translated <- MCTranslated
    Lengths <- MCLengths
    Lineups <- AllLineups
SPECIFICATION Spec
INVARIANTS
    GridTypeOK
    GridJudgesWhatWasSaid
    SymmetricGrid
    RejectionsShownAsAgreement
    ClusterAgrees
    TwinsShareACluster
CHECK_DEADLOCK FALSE
