SPECIFICATION Spec
CONSTANTS
    Programs <- MCPrograms
INVARIANTS
    FramesAreTheData
    OnlyATearIsRefused
    BuiltFramesComeBack
    SpecializedForGood
CHECK_DEADLOCK FALSE
