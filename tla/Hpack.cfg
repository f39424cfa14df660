SPECIFICATION Spec
CONSTANTS
    StaticTable <- MCStaticTable
    Codewords <- MCCodewords
    MaxCapacity = 100
    Blocks <- MCBlocks
INVARIANTS
    HpackTypeOK
    FieldsComeBack
    OnlyTornBlocksAreRefused
PROPERTIES
    Implements
CHECK_DEADLOCK FALSE
