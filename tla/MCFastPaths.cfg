SPECIFICATION Spec
CONSTANTS
    Float <- MCFloat
    Infinity = "Inf"
    Zeros <- MCZeros
    Negatives <- MCNegatives
    Trim <- MCTrim
    ParseFloat <- MCParseFloat
    ParseRadix <- MCParseRadix
    NoNumber = "NaN"
    MaxSequence = 1
    CustomFuncs = {"sum", "exists", "max"}
    Scalars <- EveryScalar
    MaxNodes = 7
    MaxSteps = 3
    Batches <- AllBatches
INVARIANTS
    FastAgrees
    WalkFindsEveryValue
CHECK_DEADLOCK FALSE
