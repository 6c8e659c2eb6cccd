CONSTANTS
    MaxDepth = 4
    MaxMatchCells = 12
    MaxInjectCombinations = 8
    CycleCheckDepth = 1
    MemoMinLen = 3
    ChainLookahead = 1
    MaxPathNodes = 4
    MaxPathElements = 4
    Scales <- MCScales
    Letters = 3
    Alphabets <- MCAlphabets
SPECIFICATION Spec
INVARIANTS
    SourceKept
    PowersRespected
    HeightCounted
    CountsAsRegex
    ShortcutsAgree
    ArgumentsKept
    ReadsSuffice
    IntegersReadBack
    CloneStaysWhole
    MergedAsEvaluated
PROPERTIES
    OnlyCloneChanges
CHECK_DEADLOCK FALSE
