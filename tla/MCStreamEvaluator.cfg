CONSTANTS
    path = path
    fn = fn
    both = both
    neg = neg
    c1 = c1
    c2 = c2
    w1 = w1
    s1 = s1
    Nil = Nil
    NoSchema = NoSchema
    Callers = {c1, c2}
    Editors = {w1}
    Exprs = {path, both, neg}
    Kind <- KindOfThese
    Uses <- UsesOfThese
    Ops <- AllButAdd
    Shadowed <- Sum
    Schemas = {s1}
    IndexLists <- Pairs
    CacheSize = 1
    Initials <- PathAndBool
    Indices <- OfTwo
    MaxCalls = 3
    MaxEdits = 1
SPECIFICATION Spec
SYMMETRY Symmetric
INVARIANTS
    TypeOK
    PlansFresh
    QuietCallsAnswer
    BoolOnlyWithoutDecode
    ShadowedNeverFast
    RemovedIsUndefined
