CONSTANTS
    path = path
    fn = fn
    both = both
    neg = neg
    c1 = c1
    c2 = c2
    w1 = w1
    s1 = s1
    Nil = Nil
    NoSchema = NoSchema
    Callers = {c1, c2}
    Editors = {w1}
    Exprs = {path, fn}
    Kind <- KindOfThese
    Uses <- UsesOfThese
    Ops <- AllOps
    Shadowed <- NoNames
    Schemas = {s1}
    IndexLists <- One
    CacheSize = 1
    Initials <- UpToOne
    Indices <- FromBelow
    MaxCalls = 3
    MaxEdits = 2
SPECIFICATION Spec
INVARIANT ReplaceTakesEffect
