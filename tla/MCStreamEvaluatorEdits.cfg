CONSTANTS
    path = path
    fn = fn
    both = both
    neg = neg
    c1 = c1
    c2 = c2
    w1 = w1
    w2 = w2
    s1 = s1
    Nil = Nil
    NoSchema = NoSchema
    Callers = {c1}
    Editors = {w1, w2}
    Exprs = {path, fn}
    Kind <- KindOfThese
    Uses <- UsesOfThese
    Ops <- AllOps
    Shadowed <- NoNames
    Schemas = {s1}
    IndexLists <- One
    CacheSize = 1
    Initials <- PathAndCall
    Indices <- UpToAbove
    MaxCalls = 1
    MaxEdits = 2
SPECIFICATION FairSpec
PROPERTIES
    TableSpec
    AllReturn
