CONSTANTS
    Names = {"$", "%%root", "x", "y"}
    Values = {"v", "nil"}
    Context = "$"
    RootInput = "%%root"
    Absent = "nil"
    Unbound = Unbound
    NoMap = NoMap
    InlineCap = 1
    Builtins = {"y"}
    VarNames = {"x"}
    MaxEnvs = 6
    MaxBinds = 2
SPECIFICATION Spec
INVARIANT ReadsNearest
PROPERTIES ScopeSpec RebaseKeepsBindings
