CONSTANTS
    main = main
    fun = fun
    read = read
    deep = deep
    part = part
    arg = arg
    comp = comp
    sort = sort
    eval = eval
    update = update
    Null = Null
    Undefined = Undefined
    Main = main
    Fns = {main, fun, part, arg, comp, sort, eval}
    Binders = {}
    Readers = {}
    Foci = {}
    Kind <- KindOfThese
    Wraps <- WrapsOfThese
    Levels <- LevelsOfThese
    MaxDepth = 1
    MaxNested = 1
    MaxEval = 1
    MaxIter = 1
    FreeDepth = 2
    LevelsPerCall = 3
    MaxCalls = 1
SPECIFICATION Spec
INVARIANTS
    TypeOK
    Balanced
    GoStackBounded
    LimitsReported
