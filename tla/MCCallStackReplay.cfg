CONSTANTS
    main = main
    fun = fun
    read = read
    deep = deep
    part = part
    arg = arg
    comp = comp
    sort = sort
    eval = eval
    update = update
    Null = Null
    Undefined = Undefined
    Main = main
    Fns = {main, fun, read}
    Binders = {fun}
    Readers = {read}
    Foci = {}
    Kind <- KindOfThese
    Wraps <- WrapsOfThese
    Levels <- LevelsOfThese
    MaxDepth = 2
    MaxNested = 0
    MaxEval = 0
    MaxIter = 2
    FreeDepth = 2
    LevelsPerCall = 3
    MaxCalls = 1
SPECIFICATION Spec
INVARIANT CallsRunOnce
