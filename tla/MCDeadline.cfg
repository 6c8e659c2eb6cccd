CONSTANTS
    Evals = {"lender", "caller"}
    Never = Never
    Timeouts <- MCTimeouts
    Cancellable = {"caller", "lender"}
    Lenders = {"lender"}
    Composers = {"lender"}
    PollEvery = 2
    TickWrap = 4
    MaxClock = 2
SPECIFICATION FairSpec
INVARIANTS FewLatePolls OwnCallsChecked BlamesItsOwn OneInstant
PROPERTY TimeoutEnds
