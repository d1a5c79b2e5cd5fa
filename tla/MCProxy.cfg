CONSTANTS
    h1 = h1
    h2 = h2
    NoCache = NoCache
    Handlers = {h1, h2}
    Modes = {"multiple"}
    Amounts <- MCRangeAmounts
    UnitCosts <- MCRangeUnits
    MaxConflict = 1
    RangeMax = 1
    Rows <- MCRangeRows
    MaxBill = 2
    MaxQueued = 1
    q1 = q1
    q2 = q2
    d1 = d1
    d2 = d2
    t1 = t1
    s1 = s1
    s2 = s2
    k1 = k1
    k2 = k2
    None = None
    Queries = {q1, q2}
    Deployments = {d1}
    Of <- MCOf
    MaxHour = 2
    MaxRestarts = 1
    Posts = {t1}
    Tasks = {t1}
    Daily = 2
    Rate = 1
    ProjectRate = 1
    Lifetime = 1
    DayLength = 2
    MaxSecond = 2
    Sockets = {s1, s2}
    WsUnits = {1, 2}
    Ends = {3}
    Price = 1
    Total = 2
    MaxTotal = 3
    WsRangeMax = 4
    WsMaxBill = 3
    Calls = {t1}
    Targets = {d1, d2}
    Projects <- MCProjects
    Requests <- MCRequests
    Auth = TRUE
    MaxBatch = 2
    MaxUnits = 3
    Streams = {s1, s2}
    AiRequests = {0, 2}
    Batch = 2
    AiRangeMax = 4
    AiEnds = {3}
    AiTotal = 4
    MaxMessages = 3
    Proposals = {t1}
    Kinds = {"open", "extend"}
    Terms <- MCTerms
    Rates = {1, 2}
    Keys = {k1, k2}
    Prices = {1, 2}
    Periods = {1, 2}
    QuoteDay = 1
    Gap = 0
    MaxTime = 1
SPECIFICATION MCSpec
INVARIANTS
    RemoteWasSigned
    NoPhantomCharge
    SpentWithinFunds
    UnpaidInRanges
    BookedOnce
    CountedAsBooked
    TokenHasLimits
    SocketsCovered
    AnsweredWasAdmitted
    LessThanBatchUnpaid
    AcceptedAtPrice
