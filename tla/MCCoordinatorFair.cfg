CONSTANTS
    c1 = c1
    c2 = c2
    c3 = c3
    NoCall = NoCall
    NoTask = NoTask
    Calls = {c1, c2}
    Actions = {"a"}
    Types = {"go", "check", "postponed"}
    GasLimited = TRUE
    MAX_RETRY = 1
    Bypass = 1
    MaxTime = 1
    j1 = j1
    NoRow = NoRow
    NoSign = NoSign
    m1 = m1
    A = A
    d1 = d1
    ch = ch
    k1 = k1
    Unset = Unset
    None = None
SPECIFICATION MCSpec
PROPERTIES
    DeadNodeRestarted
    RowConverges
    EveryCallReturns
    AwayIsMarked
    EarningsCollected
