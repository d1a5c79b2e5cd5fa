CONSTANTS
    j1 = j1
    j2 = j2
    NoRow = NoRow
    NoSign = NoSign
    Jobs = {j1, j2}
    Calls = {"update", "settle"}
    Amounts = {1}
    Expiries = {1}
    Prices = {1}
    ExtendSigned = {TRUE}
    GasLimited = FALSE
    MaxSpent = 1
    MaxTotal = 1
    MaxEvents = 1
    h1 = h1
    NoCache = NoCache
    Handlers = {h1}
    Modes = {"single"}
    UnitCosts <- MCUnits
    MaxConflict = 1
    RangeMax = 1
    MaxBill = 1
    MaxQueued = 2
SPECIFICATION MCSpec
SYMMETRY JobSymmetry
INVARIANTS
    TypeOK
    SignsCoverRemote
    OpenRowVerifies
    NeverAheadOfContract
PROPERTIES
    FollowsAccount
