CONSTANTS
    h1 = h1
    h2 = h2
    NoCache = NoCache
    Handlers = {h1}
    Modes = {"single"}
    Amounts <- MCSingleAmounts
    UnitCosts <- MCPollUnits
    MaxConflict = 1
    RangeMax = 2
    Rows <- MCDocRows
    MaxBill = 3
    MaxQueued = 1
SPECIFICATION MCDocSpec
INVARIANTS
    ConflictIsAmount
