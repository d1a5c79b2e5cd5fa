CONSTANTS
    j1 = j1
    j2 = j2
    NoRow = NoRow
    NoSign = NoSign
    Jobs = {j1, j2}
    Calls = {"update"}
    Amounts = {1, 2}
    Expiries = {1}
    Prices = {1}
    ExtendSigned = {TRUE}
    GasLimited = FALSE
    MaxSpent = 1
    MaxTotal = 1
    MaxEvents = 1
SPECIFICATION Spec
PROPERTIES
    UpdateKeepsRemote
